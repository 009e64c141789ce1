----------------------------- MODULE Inspector -----------------------------
(***************************************************************************)
(* The inspector process: InspectorServicerImpl (server.py) dispatching    *)
(* prompts and stream windows under a semaphore to the hybrid strategy     *)
(* (strategies/hybrid.py) with its verdict cache (cache.py), its cache of  *)
(* compiled categories and the LLM judge behind a backend (backends/).     *)
(*                                                                         *)
(* The process is one asyncio event loop: a coroutine runs alone until it  *)
(* waits for a permit of the semaphore or for the backend, and everything  *)
(* between two such points is one action.                                  *)
(*                                                                         *)
(* A text is what the recognizers make of it; a message list is its joined *)
(* user text and a shape, the rest of it (roles, system and assistant      *)
(* messages, where the boundaries are).                                    *)
(***************************************************************************)
EXTENDS Integers, Sequences, FiniteSets, SequencesExt

CONSTANTS
  Calls,        \* handler coroutines
  Requests,     \* the requests clients send: a subset of Request, below
  Policies,     \* policies: a row of dlp_policies in one of its versions
  Scopes,       \* what the verdict cache knows of a policy: the company it
                \* belongs to and its policy_version
  Texts,        \* joined user and tool text
  Shapes,       \* message lists with the same joined text
  Addresses,    \* what id() may return for a list of categories
  Policy,       \* Policy[p]: what the strategy reads of policy p
  Text,         \* Text[t]: what the built-in recognizers make of text t
  JudgeSays,    \* JudgeSays[<<p, t>>]: the decisions the judge may reply
  Empty,        \* the text with no user content
  MaxInflight,  \* LEAKSHIELD_INSPECTOR_MAX_INFLIGHT
  MaxCompiled,  \* compiled lists kept before _compile clears them
  Temperature,  \* judge_temperature
  None          \* no policy, shape, address or cached verdict

\* ESCALATE may be the severity of a category or the reply of the judge.
Decisions == {"ALLOW", "MASK", "BLOCK", "ESCALATE"}

\* windows are chunks of a streamed response; they carry no policy of the
\* tenant (policy_version 0, no custom categories).
Request == [kind : {"prompt", "window"}, policy : Policies, text : Texts, shape : Shapes]

ASSUME PolicyAssumption ==
  Policy \in [Policies ->
    [scope : Scopes,
     mock : BOOLEAN,               \* the strategy resolves to MockFilter
     categories : Nat,             \* how many custom categories it lists
     valid : BOOLEAN,              \* their regexes compile
     llmOnly : BOOLEAN,            \* one of them is llm_only
     noEscalation : BOOLEAN,       \* disable_escalation
     hits : [Texts -> SUBSET Decisions]]]  \* severities of its rules that match

ASSUME TextAssumption ==
  /\ Text \in [Texts -> [hits : SUBSET {"MASK", "BLOCK"}, medium : BOOLEAN, short : BOOLEAN]]
  /\ Empty \in Texts
  /\ Text[Empty] = [hits |-> {}, medium |-> FALSE, short |-> FALSE]
  /\ \A p \in Policies : Policy[p].hits[Empty] = {}

ASSUME InspectorAssumption ==
  /\ Requests \subseteq Request
  /\ JudgeSays \in [Policies \X Texts -> SUBSET Decisions]
  /\ MaxInflight \in Nat \ {0}
  /\ MaxCompiled \in Nat
  /\ Temperature \in Nat
  /\ None \notin Policies \cup Shapes \cup Addresses

VARIABLES
  serving,   \* "up", "draining" (after SIGTERM) or "closed"
  free,      \* permits of the semaphore
  queue,     \* calls waiting for one, first come first served
  call,      \* call[c]: the request handler c runs and how far it is
  verdicts,  \* the verdict cache, by scope and joined text
  compiled   \* _compiled_cache: whose compiled categories are under an address

vars == <<serving, free, queue, call, verdicts, compiled>>

-----------------------------------------------------------------------------
\* Verdicts.  rules, judged and outage record how one came about: whose
\* compiled categories were evaluated, whether the judge had a say, whether it
\* was needed and failed.

Verdict == [decision : Decisions,
            shape : Shapes \cup {None},     \* of redacted_messages
            rules : Policies \cup {None},
            judged : BOOLEAN,
            outage : BOOLEAN]

\* What is neither BLOCK nor MASK, ESCALATE included, comes out as ALLOW.
Strictest(D) ==
  IF "BLOCK" \in D THEN "BLOCK" ELSE IF "MASK" \in D THEN "MASK" ELSE "ALLOW"

\* Faulty Combine: the judge, asked last, decides.
CombineJudgeLast(hits, q, says, outage, shape) ==
  LET decision == IF says # {} THEN Strictest(says) ELSE Strictest(hits)
  IN  [decision |-> decision,
       shape    |-> IF decision = "MASK" THEN shape ELSE None,
       rules    |-> q,
       judged   |-> says # {},
       outage   |-> outage]

\* _combine: rule hits of policy q on text t, and the judge's decisions (none
\* or one).  Only a MASK carries messages.
Combine(hits, q, says, outage, shape) ==
  LET decision == Strictest(hits \cup says)
  IN  [decision |-> decision,
       shape    |-> IF decision = "MASK" THEN shape ELSE None,
       rules    |-> q,
       judged   |-> says # {},
       outage   |-> outage]

MockVerdict ==
  [decision |-> "ALLOW", shape |-> None, rules |-> None, judged |-> FALSE, outage |-> FALSE]

FailClosed(q) ==
  [decision |-> "BLOCK", shape |-> None, rules |-> q, judged |-> FALSE, outage |-> TRUE]

\* is_cacheable
Cacheable(v) == v.judged => Temperature = 0

-----------------------------------------------------------------------------
\* What a request comes down to.

\* _join_user_text keeps user and tool messages; a window is an assistant
\* message.
Joined(rq) == IF rq.kind = "window" THEN Empty ELSE rq.text

Keys == Scopes \X Texts

\* make_cache_key: no policy, no categories, no message boundaries.
Key(rq) == <<Policy[rq.policy].scope, Joined(rq)>>

\* for_strategy: windows always take the hybrid strategy.
Mocked(rq) == rq.kind = "prompt" /\ Policy[rq.policy].mock

RuleHits(t, q) == Text[t].hits \cup Policy[q].hits[t]

Escalates(rq) ==
  LET t == Joined(rq) IN
  /\ ~Policy[rq.policy].noEscalation
  /\ Text[t].medium \/ Policy[rq.policy].llmOnly \/ Text[t].short
  /\ t # Empty

\* The judge is told the text and the request's own categories.
Replies(rq) == JudgeSays[<<rq.policy, Joined(rq)>>]

\* Faulty CompiledHit: the length of the list is not compared.
CompiledHitByAddress(p, a) == compiled[a] # None

\* _compile: the list under the same address and of the same length is taken
\* for the same list.
CompiledHit(p, a) ==
  compiled[a] # None /\ Policy[compiled[a]].categories = Policy[p].categories

Compiled(p, a) == IF CompiledHit(p, a) THEN compiled[a] ELSE p

Compile(p, a) ==
  IF CompiledHit(p, a) THEN compiled
  ELSE IF Cardinality({b \in Addresses : compiled[b] # None}) > MaxCompiled
    THEN [b \in Addresses |-> IF b = a THEN p ELSE None]
    ELSE [compiled EXCEPT ![a] = p]

-----------------------------------------------------------------------------
\* Handlers.

Waiting == {"waiting", "judge", "rejudge"}

\* The calls inside the semaphore, each with its list of categories alive.
Judging == {c \in Calls : call[c].pc \in {"judge", "rejudge"}}

Held == {call[c].address : c \in Judging}

\* No request, or one that ended in an error.
Idle == [pc |-> "idle", rq |-> None, address |-> None, rules |-> None, verdict |-> None]

Answered(rq, v) ==
  [pc |-> "answered", rq |-> rq, address |-> None, rules |-> None, verdict |-> v]

Init ==
  /\ serving = "up"
  /\ free = MaxInflight
  /\ queue = <<>>
  /\ call = [c \in Calls |-> Idle]
  /\ verdicts = [k \in Keys |-> None]
  /\ compiled = [a \in Addresses |-> None]

\* A request arrives and asks for a permit.
Arrive(c, rq) ==
  /\ serving = "up"
  /\ call[c].pc \notin Waiting
  /\ call' = [call EXCEPT ![c] = [Idle EXCEPT !.pc = "waiting", !.rq = rq]]
  /\ queue' = Append(queue, c)
  /\ UNCHANGED <<serving, free, verdicts, compiled>>

\* The first in line gets a permit ...
Admitted(c) ==
  /\ queue # <<>> /\ Head(queue) = c
  /\ free > 0
  /\ queue' = Tail(queue)

\* ... and is answered by the mock strategy,
AnswerMock(c) ==
  /\ Admitted(c)
  /\ Mocked(call[c].rq)
  /\ call' = [call EXCEPT ![c] = Answered(call[c].rq, MockVerdict)]
  /\ UNCHANGED <<serving, free, verdicts, compiled>>

\* ... or from the verdict cache,
AnswerCached(c) ==
  LET rq == call[c].rq IN
  /\ Admitted(c)
  /\ ~Mocked(rq)
  /\ verdicts[Key(rq)] # None
  /\ call' = [call EXCEPT ![c] = Answered(rq, verdicts[Key(rq)])]
  /\ UNCHANGED <<serving, free, verdicts, compiled>>

\* ... or is inspected: its categories are parsed into a new list at some free
\* address, compiled and evaluated, and the judge is asked if need be.
Inspect(c, a) ==
  LET rq == call[c].rq
      q == Compiled(rq.policy, a)
      v == Combine(RuleHits(Joined(rq), q), q, {}, FALSE, rq.shape)
  IN
  /\ Admitted(c)
  /\ ~Mocked(rq)
  /\ verdicts[Key(rq)] = None
  /\ a \notin Held
  /\ \/ /\ ~CompiledHit(rq.policy, a)
        /\ ~Policy[rq.policy].valid
        /\ call' = [call EXCEPT ![c] = Idle]
        /\ UNCHANGED <<free, verdicts, compiled>>
     \/ /\ CompiledHit(rq.policy, a) \/ Policy[rq.policy].valid
        /\ compiled' = Compile(rq.policy, a)
        /\ \/ /\ ~Escalates(rq)
              /\ verdicts' = [verdicts EXCEPT ![Key(rq)] = v]
              /\ call' = [call EXCEPT ![c] = Answered(rq, v)]
              /\ UNCHANGED free
           \/ /\ Escalates(rq)
              /\ free' = free - 1
              /\ call' = [call EXCEPT ![c] =
                   [pc |-> "judge", rq |-> rq, address |-> a, rules |-> q, verdict |-> None]]
              /\ UNCHANGED verdicts
  /\ UNCHANGED serving

\* Faulty Leave: the permit is not given back.
LeaveWithPermit(c, result) ==
  /\ call' = [call EXCEPT ![c] = result]
  /\ UNCHANGED <<serving, free, queue, compiled>>

\* A call leaves the semaphore with its verdict, or without one.
Leave(c, result) ==
  /\ call' = [call EXCEPT ![c] = result]
  /\ free' = free + 1
  /\ UNCHANGED <<serving, queue, compiled>>

Conclude(c, v) ==
  /\ verdicts' = IF Cacheable(v) THEN [verdicts EXCEPT ![Key(call[c].rq)] = v] ELSE verdicts
  /\ Leave(c, Answered(call[c].rq, v))

Hits(c) == RuleHits(Joined(call[c].rq), call[c].rules)

JudgeReplies(c) ==
  /\ c \in Judging
  /\ \E says \in Replies(call[c].rq) :
       Conclude(c, Combine(Hits(c), call[c].rules, {says}, FALSE, call[c].rq.shape))

\* Faulty JudgeFails: the rule hits decide, none of them allows.
JudgeFailsOpen(c) ==
  Conclude(c, Combine(Hits(c), call[c].rules, {}, TRUE, call[c].rq.shape))

\* Faulty JudgeFails: the block for want of a judge is cached.
JudgeFailsCaching(c) ==
  \/ /\ Hits(c) = {}
     /\ Conclude(c, FailClosed(call[c].rules))
  \/ /\ Hits(c) # {}
     /\ Conclude(c, Combine(Hits(c), call[c].rules, {}, TRUE, call[c].rq.shape))

\* The judge is out of reach: the rule hits decide alone, and without any the
\* prompt is blocked and nothing is cached.
JudgeFails(c) ==
  \/ /\ Hits(c) = {}
     /\ Leave(c, Answered(call[c].rq, FailClosed(call[c].rules)))
     /\ UNCHANGED verdicts
  \/ /\ Hits(c) # {}
     /\ Conclude(c, Combine(Hits(c), call[c].rules, {}, TRUE, call[c].rq.shape))

\* BackendError: not reachable, timed out, model not pulled, error status.
JudgeUnavailable(c) ==
  /\ c \in Judging
  /\ JudgeFails(c)

\* Faulty JudgeUnparseable: the judge is asked until it makes sense.
JudgeUnparseableForever(c) ==
  /\ c \in Judging
  /\ call' = [call EXCEPT ![c].pc = IF @ = "judge" THEN "rejudge" ELSE "judge"]
  /\ UNCHANGED <<serving, free, queue, verdicts, compiled>>

\* A reply that does not parse is asked for once more.
JudgeUnparseable(c) ==
  \/ /\ call[c].pc = "judge"
     /\ call' = [call EXCEPT ![c].pc = "rejudge"]
     /\ UNCHANGED <<serving, free, queue, verdicts, compiled>>
  \/ /\ call[c].pc = "rejudge"
     /\ JudgeFails(c)

\* Any other exception of the backend (a stub, a body that is not JSON, an
\* error of the second attempt with format=json) becomes INTERNAL.
JudgeRaises(c) ==
  /\ c \in Judging
  /\ Leave(c, Idle)
  /\ UNCHANGED verdicts

\* Faulty Cancel: a call cancelled in line gives back a permit it never had.
CancelReleasing(c) ==
  \/ /\ c \in Judging
     /\ Leave(c, Idle)
     /\ UNCHANGED verdicts
  \/ /\ call[c].pc = "waiting"
     /\ call' = [call EXCEPT ![c] = Idle]
     /\ \E i \in DOMAIN queue : queue[i] = c /\ queue' = RemoveAt(queue, i)
     /\ free' = free + 1
     /\ UNCHANGED <<serving, verdicts, compiled>>

\* The client cancels the RPC or its deadline passes, in line or inside.
Cancel(c) ==
  \/ /\ c \in Judging
     /\ Leave(c, Idle)
     /\ UNCHANGED verdicts
  \/ /\ call[c].pc = "waiting"
     /\ call' = [call EXCEPT ![c] = Idle]
     /\ \E i \in DOMAIN queue : queue[i] = c /\ queue' = RemoveAt(queue, i)
     /\ UNCHANGED <<serving, free, verdicts, compiled>>

-----------------------------------------------------------------------------
\* The process.

\* An entry of the verdict cache outlives its time to live.
Evict(k) ==
  /\ verdicts[k] # None
  /\ verdicts' = [verdicts EXCEPT ![k] = None]
  /\ UNCHANGED <<serving, free, queue, call, compiled>>

\* SIGTERM or SIGINT: no new RPC is accepted.
Signal ==
  /\ serving = "up"
  /\ serving' = "draining"
  /\ UNCHANGED <<free, queue, call, verdicts, compiled>>

\* The grace of server.stop is over: the handlers still running are cancelled.
GraceOver ==
  /\ serving = "draining"
  /\ \E c \in Calls : call[c].pc \in Waiting
  /\ call' = [c \in Calls |->
                IF call[c].pc \in Waiting THEN Idle ELSE call[c]]
  /\ queue' = <<>>
  /\ free' = MaxInflight
  /\ UNCHANGED <<serving, verdicts, compiled>>

\* server.stop returns; the registry and the backend are closed.
Close ==
  /\ serving = "draining"
  /\ \A c \in Calls : call[c].pc \notin Waiting
  /\ serving' = "closed"
  /\ verdicts' = [k \in Keys |-> None]
  /\ UNCHANGED <<free, queue, call, compiled>>

\* The process dies, or a closed one is gone, and the next one starts.
Boot ==
  /\ serving' = "up"
  /\ free' = MaxInflight
  /\ queue' = <<>>
  /\ call' = [c \in Calls |-> Idle]
  /\ verdicts' = [k \in Keys |-> None]
  /\ compiled' = [a \in Addresses |-> None]

-----------------------------------------------------------------------------
Enter(c) ==
  \/ AnswerMock(c)
  \/ AnswerCached(c)
  \/ \E a \in Addresses : Inspect(c, a)

JudgeReturns(c) ==
  \/ JudgeReplies(c)
  \/ JudgeUnavailable(c)
  \/ JudgeUnparseable(c)
  \/ JudgeRaises(c)

Next ==
  \/ \E c \in Calls, rq \in Requests : Arrive(c, rq)
  \/ \E c \in Calls : Enter(c) \/ JudgeReturns(c) \/ Cancel(c)
  \/ \E k \in Keys : Evict(k)
  \/ Signal
  \/ GraceOver
  \/ Close
  \/ Boot

Spec == Init /\ [][Next]_vars

\* The event loop runs every coroutine that can run, and the HTTP client gives
\* up on the backend after its timeout.
FairSpec ==
  Spec /\ \A c \in Calls : WF_vars(Enter(c)) /\ WF_vars(JudgeReturns(c))

-----------------------------------------------------------------------------
\* Properties.

Handler ==
  [pc : {"idle", "answered"} \cup Waiting,
   rq : Requests \cup {None},
   address : Addresses \cup {None},
   rules : Policies \cup {None},
   verdict : Verdict \cup {None}]

\* The shape of the inspector's state.
TypeOK ==
  /\ serving \in {"up", "draining", "closed"}
  /\ free \in 0 .. MaxInflight
  /\ queue \in Seq(Calls)
  /\ call \in [Calls -> Handler]
  /\ verdicts \in [Keys -> Verdict \cup {None}]
  /\ compiled \in [Addresses -> Policies \cup {None}]

\* _run_inspect gives back every permit it took, however the inspection ends
\* (verdict, exception, cancellation, shutdown), and a call waits in line
\* exactly once.
PermitsBalance ==
  /\ free + Cardinality(Judging) = MaxInflight
  /\ \A c \in Calls :
       Cardinality({i \in DOMAIN queue : queue[i] = c}) = IF call[c].pc = "waiting" THEN 1 ELSE 0

AnsweredBy(c) == call[c].pc = "answered" /\ ~Mocked(call[c].rq)

\* What a built-in recognizer blocks stays blocked: no reply of the judge, no
\* outage, no confusion of compiled categories and no cached verdict lets it
\* through.
BuiltinBlockIsFinal ==
  \A c \in Calls :
    AnsweredBy(c) /\ "BLOCK" \in Text[Joined(call[c].rq)].hits =>
      call[c].verdict.decision = "BLOCK"

\* What is allowed without the judge need not be judged, itself or a request of
\* the same scope and text whose cached verdict it gets; where the judge was
\* needed and out of reach, some rule matched, if only to ALLOW or ESCALATE.
NoAllowWithoutJudge ==
  \A c \in Calls :
    LET v == call[c].verdict IN
    AnsweredBy(c) /\ v.decision = "ALLOW" /\ ~v.judged =>
      IF v.outage
        THEN RuleHits(Joined(call[c].rq), v.rules) # {}
        ELSE \E rq \in Requests :
               Key(rq) = Key(call[c].rq) /\ ~Mocked(rq) /\ ~Escalates(rq)

\* An outage that blocks a prompt for want of a judge is never remembered: as
\* soon as the judge is back the prompt is judged.
BlindBlockNotCached ==
  \A k \in DOMAIN verdicts :
    LET v == verdicts[k] IN
    v # None /\ v.outage /\ v.decision = "BLOCK" => "BLOCK" \in RuleHits(k[2], v.rules)

\* What inspecting a request under the categories of policy q can come to.
Outcomes(rq, q) ==
  LET hits == RuleHits(Joined(rq), q)
      blind == IF hits = {} THEN "BLOCK" ELSE Strictest(hits)
  IN  IF ~Escalates(rq) THEN {Strictest(hits)}
      ELSE {blind} \cup {Strictest(hits \cup {says}) : says \in Replies(rq)}

\* v is a verdict on rq, under categories of which there are as many as rq's.
VerdictOn(rq, v) ==
  /\ ~Mocked(rq)
  /\ Policy[v.rules].categories = Policy[rq.policy].categories
  /\ v.decision \in Outcomes(rq, v.rules)
  /\ v.decision = "MASK" => v.shape = rq.shape

\* How far the two caches can mix requests up: an answer is a verdict on some
\* request of the same company, policy_version and joined text, evaluated and
\* judged as that request has to be, under a list of categories of the right
\* length.
AnswerIsInScope ==
  \A c \in Calls :
    AnsweredBy(c) =>
      \E rq \in Requests : Key(rq) = Key(call[c].rq) /\ VerdictOn(rq, call[c].verdict)

\* Every request is answered, fails or dies with the process: the line moves
\* and nobody waits for the judge for ever.
EveryInspectionEnds ==
  \A c \in Calls : call[c].pc \in Waiting ~> call[c].pc \notin Waiting

-----------------------------------------------------------------------------
\* What a comment says, and the code does not keep.

\* Their categories come to the same.
SameRules(p, q) == Policy[p].hits = Policy[q].hits

\* _compile, "the gateway hands us a fresh list on each policy update so this
\* is safe": a request is held against its own policy's categories.
CategoriesAreOwn ==
  \A c \in Judging : SameRules(call[c].rules, call[c].rq.policy)
=============================================================================
