--------------------------- MODULE InspectorProofs ---------------------------
(***************************************************************************)
(* What TLAPS proves of the inspector, for any calls, policies, texts and  *)
(* judge: permits balance, verdicts are accounted for, and how far the     *)
(* caches can mix requests up, which compare less than they hold.          *)
(***************************************************************************)
EXTENDS Inspector, FiniteSetTheorems, SequenceTheorems, TLAPS

\* Policies that list equally many custom categories, the number being all
\* that _compile compares.
AsManyCategories(q, p) == Policy[q].categories = Policy[p].categories

\* How a verdict of the hybrid strategy on rq can have come about: by the rules
\* alone, by the rules and a reply of the judge, or by the rules for want of one.
MadeOn(rq, v) ==
  LET hits == RuleHits(Joined(rq), v.rules) IN
  /\ ~Mocked(rq)
  /\ v \in Verdict /\ v.rules \in Policies /\ AsManyCategories(v.rules, rq.policy)
  /\ v.decision = "MASK" => v.shape = rq.shape
  /\ \/ ~Escalates(rq) /\ ~v.judged /\ ~v.outage /\ v.decision = Strictest(hits)
     \/ Escalates(rq) /\ v.judged /\ ~v.outage
          /\ \E says \in Replies(rq) : v.decision = Strictest(hits \cup {says})
     \/ Escalates(rq) /\ ~v.judged /\ v.outage
          /\ v.decision = IF hits = {} THEN "BLOCK" ELSE Strictest(hits)

\* All a key tells of the request a verdict is on.
Made(k, v) == \E rq \in Requests : Key(rq) = k /\ MadeOn(rq, v)

\* What the verdict cache may remember of them.
Remembered(k, v) == Made(k, v) /\ (v.outage => RuleHits(k[2], v.rules) # {})

\* What a handler may hold at each stage.
HandlerOK(h) ==
  /\ h \in Handler
  /\ h.pc = "waiting" => h.rq \in Requests
  /\ h.pc \in {"judge", "rejudge"} =>
       /\ h.rq \in Requests /\ ~Mocked(h.rq) /\ Escalates(h.rq)
       /\ h.rules \in Policies /\ AsManyCategories(h.rules, h.rq.policy)
  /\ h.pc = "answered" =>
       /\ h.rq \in Requests
       /\ IF Mocked(h.rq) THEN h.verdict = MockVerdict ELSE Made(Key(h.rq), h.verdict)

Handlers == call \in [Calls -> Handler] /\ \A c \in Calls : HandlerOK(call[c])

Caches ==
  /\ verdicts \in [Keys -> Verdict \cup {None}]
  /\ compiled \in [Addresses -> Policies \cup {None}]
  /\ \A k \in Keys : verdicts[k] # None => Remembered(k, verdicts[k])

Permits ==
  free \in Nat /\ IsFiniteSet(Judging) /\ free + Cardinality(Judging) = MaxInflight

\* Each member of W stands once in the line s, and nobody else does.
Line(s, W) ==
  /\ s \in Seq(Calls)
  /\ \A i, j \in DOMAIN s : s[i] = s[j] => i = j
  /\ \A c \in Calls : c \in W <=> \E i \in DOMAIN s : s[i] = c

Queued == {c \in Calls : call[c].pc = "waiting"}

Inv ==
  /\ serving \in {"up", "draining", "closed"}
  /\ Handlers
  /\ Caches
  /\ Permits
  /\ Line(queue, Queued)

-----------------------------------------------------------------------------
\* The line of the semaphore.

\* A sequence without its i-th element.
LEMMA RemoveAtIs ==
  ASSUME NEW S, NEW s \in Seq(S), NEW i \in DOMAIN s
  PROVE  /\ RemoveAt(s, i) \in Seq(S)
         /\ DOMAIN RemoveAt(s, i) = 1 .. Len(s) - 1
         /\ \A j \in 1 .. Len(s) - 1 : RemoveAt(s, i)[j] = IF j < i THEN s[j] ELSE s[j + 1]
<1> DEFINE front == SubSeq(s, 1, i - 1)
           back == SubSeq(s, i + 1, Len(s))
<1>1. Len(s) \in Nat /\ i \in 1 .. Len(s)
  OBVIOUS
<1>2. front \in Seq(S) /\ Len(front) = i - 1 /\ \A j \in 1 .. i - 1 : front[j] = s[j]
  BY <1>1
<1>3. back \in Seq(S) /\ Len(back) = Len(s) - i /\ \A j \in 1 .. Len(s) - i : back[j] = s[i + j]
  BY <1>1
<1> HIDE DEF front, back
<1>4. RemoveAt(s, i) = front \o back
  BY DEF RemoveAt, front, back
<1>5. /\ front \o back \in Seq(S) /\ Len(front \o back) = Len(front) + Len(back)
      /\ \A j \in 1 .. Len(front) + Len(back) :
           (front \o back)[j] = IF j <= Len(front) THEN front[j] ELSE back[j - Len(front)]
  BY <1>2, <1>3, ConcatProperties
<1>6. Len(front) = i - 1 /\ Len(front) + Len(back) = Len(s) - 1
  BY <1>1, <1>2, <1>3
<1>7. ASSUME NEW j \in 1 .. Len(s) - 1
      PROVE  (front \o back)[j] = IF j < i THEN s[j] ELSE s[j + 1]
  <2>0. j \in Nat /\ i \in Nat
    BY <1>1
  <2>1. CASE j < i
    <3>1. j <= i - 1 /\ j \in 1 .. i - 1
      BY <2>0, <2>1
    <3> QED BY <1>2, <1>5, <1>6, <2>1, <3>1
  <2>2. CASE j >= i
    <3>1. /\ j - (i - 1) \in 1 .. Len(s) - i /\ i + (j - (i - 1)) = j + 1
          /\ ~(j <= i - 1) /\ ~(j < i)
      BY <1>1, <2>2
    <3> QED BY <1>3, <1>5, <1>6, <3>1
  <2>3. j < i \/ j >= i
    BY <2>0
  <2> QED BY <2>1, <2>2, <2>3
<1>8. DOMAIN (front \o back) = 1 .. Len(s) - 1
  BY <1>5, <1>6
<1> QED BY <1>4, <1>5, <1>7, <1>8

\* Who asks for a permit stands last,
LEMMA LineGrows ==
  ASSUME NEW s, NEW W, Line(s, W), NEW c \in Calls, c \notin W
  PROVE  Line(Append(s, c), W \cup {c})
<1> DEFINE t == Append(s, c)
<1>1. s \in Seq(Calls) /\ Len(s) \in Nat /\ DOMAIN s = 1 .. Len(s)
  BY DEF Line
<1>2. /\ t \in Seq(Calls) /\ DOMAIN t = 1 .. Len(s) + 1 /\ t[Len(s) + 1] = c
      /\ \A i \in DOMAIN s : i \in DOMAIN t /\ t[i] = s[i]
  BY <1>1
<1>3. \A i \in DOMAIN t : i \in DOMAIN s \/ i = Len(s) + 1
  BY <1>1, <1>2
<1>4. \A i \in DOMAIN s : s[i] # c
  BY DEF Line
<1> HIDE DEF t
<1>5. \A i, j \in DOMAIN t : t[i] = t[j] => i = j
  BY <1>2, <1>3, <1>4 DEF Line
<1>6. \A d \in Calls : d \in W \cup {c} <=> \E i \in DOMAIN t : t[i] = d
  <2>1. Len(s) + 1 \in DOMAIN t
    BY <1>1, <1>2
  <2> QED BY <1>2, <1>3, <2>1 DEF Line
<1> QED BY <1>2, <1>5, <1>6 DEF Line, t

\* and whoever leaves it, wherever he stands, is gone and missed by nobody.
LEMMA LineShrinks ==
  ASSUME NEW s, NEW W, Line(s, W), NEW i \in DOMAIN s
  PROVE  Line(RemoveAt(s, i), W \ {s[i]})
<1> DEFINE t == RemoveAt(s, i)
<1>1. s \in Seq(Calls) /\ Len(s) \in Nat /\ DOMAIN s = 1 .. Len(s) /\ i \in 1 .. Len(s)
  BY DEF Line
<1>2. /\ t \in Seq(Calls) /\ DOMAIN t = 1 .. Len(s) - 1
      /\ \A j \in DOMAIN t : t[j] = IF j < i THEN s[j] ELSE s[j + 1]
  BY <1>1, RemoveAtIs
<1> HIDE DEF t
<1> DEFINE from(j) == IF j < i THEN j ELSE j + 1
<1>3. \A j \in DOMAIN t : from(j) \in DOMAIN s /\ from(j) # i /\ t[j] = s[from(j)]
  BY <1>1, <1>2
<1>4. \A j, k \in DOMAIN t : from(j) = from(k) => j = k
  BY <1>1, <1>2
<1>5. \A k \in DOMAIN s : k # i => \E j \in DOMAIN t : from(j) = k
  <2> SUFFICES ASSUME NEW k \in DOMAIN s, k # i PROVE \E j \in DOMAIN t : from(j) = k
    OBVIOUS
  <2>1. CASE k < i
    BY <1>1, <1>2, <2>1
  <2>2. CASE k > i
    <3>1. k - 1 \in DOMAIN t /\ from(k - 1) = k
      BY <1>1, <1>2, <2>2
    <3> QED BY <3>1
  <2> QED BY <1>1, <2>1, <2>2
<1> HIDE DEF from
<1>6. \A j, k \in DOMAIN t : t[j] = t[k] => j = k
  BY <1>3, <1>4 DEF Line
<1>7. \A d \in Calls : d \in W \ {s[i]} <=> \E j \in DOMAIN t : t[j] = d
  BY <1>3, <1>5 DEF Line
<1> QED BY <1>2, <1>6, <1>7 DEF Line, t

\* The first one leaves it with a permit.
LEMMA LineMoves ==
  ASSUME NEW s, NEW W, Line(s, W), s # <<>>
  PROVE  Head(s) \in W /\ Line(Tail(s), W \ {Head(s)})
<1>1. s \in Seq(Calls) /\ Len(s) \in Nat \ {0} /\ 1 \in DOMAIN s /\ Head(s) = s[1]
  BY DEF Line
<1>2. Tail(s) = RemoveAt(s, 1)
  <2>1. Tail(s) \in Seq(Calls) /\ RemoveAt(s, 1) \in Seq(Calls)
    BY <1>1, RemoveAtIs
  <2>2. Len(Tail(s)) = Len(s) - 1 /\ \A j \in 1 .. Len(s) - 1 : Tail(s)[j] = s[j + 1]
    BY <1>1
  <2>3. /\ DOMAIN RemoveAt(s, 1) = 1 .. Len(s) - 1
        /\ \A j \in 1 .. Len(s) - 1 : RemoveAt(s, 1)[j] = s[j + 1]
    BY <1>1, RemoveAtIs
  <2>4. Len(RemoveAt(s, 1)) = Len(s) - 1
    BY <1>1, <2>1, <2>3
  <2>5. \A j \in 1 .. Len(Tail(s)) : Tail(s)[j] = RemoveAt(s, 1)[j]
    BY <2>2, <2>3
  <2> QED BY <2>1, <2>2, <2>4, <2>5, SeqEqual
<1>3. Line(RemoveAt(s, 1), W \ {s[1]})
  BY <1>1, LineShrinks
<1>4. s[1] \in Calls /\ s[1] \in W
  BY <1>1 DEF Line
<1> QED BY <1>1, <1>2, <1>3, <1>4

LEMMA NobodyInLine == Line(<<>>, {})
BY DEF Line

-----------------------------------------------------------------------------
\* The permits.

\* A call that gets a permit and waits for the judge takes one away,
LEMMA PermitTaken ==
  ASSUME Permits, NEW c \in Calls, c \notin Judging, free > 0,
         Judging' = Judging \cup {c}, free' = free - 1
  PROVE  Permits'
<1>1. /\ IsFiniteSet(Judging) /\ Cardinality(Judging) \in Nat /\ free \in Nat
      /\ free + Cardinality(Judging) = MaxInflight
  BY FS_CardinalityType DEF Permits
<1>2. /\ IsFiniteSet(Judging \cup {c})
      /\ Cardinality(Judging \cup {c}) = Cardinality(Judging) + 1
  BY <1>1, FS_AddElement
<1> QED BY <1>1, <1>2 DEF Permits

\* and a call that leaves gives one back.
LEMMA PermitGivenBack ==
  ASSUME Permits, NEW c \in Judging, Judging' = Judging \ {c}, free' = free + 1
  PROVE  Permits'
<1>1. /\ IsFiniteSet(Judging) /\ Cardinality(Judging) \in Nat /\ free \in Nat
      /\ free + Cardinality(Judging) = MaxInflight
  BY FS_CardinalityType DEF Permits
<1>2. IsFiniteSet(Judging \ {c}) /\ Cardinality(Judging \ {c}) = Cardinality(Judging) - 1
  BY <1>1, FS_RemoveElement
<1> QED BY <1>1, <1>2 DEF Permits

LEMMA AllPermitsFree ==
  ASSUME Judging' = {}, free' = MaxInflight PROVE Permits'
BY FS_EmptySet, InspectorAssumption DEF Permits

\* There are never more permits than the semaphore has.
LEMMA PermitsInRange == ASSUME Permits PROVE free \in 0 .. MaxInflight
BY FS_CardinalityType, InspectorAssumption DEF Permits

-----------------------------------------------------------------------------
\* Verdicts.

LEMMA StrictestIs ==
  ASSUME NEW D
  PROVE  /\ Strictest(D) \in Decisions
         /\ "BLOCK" \in D => Strictest(D) = "BLOCK"
         /\ Strictest(D) = "BLOCK" => "BLOCK" \in D
BY DEF Strictest, Decisions

LEMMA KeyOf ==
  ASSUME NEW rq \in Requests
  PROVE  /\ Joined(rq) \in Texts /\ rq.policy \in Policies /\ rq.shape \in Shapes
         /\ Key(rq) \in Keys /\ Key(rq)[2] = Joined(rq)
<1>1. rq \in Request
  BY InspectorAssumption
<1>2. Joined(rq) \in Texts /\ rq.policy \in Policies /\ rq.shape \in Shapes
  BY <1>1, TextAssumption DEF Request, Joined
<1>3. Policy[rq.policy].scope \in Scopes
  BY <1>2, PolicyAssumption
<1> QED BY <1>2, <1>3 DEF Key, Keys

LEMMA MadeIs ==
  ASSUME NEW k, NEW v, Made(k, v)
  PROVE  v \in Verdict /\ v.rules \in Policies
BY DEF Made, MadeOn

\* _combine makes a verdict.
LEMMA CombineIs ==
  ASSUME NEW rq \in Requests, NEW hits, NEW q \in Policies, NEW says, NEW outage \in BOOLEAN
  PROVE  Combine(hits, q, says, outage, rq.shape) \in Verdict
<1>1. Strictest(hits \cup says) \in Decisions
  BY StrictestIs
<1> QED BY <1>1, KeyOf DEF Combine, Verdict

\* Every verdict the hybrid strategy makes of a request.
LEMMA MadeByRules ==
  ASSUME NEW rq \in Requests, ~Mocked(rq), ~Escalates(rq),
         NEW q \in Policies, AsManyCategories(q, rq.policy)
  PROVE  LET v == Combine(RuleHits(Joined(rq), q), q, {}, FALSE, rq.shape) IN
         Remembered(Key(rq), v)
<1> DEFINE v == Combine(RuleHits(Joined(rq), q), q, {}, FALSE, rq.shape)
<1>0. v \in Verdict
  BY CombineIs
<1>1. /\ v.rules = q /\ v.outage = FALSE /\ v.judged = ({} # {})
      /\ v.decision = Strictest(RuleHits(Joined(rq), q) \cup {})
      /\ v.decision = "MASK" => v.shape = rq.shape
  BY DEF Combine
<1> HIDE DEF v
<1>2. RuleHits(Joined(rq), q) \cup {} = RuleHits(Joined(rq), q)
  OBVIOUS
<1>3. MadeOn(rq, v)
  BY <1>0, <1>1, <1>2 DEF MadeOn
<1> QED BY <1>1, <1>3 DEF Remembered, Made, v

LEMMA MadeByJudge ==
  ASSUME NEW rq \in Requests, ~Mocked(rq), Escalates(rq),
         NEW q \in Policies, AsManyCategories(q, rq.policy), NEW says \in Replies(rq)
  PROVE  LET v == Combine(RuleHits(Joined(rq), q), q, {says}, FALSE, rq.shape) IN
         Remembered(Key(rq), v)
<1> DEFINE v == Combine(RuleHits(Joined(rq), q), q, {says}, FALSE, rq.shape)
<1>0. v \in Verdict
  BY CombineIs
<1>1. /\ v.rules = q /\ v.outage = FALSE /\ v.judged = ({says} # {})
      /\ v.decision = Strictest(RuleHits(Joined(rq), q) \cup {says})
      /\ v.decision = "MASK" => v.shape = rq.shape
  BY DEF Combine
<1> HIDE DEF v
<1>2. MadeOn(rq, v)
  BY <1>0, <1>1 DEF MadeOn
<1> QED BY <1>1, <1>2 DEF Remembered, Made, v

LEMMA MadeBlind ==
  ASSUME NEW rq \in Requests, ~Mocked(rq), Escalates(rq),
         NEW q \in Policies, AsManyCategories(q, rq.policy), RuleHits(Joined(rq), q) # {}
  PROVE  LET v == Combine(RuleHits(Joined(rq), q), q, {}, TRUE, rq.shape) IN
         Remembered(Key(rq), v)
<1> DEFINE v == Combine(RuleHits(Joined(rq), q), q, {}, TRUE, rq.shape)
<1>0. v \in Verdict
  BY CombineIs
<1>1. /\ v.rules = q /\ v.outage = TRUE /\ v.judged = ({} # {})
      /\ v.decision = Strictest(RuleHits(Joined(rq), q) \cup {})
      /\ v.decision = "MASK" => v.shape = rq.shape
  BY DEF Combine
<1> HIDE DEF v
<1>2. RuleHits(Joined(rq), q) \cup {} = RuleHits(Joined(rq), q)
  OBVIOUS
<1>3. MadeOn(rq, v)
  BY <1>0, <1>1, <1>2 DEF MadeOn
<1>4. RuleHits(Key(rq)[2], v.rules) # {}
  BY <1>1, KeyOf
<1> QED BY <1>3, <1>4 DEF Remembered, Made, v

LEMMA MadeClosed ==
  ASSUME NEW rq \in Requests, ~Mocked(rq), Escalates(rq),
         NEW q \in Policies, AsManyCategories(q, rq.policy), RuleHits(Joined(rq), q) = {}
  PROVE  Made(Key(rq), FailClosed(q))
<1> DEFINE v == FailClosed(q)
<1>1. /\ v \in Verdict /\ v.rules = q /\ v.outage = TRUE /\ v.judged = FALSE
      /\ v.decision = "BLOCK"
  BY DEF FailClosed, Verdict, Decisions
<1> HIDE DEF v
<1>2. MadeOn(rq, v)
  BY <1>1 DEF MadeOn
<1> QED BY <1>2 DEF Made, v

\* The categories a request is held against are some policy's, and as many as
\* its own.
LEMMA CompiledIs ==
  ASSUME Caches, NEW p \in Policies, NEW a \in Addresses
  PROVE  /\ Compiled(p, a) \in Policies
         /\ Compile(p, a) \in [Addresses -> Policies \cup {None}]
         /\ AsManyCategories(Compiled(p, a), p)
BY DEF Caches, Compiled, Compile, CompiledHit, AsManyCategories

-----------------------------------------------------------------------------
\* Steps.

J == {"judge", "rejudge"}

\* One handler moves on; it is in line, or before the judge, or neither.
LEMMA HandlerMoves ==
  ASSUME Handlers, NEW c \in Calls, NEW h, HandlerOK(h), call' = [call EXCEPT ![c] = h]
  PROVE  /\ Handlers'
         /\ Judging' = IF h.pc \in J THEN Judging \cup {c} ELSE Judging \ {c}
         /\ Queued' = IF h.pc = "waiting" THEN Queued \cup {c} ELSE Queued \ {c}
<1>1. /\ call' \in [Calls -> Handler] /\ call'[c] = h
      /\ \A d \in Calls : d # c => call'[d] = call[d]
  BY DEF Handlers, HandlerOK
<1>2. Handlers'
  BY <1>1 DEF Handlers
<1>3. Judging' = IF h.pc \in J THEN Judging \cup {c} ELSE Judging \ {c}
  BY <1>1 DEF Judging, J
<1>4. Queued' = IF h.pc = "waiting" THEN Queued \cup {c} ELSE Queued \ {c}
  BY <1>1 DEF Queued
<1> QED BY <1>2, <1>3, <1>4

\* Where a handler is, it is at one place.
LEMMA OnePlace ==
  ASSUME NEW c \in Calls
  PROVE  /\ c \in Judging <=> call[c].pc \in J
         /\ c \in Queued <=> call[c].pc = "waiting"
         /\ c \in Queued => c \notin Judging
BY DEF Judging, Queued, J

LEMMA StateRests ==
  ASSUME Inv, UNCHANGED <<free, queue, call>>, serving' \in {"up", "draining", "closed"}, Caches'
  PROVE  Inv'
BY DEF Inv, Handlers, Permits, Judging, Queued

LEMMA CacheRests == ASSUME Caches, UNCHANGED <<verdicts, compiled>> PROVE Caches'
BY DEF Caches

\* One verdict is stored, or dropped.
LEMMA CacheStores ==
  ASSUME Caches, NEW k \in Keys, NEW v, v = None \/ Remembered(k, v),
         verdicts' = [verdicts EXCEPT ![k] = v],
         compiled' \in [Addresses -> Policies \cup {None}]
  PROVE  Caches'
<1>1. v \in Verdict \cup {None}
  BY MadeIs DEF Remembered
<1>2. /\ verdicts' \in [Keys -> Verdict \cup {None}] /\ verdicts'[k] = v
      /\ \A l \in Keys : l # k => verdicts'[l] = verdicts[l]
  BY <1>1 DEF Caches
<1>3. \A l \in Keys : verdicts'[l] # None => Remembered(l, verdicts'[l])
  BY <1>2 DEF Caches
<1> QED BY <1>2, <1>3 DEF Caches

\* The first in line is let in: answered, failed or before the judge.
LEMMA Enters ==
  ASSUME Inv, NEW c \in Calls, Admitted(c), NEW h, HandlerOK(h),
         call' = [call EXCEPT ![c] = h], UNCHANGED serving, Caches',
         \/ h.pc \in {"idle", "answered"} /\ free' = free
         \/ h.pc = "judge" /\ free' = free - 1
  PROVE  Inv'
<1>1. /\ queue # <<>> /\ Head(queue) = c /\ free > 0 /\ queue' = Tail(queue)
      /\ Handlers /\ Permits /\ Line(queue, Queued)
  BY DEF Admitted, Inv
<1>2. c \in Queued /\ Line(queue', Queued \ {c})
  BY <1>1, LineMoves
<1>3. /\ Handlers'
      /\ Judging' = IF h.pc \in J THEN Judging \cup {c} ELSE Judging \ {c}
      /\ Queued' = IF h.pc = "waiting" THEN Queued \cup {c} ELSE Queued \ {c}
  BY <1>1, HandlerMoves
<1>4. c \notin Judging
  BY <1>2, OnePlace
<1>5. Permits'
  <2>1. CASE h.pc \in {"idle", "answered"} /\ free' = free
    <3>1. Judging' = Judging
      BY <1>3, <1>4, <2>1 DEF J
    <3> QED BY <1>1, <2>1, <3>1 DEF Permits
  <2>2. CASE h.pc = "judge" /\ free' = free - 1
    <3>1. Judging' = Judging \cup {c}
      BY <1>3, <2>2 DEF J
    <3> QED BY <1>1, <1>4, <2>2, <3>1, PermitTaken
  <2> QED BY <2>1, <2>2
<1>6. Line(queue, Queued)'
  BY <1>2, <1>3
<1> QED BY <1>3, <1>5, <1>6 DEF Inv

\* A call leaves the semaphore.
LEMMA Leaves ==
  ASSUME Inv, NEW c \in Judging, NEW h, HandlerOK(h), h.pc \in {"idle", "answered"},
         Leave(c, h), Caches'
  PROVE  Inv'
<1>1. /\ call' = [call EXCEPT ![c] = h] /\ free' = free + 1 /\ UNCHANGED <<serving, queue>>
      /\ c \in Calls /\ Handlers /\ Permits /\ Line(queue, Queued)
  BY DEF Leave, Inv, Judging
<1>2. /\ Handlers'
      /\ Judging' = IF h.pc \in J THEN Judging \cup {c} ELSE Judging \ {c}
      /\ Queued' = IF h.pc = "waiting" THEN Queued \cup {c} ELSE Queued \ {c}
  BY <1>1, HandlerMoves
<1>3. Judging' = Judging \ {c} /\ Queued' = Queued
  BY <1>1, <1>2, OnePlace DEF J
<1>4. Permits'
  BY <1>1, <1>3, PermitGivenBack
<1>5. Line(queue, Queued)'
  BY <1>1, <1>3
<1> QED BY <1>1, <1>2, <1>4, <1>5 DEF Inv

LEMMA IdleOK == HandlerOK(Idle) /\ Idle.pc = "idle"
BY DEF HandlerOK, Idle, Handler, Waiting

LEMMA AnsweredOK ==
  ASSUME NEW rq \in Requests, NEW v,
         IF Mocked(rq) THEN v = MockVerdict ELSE Made(Key(rq), v)
  PROVE  HandlerOK(Answered(rq, v)) /\ Answered(rq, v).pc = "answered"
<1>1. MockVerdict \in Verdict
  BY DEF MockVerdict, Verdict, Decisions
<1>2. v \in Verdict
  BY <1>1, MadeIs
<1> QED BY <1>2 DEF HandlerOK, Answered, Handler, Waiting

\* What is known of a call before the judge.
LEMMA JudgingOK ==
  ASSUME Inv, NEW c \in Judging
  PROVE  /\ c \in Calls /\ HandlerOK(call[c]) /\ call[c].rq \in Requests /\ ~Mocked(call[c].rq)
         /\ Escalates(call[c].rq) /\ call[c].rules \in Policies
         /\ AsManyCategories(call[c].rules, call[c].rq.policy)
BY DEF Inv, Handlers, HandlerOK, Judging

\* The judge's answer, or the want of it, makes a verdict.
LEMMA Concludes ==
  ASSUME Inv, NEW c \in Judging, NEW v, Remembered(Key(call[c].rq), v), Conclude(c, v)
  PROVE  Inv'
<1>1. call[c].rq \in Requests /\ ~Mocked(call[c].rq) /\ Key(call[c].rq) \in Keys
  BY JudgingOK, KeyOf
<1>2. HandlerOK(Answered(call[c].rq, v)) /\ Answered(call[c].rq, v).pc = "answered"
  BY <1>1, AnsweredOK DEF Remembered
<1>3. Leave(c, Answered(call[c].rq, v))
  BY DEF Conclude
<1>4. Caches'
  <2>1. Caches /\ UNCHANGED compiled /\ compiled \in [Addresses -> Policies \cup {None}]
    BY <1>3 DEF Inv, Caches, Leave
  <2>2. verdicts' = [verdicts EXCEPT ![Key(call[c].rq)] = v] \/ UNCHANGED verdicts
    BY DEF Conclude
  <2> QED BY <1>1, <2>1, <2>2, CacheStores, CacheRests
<1> QED BY <1>2, <1>3, <1>4, Leaves

-----------------------------------------------------------------------------
\* Actions.

LEMMA ArriveKeeps ==
  ASSUME Inv, NEW c \in Calls, NEW rq \in Requests, Arrive(c, rq) PROVE Inv'
<1> DEFINE h == [Idle EXCEPT !.pc = "waiting", !.rq = rq]
<1>1. /\ call[c].pc \notin Waiting /\ call' = [call EXCEPT ![c] = h] /\ queue' = Append(queue, c)
      /\ UNCHANGED <<serving, free, verdicts, compiled>>
      /\ Handlers /\ Caches /\ Permits /\ Line(queue, Queued)
  BY DEF Arrive, Inv
<1>2. HandlerOK(h) /\ h.pc = "waiting"
  BY DEF HandlerOK, Idle, Handler, Waiting
<1> HIDE DEF h
<1>3. /\ Handlers'
      /\ Judging' = IF h.pc \in J THEN Judging \cup {c} ELSE Judging \ {c}
      /\ Queued' = IF h.pc = "waiting" THEN Queued \cup {c} ELSE Queued \ {c}
  BY <1>1, <1>2, HandlerMoves
<1>4. c \notin Judging /\ c \notin Queued
  BY <1>1, OnePlace DEF Waiting, J
<1>5. Judging' = Judging /\ Queued' = Queued \cup {c}
  BY <1>2, <1>3, <1>4 DEF J
<1>6. Permits'
  BY <1>1, <1>5 DEF Permits
<1>7. Line(queue, Queued)'
  BY <1>1, <1>4, <1>5, LineGrows
<1>8. Caches'
  BY <1>1, CacheRests
<1> QED BY <1>1, <1>3, <1>6, <1>7, <1>8 DEF Inv

\* The first in line has a request.
LEMMA AdmittedOK ==
  ASSUME Inv, NEW c \in Calls, Admitted(c)
  PROVE  call[c].rq \in Requests /\ HandlerOK(call[c])
<1>1. c \in Queued
  BY LineMoves DEF Admitted, Inv
<1> QED BY <1>1 DEF Queued, Inv, Handlers, HandlerOK

LEMMA MockKeeps == ASSUME Inv, NEW c \in Calls, AnswerMock(c) PROVE Inv'
<1> DEFINE h == Answered(call[c].rq, MockVerdict)
<1>1. /\ Admitted(c) /\ Mocked(call[c].rq) /\ call' = [call EXCEPT ![c] = h]
      /\ UNCHANGED <<serving, free, verdicts, compiled>>
  BY DEF AnswerMock
<1>2. HandlerOK(h) /\ h.pc = "answered"
  BY <1>1, AdmittedOK, AnsweredOK
<1> HIDE DEF h
<1>3. Caches'
  BY <1>1, CacheRests DEF Inv
<1> QED BY <1>1, <1>2, <1>3, Enters

LEMMA CachedKeeps == ASSUME Inv, NEW c \in Calls, AnswerCached(c) PROVE Inv'
<1> DEFINE rq == call[c].rq
           h == Answered(rq, verdicts[Key(rq)])
<1>1. /\ Admitted(c) /\ ~Mocked(rq) /\ verdicts[Key(rq)] # None
      /\ call' = [call EXCEPT ![c] = h]
      /\ UNCHANGED <<serving, free, verdicts, compiled>>
  BY DEF AnswerCached
<1>2. rq \in Requests /\ Key(rq) \in Keys
  BY <1>1, AdmittedOK, KeyOf
<1>3. Made(Key(rq), verdicts[Key(rq)])
  BY <1>1, <1>2 DEF Inv, Caches, Remembered
<1>4. HandlerOK(h) /\ h.pc = "answered"
  BY <1>1, <1>2, <1>3, AnsweredOK
<1> HIDE DEF h, rq
<1>5. Caches'
  BY <1>1, CacheRests DEF Inv
<1> QED BY <1>1, <1>4, <1>5, Enters

LEMMA InspectKeeps ==
  ASSUME Inv, NEW c \in Calls, NEW a \in Addresses, Inspect(c, a) PROVE Inv'
<1> DEFINE rq == call[c].rq
           q == Compiled(rq.policy, a)
           v == Combine(RuleHits(Joined(rq), q), q, {}, FALSE, rq.shape)
<1>1. Admitted(c) /\ ~Mocked(rq) /\ UNCHANGED serving
  BY DEF Inspect
<1>2. rq \in Requests /\ Key(rq) \in Keys /\ rq.policy \in Policies
  BY <1>1, AdmittedOK, KeyOf
<1>3. /\ q \in Policies /\ AsManyCategories(q, rq.policy)
      /\ Compile(rq.policy, a) \in [Addresses -> Policies \cup {None}]
  BY <1>2, CompiledIs DEF Inv
<1>4. \/ /\ call' = [call EXCEPT ![c] = Idle]
         /\ UNCHANGED <<free, verdicts, compiled>>
      \/ /\ compiled' = Compile(rq.policy, a)
         /\ \/ /\ ~Escalates(rq)
               /\ verdicts' = [verdicts EXCEPT ![Key(rq)] = v]
               /\ call' = [call EXCEPT ![c] = Answered(rq, v)]
               /\ UNCHANGED free
            \/ /\ Escalates(rq)
               /\ free' = free - 1
               /\ call' = [call EXCEPT ![c] =
                    [pc |-> "judge", rq |-> rq, address |-> a, rules |-> q, verdict |-> None]]
               /\ UNCHANGED verdicts
  BY DEF Inspect
<1> HIDE DEF rq, q, v
<1>5. CASE /\ call' = [call EXCEPT ![c] = Idle]
           /\ UNCHANGED <<free, verdicts, compiled>>
  <2>1. Caches'
    BY <1>5, CacheRests DEF Inv
  <2> QED BY <1>1, <1>5, <2>1, IdleOK, Enters
<1>6. CASE /\ compiled' = Compile(rq.policy, a)
           /\ ~Escalates(rq)
           /\ verdicts' = [verdicts EXCEPT ![Key(rq)] = v]
           /\ call' = [call EXCEPT ![c] = Answered(rq, v)]
           /\ UNCHANGED free
  <2>1. Made(Key(rq), v) /\ Remembered(Key(rq), v)
    BY <1>1, <1>2, <1>3, <1>6, MadeByRules DEF v, Remembered
  <2>2. HandlerOK(Answered(rq, v)) /\ Answered(rq, v).pc = "answered"
    BY <1>1, <1>2, <2>1, AnsweredOK
  <2>3. Caches'
    BY <1>2, <1>3, <1>6, <2>1, CacheStores DEF Inv
  <2> QED BY <1>1, <1>6, <2>2, <2>3, Enters
<1>7. CASE /\ compiled' = Compile(rq.policy, a)
           /\ Escalates(rq)
           /\ free' = free - 1
           /\ call' = [call EXCEPT ![c] =
                [pc |-> "judge", rq |-> rq, address |-> a, rules |-> q, verdict |-> None]]
           /\ UNCHANGED verdicts
  <2> DEFINE h == [pc |-> "judge", rq |-> rq, address |-> a, rules |-> q, verdict |-> None]
  <2>1. HandlerOK(h) /\ h.pc = "judge"
    BY <1>1, <1>2, <1>3, <1>7 DEF HandlerOK, Handler, Waiting
  <2> HIDE DEF h
  <2>2. Caches'
    BY <1>3, <1>7 DEF Inv, Caches
  <2> QED BY <1>1, <1>7, <2>1, <2>2, Enters DEF h
<1> QED BY <1>4, <1>5, <1>6, <1>7

\* The judge is out of reach, or makes no sense twice.
LEMMA FailureKeeps == ASSUME Inv, NEW c \in Judging, JudgeFails(c) PROVE Inv'
<1> DEFINE rq == call[c].rq
           q == call[c].rules
<1>1. /\ rq \in Requests /\ ~Mocked(rq) /\ Escalates(rq)
      /\ q \in Policies /\ AsManyCategories(q, rq.policy)
  BY JudgingOK
<1>2. Hits(c) = RuleHits(Joined(rq), q)
  BY DEF Hits
<1>3. CASE /\ Hits(c) = {} /\ Leave(c, Answered(rq, FailClosed(q))) /\ UNCHANGED verdicts
  <2>1. Made(Key(rq), FailClosed(q))
    BY <1>1, <1>2, <1>3, MadeClosed
  <2>2. HandlerOK(Answered(rq, FailClosed(q))) /\ Answered(rq, FailClosed(q)).pc = "answered"
    BY <1>1, <2>1, AnsweredOK
  <2>3. Caches'
    BY <1>3, CacheRests DEF Inv, Leave
  <2> QED BY <1>3, <2>2, <2>3, Leaves
<1>4. CASE Hits(c) # {} /\ Conclude(c, Combine(Hits(c), q, {}, TRUE, rq.shape))
  <2>1. Remembered(Key(rq), Combine(Hits(c), q, {}, TRUE, rq.shape))
    BY <1>1, <1>2, <1>4, MadeBlind
  <2> QED BY <1>4, <2>1, Concludes
<1> QED BY <1>3, <1>4 DEF JudgeFails

LEMMA RepliesKeeps == ASSUME Inv, NEW c \in Calls, JudgeReplies(c) PROVE Inv'
<1> DEFINE rq == call[c].rq
           q == call[c].rules
<1>1. c \in Judging
  BY DEF JudgeReplies
<1>2. PICK says \in Replies(rq) :
        Conclude(c, Combine(Hits(c), q, {says}, FALSE, rq.shape))
  BY DEF JudgeReplies
<1>3. /\ rq \in Requests /\ ~Mocked(rq) /\ Escalates(rq) /\ q \in Policies
      /\ AsManyCategories(q, rq.policy) /\ Hits(c) = RuleHits(Joined(rq), q)
  BY <1>1, JudgingOK DEF Hits
<1>4. Remembered(Key(rq), Combine(Hits(c), q, {says}, FALSE, rq.shape))
  BY <1>3, MadeByJudge
<1> QED BY <1>1, <1>2, <1>4, Concludes

\* An exception or a cancellation before the judge.
LEMMA LeftEmptyHanded ==
  ASSUME Inv, NEW c \in Judging, Leave(c, Idle), UNCHANGED verdicts PROVE Inv'
<1>1. Caches'
  BY CacheRests DEF Inv, Leave
<1> QED BY <1>1, IdleOK, Leaves

LEMMA UnparseableKeeps == ASSUME Inv, NEW c \in Calls, JudgeUnparseable(c) PROVE Inv'
<1>1. CASE /\ call[c].pc = "judge" /\ call' = [call EXCEPT ![c].pc = "rejudge"]
           /\ UNCHANGED <<serving, free, queue, verdicts, compiled>>
  <2> DEFINE h == [call[c] EXCEPT !.pc = "rejudge"]
  <2>1. c \in Judging
    BY <1>1 DEF Judging
  <2>2. HandlerOK(h) /\ h.pc = "rejudge"
    BY <2>1, JudgingOK DEF HandlerOK, Handler, Waiting
  <2> HIDE DEF h
  <2>3. /\ Handlers'
        /\ Judging' = IF h.pc \in J THEN Judging \cup {c} ELSE Judging \ {c}
        /\ Queued' = IF h.pc = "waiting" THEN Queued \cup {c} ELSE Queued \ {c}
    BY <1>1, <2>2, HandlerMoves DEF h, Inv
  <2>4. Judging' = Judging /\ Queued' = Queued
    BY <1>1, <2>1, <2>2, <2>3, OnePlace DEF J
  <2>5. Caches'
    BY <1>1, CacheRests DEF Inv
  <2> QED BY <1>1, <2>3, <2>4, <2>5 DEF Inv, Permits
<1>2. CASE call[c].pc = "rejudge" /\ JudgeFails(c)
  BY <1>2, FailureKeeps DEF Judging
<1> QED BY <1>1, <1>2 DEF JudgeUnparseable

LEMMA CancelKeeps == ASSUME Inv, NEW c \in Calls, Cancel(c) PROVE Inv'
<1>1. CASE c \in Judging /\ Leave(c, Idle) /\ UNCHANGED verdicts
  BY <1>1, LeftEmptyHanded
<1>2. CASE /\ call[c].pc = "waiting" /\ call' = [call EXCEPT ![c] = Idle]
           /\ \E i \in DOMAIN queue : queue[i] = c /\ queue' = RemoveAt(queue, i)
           /\ UNCHANGED <<serving, free, verdicts, compiled>>
  <2>1. Line(queue', Queued \ {c})
    BY <1>2, LineShrinks DEF Inv
  <2>2. /\ Handlers'
        /\ Judging' = IF Idle.pc \in J THEN Judging \cup {c} ELSE Judging \ {c}
        /\ Queued' = IF Idle.pc = "waiting" THEN Queued \cup {c} ELSE Queued \ {c}
    BY <1>2, IdleOK, HandlerMoves DEF Inv
  <2>3. Judging' = Judging /\ Queued' = Queued \ {c}
    BY <1>2, <2>2, IdleOK, OnePlace DEF J
  <2>4. Line(queue, Queued)'
    BY <2>1, <2>3
  <2>5. Caches'
    BY <1>2, CacheRests DEF Inv
  <2> QED BY <1>2, <2>2, <2>3, <2>4, <2>5 DEF Inv, Permits
<1> QED BY <1>1, <1>2 DEF Cancel

LEMMA GraceOverKeeps == ASSUME Inv, GraceOver PROVE Inv'
<1>1. /\ call' = [c \in Calls |-> IF call[c].pc \in Waiting THEN Idle ELSE call[c]]
      /\ queue' = <<>> /\ free' = MaxInflight /\ UNCHANGED <<serving, verdicts, compiled>>
  BY DEF GraceOver
<1>2. \A c \in Calls : HandlerOK(call'[c]) /\ call'[c].pc \notin Waiting
  BY <1>1, IdleOK DEF Inv, Handlers, Waiting
<1>3. Handlers'
  BY <1>1, <1>2 DEF Handlers, HandlerOK
<1>4. Judging' = {} /\ Queued' = {}
  BY <1>2 DEF Judging, Queued, Waiting
<1>5. Permits' /\ Line(queue, Queued)'
  BY <1>1, <1>4, AllPermitsFree, NobodyInLine
<1>6. Caches'
  BY <1>1, CacheRests DEF Inv
<1> QED BY <1>1, <1>3, <1>5, <1>6 DEF Inv

LEMMA InitInv == Init => Inv
<1> SUFFICES ASSUME Init PROVE Inv
  OBVIOUS
<1>1. Handlers
  BY IdleOK DEF Init, Handlers, HandlerOK
<1>2. Judging = {} /\ Queued = {}
  BY IdleOK DEF Init, Judging, Queued
<1>3. Permits
  BY <1>2, FS_EmptySet, InspectorAssumption DEF Init, Permits
<1>4. Line(queue, Queued)
  BY <1>2, NobodyInLine DEF Init
<1>5. Caches
  BY DEF Init, Caches
<1> QED BY <1>1, <1>3, <1>4, <1>5 DEF Init, Inv

\* A new process starts as the first one did.
LEMMA BootKeeps == ASSUME Boot PROVE Inv'
<1>1. Handlers'
  BY IdleOK DEF Boot, Handlers, HandlerOK
<1>2. Judging' = {} /\ Queued' = {}
  BY IdleOK DEF Boot, Judging, Queued
<1>3. Permits' /\ Line(queue, Queued)'
  BY <1>2, AllPermitsFree, NobodyInLine DEF Boot
<1>4. Caches'
  BY DEF Boot, Caches
<1> QED BY <1>1, <1>3, <1>4 DEF Boot, Inv

LEMMA NextInv == Inv /\ [Next]_vars => Inv'
<1> SUFFICES ASSUME Inv, [Next]_vars PROVE Inv'
  OBVIOUS
<1>1. ASSUME NEW c \in Calls, NEW rq \in Requests, Arrive(c, rq) PROVE Inv'
  BY <1>1, ArriveKeeps
<1>2. ASSUME NEW c \in Calls, Enter(c) PROVE Inv'
  BY <1>2, MockKeeps, CachedKeeps, InspectKeeps DEF Enter
<1>3. ASSUME NEW c \in Calls, JudgeReturns(c) PROVE Inv'
  <2>1. CASE JudgeUnavailable(c)
    BY <2>1, FailureKeeps DEF JudgeUnavailable
  <2>2. CASE JudgeRaises(c)
    BY <2>2, LeftEmptyHanded DEF JudgeRaises
  <2> QED BY <1>3, <2>1, <2>2, RepliesKeeps, UnparseableKeeps DEF JudgeReturns
<1>4. ASSUME NEW c \in Calls, Cancel(c) PROVE Inv'
  BY <1>4, CancelKeeps
<1>5. ASSUME NEW k \in Keys, Evict(k) PROVE Inv'
  <2>1. Caches'
    BY <1>5, CacheStores DEF Evict, Inv, Caches
  <2> QED BY <1>5, <2>1, StateRests DEF Evict, Inv
<1>6. CASE Signal
  <2>1. Caches'
    BY <1>6, CacheRests DEF Signal, Inv
  <2> QED BY <1>6, <2>1, StateRests DEF Signal
<1>7. CASE GraceOver
  BY <1>7, GraceOverKeeps
<1>8. CASE Close
  <2>1. Caches'
    BY <1>8 DEF Close, Inv, Caches, Keys
  <2> QED BY <1>8, <2>1, StateRests DEF Close
<1>9. CASE Boot
  BY <1>9, BootKeeps
<1>10. CASE UNCHANGED vars
  <2>1. Caches'
    BY <1>10, CacheRests DEF vars, Inv
  <2> QED BY <1>10, <2>1, StateRests DEF vars, Inv
<1> QED BY <1>1, <1>2, <1>3, <1>4, <1>5, <1>6, <1>7, <1>8, <1>9, <1>10 DEF Next, Keys

-----------------------------------------------------------------------------
\* Theorems.

\* The servicer's, the strategy's and the caches' variables keep their shape.
THEOREM TypeCorrect == Spec => []TypeOK
<1>1. Inv => TypeOK
  BY PermitsInRange DEF Inv, Handlers, Caches, Keys, Line, TypeOK
<1> QED BY InitInv, NextInv, <1>1, PTL DEF Spec

\* _run_inspect: every permit taken is given back, however an inspection
\* ends, and a call waits in line exactly once.
THEOREM PermitsAreBalanced == Spec => []PermitsBalance
<1>1. Inv => PermitsBalance
  <2> SUFFICES ASSUME Inv PROVE PermitsBalance
    OBVIOUS
  <2>1. ASSUME NEW c \in Calls
        PROVE  Cardinality({i \in DOMAIN queue : queue[i] = c})
                 = IF call[c].pc = "waiting" THEN 1 ELSE 0
    <3>1. CASE c \in Queued
      <4>1. PICK i \in DOMAIN queue : queue[i] = c
        BY <3>1 DEF Inv, Line
      <4>2. {j \in DOMAIN queue : queue[j] = c} = {i}
        BY <4>1 DEF Inv, Line
      <4> QED BY <3>1, <4>2, FS_Singleton DEF Queued
    <3>2. CASE c \notin Queued
      <4>1. {j \in DOMAIN queue : queue[j] = c} = {}
        BY <3>2 DEF Inv, Line
      <4> QED BY <3>2, <4>1, FS_EmptySet DEF Queued
    <3> QED BY <3>1, <3>2
  <2> QED BY <2>1 DEF Inv, Permits, PermitsBalance
<1> QED BY InitInv, NextInv, <1>1, PTL DEF Spec

\* What is known of an answer of the hybrid strategy.
LEMMA AnswerIsMade ==
  ASSUME Inv, NEW c \in Calls, AnsweredBy(c)
  PROVE  call[c].rq \in Requests /\ Made(Key(call[c].rq), call[c].verdict)
BY DEF Inv, Handlers, HandlerOK, AnsweredBy

\* No reply of the judge, no outage and no cache lets through what a built-in
\* recognizer blocks.
THEOREM BuiltinBlocksStand == Spec => []BuiltinBlockIsFinal
<1>1. ASSUME NEW k, NEW v, Made(k, v), "BLOCK" \in Text[k[2]].hits PROVE v.decision = "BLOCK"
  <2>1. PICK rq \in Requests : Key(rq) = k /\ MadeOn(rq, v)
    BY <1>1 DEF Made
  <2>2. "BLOCK" \in RuleHits(Joined(rq), v.rules)
    BY <1>1, <2>1, KeyOf DEF RuleHits
  <2> QED BY <2>1, <2>2, StrictestIs DEF MadeOn
<1>2. Inv => BuiltinBlockIsFinal
  BY <1>1, AnswerIsMade, KeyOf DEF BuiltinBlockIsFinal
<1> QED BY InitInv, NextInv, <1>2, PTL DEF Spec

\* What the inspector allows without the judge need not be judged, for itself
\* or for the request whose cached verdict it is; in an outage of the judge
\* only what some rule matched is allowed, and nothing that none did.
THEOREM NothingAllowedBlind == Spec => []NoAllowWithoutJudge
<1>1. ASSUME NEW k, NEW v, Made(k, v), v.decision = "ALLOW", ~v.judged
      PROVE  IF v.outage THEN RuleHits(k[2], v.rules) # {}
                         ELSE \E rq \in Requests : Key(rq) = k /\ ~Mocked(rq) /\ ~Escalates(rq)
  <2>1. PICK rq \in Requests : Key(rq) = k /\ MadeOn(rq, v)
    BY <1>1 DEF Made
  <2>2. Joined(rq) = k[2]
    BY <2>1, KeyOf
  <2>3. CASE v.outage
    BY <1>1, <2>1, <2>2, <2>3 DEF MadeOn
  <2>4. CASE ~v.outage
    BY <1>1, <2>1, <2>4 DEF MadeOn
  <2> QED BY <2>3, <2>4
<1>2. ASSUME Inv, NEW c \in Calls, AnsweredBy(c), call[c].verdict.decision = "ALLOW",
             ~call[c].verdict.judged
      PROVE  IF call[c].verdict.outage
               THEN RuleHits(Joined(call[c].rq), call[c].verdict.rules) # {}
               ELSE \E rq \in Requests :
                      Key(rq) = Key(call[c].rq) /\ ~Mocked(rq) /\ ~Escalates(rq)
  <2>1. call[c].rq \in Requests /\ Made(Key(call[c].rq), call[c].verdict)
    BY <1>2, AnswerIsMade
  <2>2. Key(call[c].rq)[2] = Joined(call[c].rq)
    BY <2>1, KeyOf
  <2> QED BY <1>1, <1>2, <2>1, <2>2
<1>3. Inv => NoAllowWithoutJudge
  BY <1>2 DEF NoAllowWithoutJudge
<1> QED BY InitInv, NextInv, <1>3, PTL DEF Spec

\* A block for want of a judge is not in the cache.
THEOREM OutageNotRemembered == Spec => []BlindBlockNotCached
<1>1. Inv => BlindBlockNotCached
  <2> SUFFICES ASSUME Inv, NEW k \in Keys, verdicts[k] # None, verdicts[k].outage,
                      verdicts[k].decision = "BLOCK"
               PROVE  "BLOCK" \in RuleHits(k[2], verdicts[k].rules)
    BY DEF BlindBlockNotCached, Inv, Caches
  <2>1. Remembered(k, verdicts[k])
    BY DEF Inv, Caches
  <2>2. PICK rq \in Requests : Key(rq) = k /\ MadeOn(rq, verdicts[k])
    BY <2>1 DEF Remembered, Made
  <2>3. RuleHits(Joined(rq), verdicts[k].rules) # {} /\ Joined(rq) = k[2]
    BY <2>1, <2>2, KeyOf DEF Remembered
  <2> QED BY <2>2, <2>3, StrictestIs DEF MadeOn
<1> QED BY InitInv, NextInv, <1>1, PTL DEF Spec

\* An answer is a verdict on some request of the same company, policy_version
\* and joined text, under as many categories as that request has: neither cache
\* mixes requests up any further.
THEOREM AnswersInScope == Spec => []AnswerIsInScope
<1>1. ASSUME NEW rq \in Requests, NEW v, MadeOn(rq, v) PROVE VerdictOn(rq, v)
  <2> DEFINE hits == RuleHits(Joined(rq), v.rules)
  <2>1. v.decision \in Outcomes(rq, v.rules)
    <3>1. CASE ~Escalates(rq)
      BY <1>1, <3>1 DEF MadeOn, Outcomes
    <3>2. CASE Escalates(rq) /\ v.judged
      BY <1>1, <3>2 DEF MadeOn, Outcomes
    <3>3. CASE Escalates(rq) /\ ~v.judged
      BY <1>1, <3>3 DEF MadeOn, Outcomes
    <3> QED BY <3>1, <3>2, <3>3
  <2> QED BY <1>1, <2>1 DEF MadeOn, VerdictOn, AsManyCategories
<1>2. Inv => AnswerIsInScope
  BY <1>1, AnswerIsMade DEF AnswerIsInScope, Made
<1> QED BY InitInv, NextInv, <1>2, PTL DEF Spec
=============================================================================
