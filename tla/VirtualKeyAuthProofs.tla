------------------------ MODULE VirtualKeyAuthProofs ------------------------
(***************************************************************************)
(* Theorems about VirtualKeyAuth, for any number of processes, calls,      *)
(* prefixes and secrets and any lifetimes.                                 *)
(***************************************************************************)
EXTENDS VirtualKeyAuth, TLAPS

-----------------------------------------------------------------------------
\* The verifier's state keeps its shape.

LEMMA InitTypeOK == Init => TypeOK
BY TimingAssumption
DEF Init, TypeOK, Attributed, Call, Entry, RowState, Phase, InFlight, NoCall, NoEntry, Denial

\* A call in flight names a process, a prefix and a secret.
LEMMA CallKnowsItsKey ==
  ASSUME TypeOK, NEW r \in Requests, req[r].pc \in InFlight
  PROVE  req[r].node \in Nodes /\ req[r].prefix \in Prefixes /\ req[r].secret \in Secrets
BY DEF TypeOK, Attributed

\* Answering a call leaves a call.
LEMMA AnswerType ==
  ASSUME NEW c \in Call, NEW lag \in Nat, NEW verdict \in {"accepted", "rejected"}
  PROVE  /\ Answer(c, verdict, lag) \in Call
         /\ Answer(c, verdict, lag).pc = verdict
         /\ Answer(c, verdict, lag).lag = lag
         /\ Answer(c, verdict, lag).node = c.node
         /\ Answer(c, verdict, lag).prefix = c.prefix
         /\ Answer(c, verdict, lag).secret = c.secret
<1>1. 0 \in 0 .. MaxVerify
  BY TimingAssumption
<1> QED BY <1>1 DEF Answer, Call, Phase

LEMMA ProceedTypeOK ==
  ASSUME TypeOK, NEW r \in Requests, Proceed(r)
  PROVE  TypeOK'
<1>1. CASE FindRow(r)
  <2>0. req[r].node \in Nodes /\ req[r].prefix \in Prefixes /\ req[r].secret \in Secrets
    BY <1>1, CallKnowsItsKey DEF FindRow, InFlight
  <2>1. req' \in [Requests -> Call]
    BY <1>1 DEF TypeOK, FindRow, Call, Phase
  <2>2. deniedFor' \in [Slots -> Nat]
    <3>1. At(req[r]) \in Slots
      BY <2>0 DEF At, Slots
    <3> QED BY <1>1, <3>1 DEF TypeOK, FindRow
  <2>3. Attributed'
    <3>1. /\ \A q \in Requests : q # r => req'[q] = req[q]
          /\ req'[r].node = req[r].node /\ req'[r].prefix = req[r].prefix
          /\ req'[r].secret = req[r].secret
      BY <1>1 DEF TypeOK, FindRow, Call
    <3> QED BY <2>0, <3>1 DEF TypeOK, Attributed
  <2> QED BY <1>1, <2>1, <2>2, <2>3 DEF TypeOK, FindRow
<1>2. CASE FindFails(r)
  <2>0. req[r].node \in Nodes /\ req[r].prefix \in Prefixes /\ req[r].secret \in Secrets
    BY <1>2, CallKnowsItsKey DEF FindFails, InFlight
  <2>1. req' \in [Requests -> Call]
    BY <1>2 DEF TypeOK, FindFails, Call, Phase
  <2>2. deniedFor' \in [Slots -> Nat]
    <3>1. At(req[r]) \in Slots
      BY <2>0 DEF At, Slots
    <3> QED BY <1>2, <3>1 DEF TypeOK, FindFails
  <2>3. Attributed'
    <3>1. /\ \A q \in Requests : q # r => req'[q] = req[q]
          /\ req'[r].node = req[r].node /\ req'[r].prefix = req[r].prefix
          /\ req'[r].secret = req[r].secret
      BY <1>2 DEF TypeOK, FindFails, Call
    <3> QED BY <2>0, <3>1 DEF TypeOK, Attributed
  <2> QED BY <1>2, <2>1, <2>2, <2>3 DEF TypeOK, FindFails
<1>3. CASE CheckSecret(r)
  <2>0. req[r].node \in Nodes /\ req[r].prefix \in Prefixes /\ req[r].secret \in Secrets
    BY <1>3, CallKnowsItsKey DEF CheckSecret, InFlight
  <2>1. req' \in [Requests -> Call]
    BY <1>3 DEF TypeOK, CheckSecret, Call, Phase
  <2>2. deniedFor' \in [Slots -> Nat]
    <3>1. At(req[r]) \in Slots
      BY <2>0 DEF At, Slots
    <3> QED BY <1>3, <3>1 DEF TypeOK, CheckSecret
  <2>3. Attributed'
    <3>1. /\ \A q \in Requests : q # r => req'[q] = req[q]
          /\ req'[r].node = req[r].node /\ req'[r].prefix = req[r].prefix
          /\ req'[r].secret = req[r].secret
      BY <1>3 DEF TypeOK, CheckSecret, Call
    <3> QED BY <2>0, <3>1 DEF TypeOK, Attributed
  <2> QED BY <1>3, <2>1, <2>2, <2>3 DEF TypeOK, CheckSecret
<1>4. CASE StoreVerified(r)
  <2> DEFINE lag == revokedFor[req[r].prefix]
  <2>0. req[r].node \in Nodes /\ req[r].prefix \in Prefixes /\ req[r].secret \in Secrets
    BY <1>4, CallKnowsItsKey DEF StoreVerified, InFlight
  <2>1. lag \in Nat /\ req[r] \in Call
    BY <2>0 DEF TypeOK, At, Slots
  <2>2. req' = [req EXCEPT ![r] = Answer(req[r], "accepted", lag)]
    BY <1>4 DEF StoreVerified
  <2> HIDE DEF lag
  <2>3. req' \in [Requests -> Call]
    BY <2>1, <2>2, AnswerType DEF TypeOK
  <2>4. Attributed'
    <3>1. req'[r].node = req[r].node /\ req'[r].prefix = req[r].prefix
          /\ req'[r].secret = req[r].secret
      BY <2>1, <2>2, AnswerType DEF TypeOK
    <3>2. \A q \in Requests : q # r => req'[q] = req[q]
      BY <2>2 DEF TypeOK
    <3> QED BY <2>0, <3>1, <3>2 DEF TypeOK, Attributed
  <2>5. cache' \in [Slots -> Entry]
    BY <1>4, <2>0, TimingAssumption DEF TypeOK, StoreVerified, Entry, Hashes, At, Slots
  <2>6. marking' \subseteq Slots
    BY <1>4, <2>0 DEF TypeOK, StoreVerified, At, Slots
  <2>7. vouchedFor' \in [Prefixes -> Nat]
    BY <1>4, <2>0 DEF TypeOK, StoreVerified
  <2> QED BY <1>4, <2>3, <2>4, <2>5, <2>6, <2>7 DEF TypeOK, StoreVerified
<1>5. CASE StoreNotFound(r)
  <2> DEFINE lag == deniedFor[At(req[r])]
  <2>0. req[r].node \in Nodes /\ req[r].prefix \in Prefixes /\ req[r].secret \in Secrets
    BY <1>5, CallKnowsItsKey DEF StoreNotFound, InFlight
  <2>1. lag \in Nat /\ req[r] \in Call
    BY <2>0 DEF TypeOK, At, Slots
  <2>2. req' = [req EXCEPT ![r] = Answer(req[r], "rejected", lag)]
    BY <1>5 DEF StoreNotFound
  <2> HIDE DEF lag
  <2>3. req' \in [Requests -> Call]
    BY <2>1, <2>2, AnswerType DEF TypeOK
  <2>4. Attributed'
    <3>1. req'[r].node = req[r].node /\ req'[r].prefix = req[r].prefix
          /\ req'[r].secret = req[r].secret
      BY <2>1, <2>2, AnswerType DEF TypeOK
    <3>2. \A q \in Requests : q # r => req'[q] = req[q]
      BY <2>2 DEF TypeOK
    <3> QED BY <2>0, <3>1, <3>2 DEF TypeOK, Attributed
  <2>5. cache' \in [Slots -> Entry]
    BY <1>5, <2>0, TimingAssumption DEF TypeOK, StoreNotFound, Entry, At, Slots
  <2> QED BY <1>5, <2>3, <2>4, <2>5 DEF TypeOK, StoreNotFound
<1> QED BY <1>1, <1>2, <1>3, <1>4, <1>5 DEF Proceed

LEMMA NextTypeOK == TypeOK /\ [Next]_vars => TypeOK'
<1> SUFFICES ASSUME TypeOK, [Next]_vars PROVE TypeOK'
  OBVIOUS
<1>0. 0 \in 0 .. MaxVerify
  BY TimingAssumption
<1>1. ASSUME NEW r \in Requests, RefuseMalformed(r) PROVE TypeOK'
  <2>1. req' \in [Requests -> Call]
    BY <1>0, <1>1 DEF TypeOK, RefuseMalformed, NoCall, Call, Phase
  <2>2. Attributed'
    BY <1>1 DEF TypeOK, RefuseMalformed, Attributed, NoCall, InFlight
  <2> QED BY <1>1, <2>1, <2>2 DEF TypeOK, RefuseMalformed
<1>2. ASSUME NEW r \in Requests, NEW n \in Nodes, NEW k \in Prefixes, NEW s \in Secrets,
             LookUp(r, n, k, s)
      PROVE  TypeOK'
  <2>1. req' \in [Requests -> Call]
    <3>1. deniedFor[<<n, k>>] \in Nat /\ revokedFor[k] \in Nat
      BY DEF TypeOK, Slots
    <3>2. \A phase \in Phase, lag \in Nat : Begin(n, k, s, phase, lag) \in Call
      BY <1>0 DEF Begin, Call
    <3> QED BY <1>2, <3>1, <3>2 DEF TypeOK, LookUp, Phase
  <2>2. req'[r].node = n /\ req'[r].prefix = k /\ req'[r].secret = s
    BY <1>2 DEF TypeOK, LookUp, Begin
  <2>3. Attributed'
    BY <1>2, <2>2 DEF TypeOK, LookUp, Attributed
  <2> QED BY <1>2, <2>1, <2>3 DEF TypeOK, LookUp
<1>3. ASSUME NEW r \in Requests, Proceed(r) PROVE TypeOK'
  BY <1>3, ProceedTypeOK
<1>4. ASSUME NEW n \in Nodes, NEW k \in Prefixes, MarkUsed(n, k) PROVE TypeOK'
  BY <1>4 DEF TypeOK, MarkUsed, Attributed
<1>5. ASSUME NEW k \in Prefixes, Provision(k) \/ Expire(k) \/ Revoke(k) PROVE TypeOK'
  BY <1>5 DEF TypeOK, Provision, Expire, Revoke, Attributed, RowState
<1>6. ASSUME NEW n \in Nodes, Restart(n) PROVE TypeOK'
  <2>1. req' \in [Requests -> Call] /\ Attributed'
    BY <1>6, TimingAssumption DEF TypeOK, Restart, Attributed, NoCall, Call, Phase, InFlight
  <2>2. cache' \in [Slots -> Entry]
    BY <1>6, TimingAssumption DEF TypeOK, Restart, NoEntry, Entry
  <2> QED BY <1>6, <2>1, <2>2 DEF TypeOK, Restart
<1>7. CASE Tick
  <2>1. req' \in [Requests -> Call]
    <3>1. ASSUME NEW c \in Call, c.busy < MaxVerify PROVE [c EXCEPT !.busy = c.busy + 1] \in Call
      BY <3>1, TimingAssumption DEF Call
    <3>2. ASSUME NEW r \in Requests PROVE req'[r] \in Call
      BY <1>7, <3>1 DEF TypeOK, Tick
    <3> QED BY <1>7, <3>2 DEF Tick
  <2>2. Attributed'
    BY <1>7 DEF TypeOK, Tick, Attributed, Call
  <2>3. cache' \in [Slots -> Entry]
    <3>1. \A c \in Entry : Aged(c) \in Entry
      BY DEF Aged, Entry
    <3> QED BY <1>7, <3>1 DEF TypeOK, Tick
  <2>4. /\ revokedFor' \in [Prefixes -> Nat] /\ deniedFor' \in [Slots -> Nat]
        /\ vouchedFor' \in [Prefixes -> Nat]
    BY <1>7 DEF TypeOK, Tick
  <2> QED BY <1>7, <2>1, <2>2, <2>3, <2>4 DEF TypeOK, Tick
<1>8. CASE UNCHANGED vars
  BY <1>8 DEF TypeOK, Attributed, vars
<1> QED BY <1>1, <1>2, <1>3, <1>4, <1>5, <1>6, <1>7, <1>8 DEF Next, Step

THEOREM TypeCorrect == Spec => []TypeOK
BY InitTypeOK, NextTypeOK, PTL DEF Spec

-----------------------------------------------------------------------------
\* What one step other than a tick can do to the rows and the stopwatches, to
\* an entry and to a call.

LEMMA StepRows ==
  ASSUME TypeOK, Step
  PROVE  /\ revokedFor' = revokedFor
         /\ \A k \in Prefixes :
              \/ row'[k] = row[k]
              \/ row[k] = "absent" /\ row'[k] = "active"
              \/ row[k] = "active" /\ row'[k] = "revoked"
         /\ \A e \in Slots : deniedFor'[e] = deniedFor[e] \/ deniedFor'[e] = 0
         /\ \A k \in Prefixes : vouchedFor'[k] = vouchedFor[k] \/ vouchedFor'[k] = 0
<1>1. ASSUME NEW r \in Requests, RefuseMalformed(r) \/ StoreVerified(r) \/ StoreNotFound(r)
      PROVE  /\ UNCHANGED <<row, revokedFor, deniedFor>>
             /\ \/ vouchedFor' = vouchedFor
                \/ vouchedFor' = [vouchedFor EXCEPT ![req[r].prefix] = 0]
  BY <1>1 DEF RefuseMalformed, StoreVerified, StoreNotFound
<1>2. ASSUME NEW r \in Requests, NEW n \in Nodes, NEW k \in Prefixes, NEW s \in Secrets,
             LookUp(r, n, k, s)
      PROVE  UNCHANGED <<row, revokedFor, deniedFor, vouchedFor>>
  BY <1>2 DEF LookUp
<1>3. ASSUME NEW r \in Requests, FindRow(r) \/ FindFails(r) \/ CheckSecret(r)
      PROVE  /\ UNCHANGED <<row, revokedFor, vouchedFor>>
             /\ \/ deniedFor' = deniedFor
                \/ deniedFor' = [deniedFor EXCEPT ![At(req[r])] = 0]
  BY <1>3 DEF FindRow, FindFails, CheckSecret
<1>4. ASSUME NEW n \in Nodes, NEW k \in Prefixes, MarkUsed(n, k)
      PROVE  UNCHANGED <<row, revokedFor, deniedFor, vouchedFor>>
  BY <1>4 DEF MarkUsed
<1>5. ASSUME NEW k \in Prefixes, Provision(k) \/ Expire(k) \/ Revoke(k)
      PROVE  /\ UNCHANGED <<revokedFor, deniedFor, vouchedFor>>
             /\ \/ row' = row
                \/ row[k] = "absent" /\ row' = [row EXCEPT ![k] = "active"]
                \/ row[k] = "active" /\ row' = [row EXCEPT ![k] = "revoked"]
  BY <1>5 DEF Provision, Expire, Revoke
<1>6. ASSUME NEW n \in Nodes, Restart(n)
      PROVE  UNCHANGED <<row, revokedFor, deniedFor, vouchedFor>>
  BY <1>6 DEF Restart
<1>7. /\ row \in [Prefixes -> RowState] /\ deniedFor \in [Slots -> Nat]
      /\ vouchedFor \in [Prefixes -> Nat]
  BY DEF TypeOK
<1> QED BY <1>1, <1>2, <1>3, <1>4, <1>5, <1>6, <1>7 DEF Step, Proceed

\* A live entry was there before, or a call has just written it.
LEMMA StepEntries ==
  ASSUME TypeOK, Step, NEW e \in Slots, Live(cache'[e])
  PROVE  \/ cache'[e] = cache[e]
         \/ \E r \in Requests :
              /\ req[r].pc = "admit"
              /\ At(req[r]) = e
              /\ cache'[e] = [kind |-> "verified", hash |-> Hash[req[r].secret], left |-> CacheTTL]
              /\ vouchedFor'[e[2]] = 0
         \/ \E r \in Requests :
              /\ req[r].pc = "deny"
              /\ At(req[r]) = e
              /\ cache'[e] = [kind |-> "notFound", hash |-> NoKey, left |-> NegTTL]
<1>1. ASSUME NEW r \in Requests, RefuseMalformed(r) \/ FindRow(r) \/ FindFails(r) \/ CheckSecret(r)
      PROVE  cache' = cache
  BY <1>1 DEF RefuseMalformed, FindRow, FindFails, CheckSecret
<1>2. ASSUME NEW r \in Requests, NEW n \in Nodes, NEW k \in Prefixes, NEW s \in Secrets,
             LookUp(r, n, k, s)
      PROVE  cache' = cache
  BY <1>2 DEF LookUp
<1>3. ASSUME NEW r \in Requests, StoreVerified(r), cache'[e] # cache[e]
      PROVE  /\ req[r].pc = "admit"
             /\ At(req[r]) = e
             /\ cache'[e] = [kind |-> "verified", hash |-> Hash[req[r].secret], left |-> CacheTTL]
             /\ vouchedFor'[e[2]] = 0
  <2>1. /\ req[r].pc = "admit"
        /\ At(req[r]) = e
        /\ cache'[e] = [kind |-> "verified", hash |-> Hash[req[r].secret], left |-> CacheTTL]
    BY <1>3 DEF StoreVerified, TypeOK
  <2>2. req[r].prefix = e[2] /\ e[2] \in Prefixes
    BY <2>1 DEF At, Slots
  <2> QED BY <1>3, <2>1, <2>2 DEF StoreVerified, TypeOK
<1>4. ASSUME NEW r \in Requests, StoreNotFound(r), cache'[e] # cache[e]
      PROVE  /\ req[r].pc = "deny"
             /\ At(req[r]) = e
             /\ cache'[e] = [kind |-> "notFound", hash |-> NoKey, left |-> NegTTL]
  BY <1>4 DEF StoreNotFound, TypeOK
<1>5. ASSUME NEW n \in Nodes, NEW k \in Prefixes, MarkUsed(n, k)
      PROVE  cache' = cache
  BY <1>5 DEF MarkUsed
<1>6. ASSUME NEW k \in Prefixes, Provision(k) \/ Expire(k) \/ Revoke(k)
      PROVE  cache' = cache
  BY <1>6 DEF Provision, Expire, Revoke
<1>7. ASSUME NEW n \in Nodes, Restart(n)
      PROVE  cache'[e] = cache[e]
  <2>1. ~Live(NoEntry)
    BY DEF Live, NoEntry
  <2>2. cache'[e] = IF e[1] = n THEN NoEntry ELSE cache[e]
    BY <1>7 DEF Restart
  <2> QED BY <2>1, <2>2
<1> QED BY <1>1, <1>2, <1>3, <1>4, <1>5, <1>6, <1>7 DEF Step, Proceed

\* A call between its query and its answer was there before, or has just made
\* one step of Verify.
LEMMA StepCalls ==
  ASSUME TypeOK, Step, NEW r \in Requests, req'[r].pc \in Decided
  PROVE  \/ req'[r] = req[r]
         \/ /\ req'[r] = [req[r] EXCEPT !.pc = "check"]
            /\ row'[req[r].prefix] = "active"
         \/ /\ req[r].pc = "check"
            /\ req'[r] = [req[r] EXCEPT !.pc = "admit"]
            /\ req[r].secret = IssuedSecret[req[r].prefix]
         \/ /\ req[r].pc \in InFlight
            /\ req'[r] = [req[r] EXCEPT !.pc = "deny"]
            /\ deniedFor'[At(req[r])] = 0
<1>0. req \in [Requests -> Call] /\ deniedFor \in [Slots -> Nat]
  BY DEF TypeOK
<1>1. ASSUME NEW q \in Requests, RefuseMalformed(q) PROVE req'[r] = req[r]
  BY <1>0, <1>1 DEF RefuseMalformed, NoCall, Decided
<1>2. ASSUME NEW q \in Requests, NEW n \in Nodes, NEW k \in Prefixes, NEW s \in Secrets,
             LookUp(q, n, k, s)
      PROVE  req'[r] = req[r]
  BY <1>0, <1>2 DEF LookUp, Begin, Decided
<1>3. ASSUME NEW q \in Requests, FindRow(q) \/ FindFails(q) \/ CheckSecret(q), q # r
      PROVE  req'[r] = req[r]
  BY <1>0, <1>3 DEF FindRow, FindFails, CheckSecret
<1>4. CASE FindRow(r)
  <2>1. At(req[r]) \in Slots
    BY <1>4, CallKnowsItsKey DEF FindRow, InFlight, At, Slots
  <2> QED BY <1>0, <1>4, <2>1 DEF FindRow, Found, InFlight
<1>5. CASE FindFails(r)
  <2>1. At(req[r]) \in Slots
    BY <1>5, CallKnowsItsKey DEF FindFails, InFlight, At, Slots
  <2> QED BY <1>0, <1>5, <2>1 DEF FindFails, InFlight
<1>6. CASE CheckSecret(r)
  <2>1. At(req[r]) \in Slots
    BY <1>6, CallKnowsItsKey DEF CheckSecret, InFlight, At, Slots
  <2> QED BY <1>0, <1>6, <2>1 DEF CheckSecret, InFlight
<1>7. ASSUME NEW q \in Requests, StoreVerified(q) \/ StoreNotFound(q)
      PROVE  req'[r] = req[r]
  <2>1. \A c \in Call : \A lag : /\ Answer(c, "accepted", lag).pc = "accepted"
                                 /\ Answer(c, "rejected", lag).pc = "rejected"
    BY DEF Answer, Call
  <2> QED BY <1>0, <1>7, <2>1 DEF StoreVerified, StoreNotFound, Decided
<1>8. ASSUME NEW n \in Nodes, NEW k \in Prefixes, MarkUsed(n, k)
      PROVE  req' = req
  BY <1>8 DEF MarkUsed
<1>9. ASSUME NEW k \in Prefixes, Provision(k) \/ Expire(k) \/ Revoke(k)
      PROVE  req' = req
  BY <1>9 DEF Provision, Expire, Revoke
<1>10. ASSUME NEW n \in Nodes, Restart(n) PROVE req'[r] = req[r]
  BY <1>0, <1>10 DEF Restart, NoCall, Decided
<1> QED BY <1>1, <1>2, <1>3, <1>4, <1>5, <1>6, <1>7, <1>8, <1>9, <1>10 DEF Step, Proceed

\* Who is let in: a call with a live positive entry for its secret, or a call
\* that has just been verified.
LEMMA StepAccepted ==
  ASSUME TypeOK, Step, NEW r \in Requests, req'[r].pc = "accepted"
  PROVE  \/ req'[r] = req[r]
         \/ \E e \in Slots :
              /\ AcceptedByCache(cache[e], req'[r].secret)
              /\ req'[r].prefix = e[2]
              /\ req'[r].lag = revokedFor[e[2]]
         \/ /\ req[r].pc = "admit"
            /\ req'[r].prefix = req[r].prefix
            /\ req'[r].secret = req[r].secret
            /\ req'[r].lag = revokedFor[req[r].prefix]
<1>0. req \in [Requests -> Call] /\ revokedFor \in [Prefixes -> Nat]
  BY DEF TypeOK
<1>1. ASSUME NEW q \in Requests, RefuseMalformed(q) PROVE req'[r] = req[r]
  BY <1>0, <1>1 DEF RefuseMalformed, NoCall
<1>2. ASSUME NEW q \in Requests, NEW n \in Nodes, NEW k \in Prefixes, NEW s \in Secrets,
             LookUp(q, n, k, s), q = r
      PROVE  /\ AcceptedByCache(cache[<<n, k>>], req'[r].secret)
             /\ req'[r].prefix = k
             /\ req'[r].lag = revokedFor[k]
  BY <1>0, <1>2 DEF LookUp, Begin
<1>3. ASSUME NEW q \in Requests, NEW n \in Nodes, NEW k \in Prefixes, NEW s \in Secrets,
             LookUp(q, n, k, s), q # r
      PROVE  req'[r] = req[r]
  BY <1>0, <1>3 DEF LookUp
<1>4. ASSUME NEW q \in Requests, FindRow(q) \/ FindFails(q) \/ CheckSecret(q)
      PROVE  req'[r] = req[r]
  <2>1. CASE FindRow(q)
    BY <1>0, <2>1 DEF FindRow, Call
  <2>2. CASE FindFails(q)
    BY <1>0, <2>2 DEF FindFails, Call
  <2>3. CASE CheckSecret(q)
    BY <1>0, <2>3 DEF CheckSecret, Call
  <2> QED BY <1>4, <2>1, <2>2, <2>3
<1>5. ASSUME StoreVerified(r)
      PROVE  /\ req[r].pc = "admit"
             /\ req'[r].prefix = req[r].prefix
             /\ req'[r].secret = req[r].secret
             /\ req'[r].lag = revokedFor[req[r].prefix]
  <2>1. revokedFor[req[r].prefix] \in Nat
    BY <1>0, <1>5, CallKnowsItsKey DEF StoreVerified, InFlight
  <2>2. req'[r] = Answer(req[r], "accepted", revokedFor[req[r].prefix])
    BY <1>0, <1>5 DEF StoreVerified
  <2>3. req[r] \in Call
    BY <1>0
  <2>4. \A lag \in Nat :
          LET c == Answer(req[r], "accepted", lag)
          IN  c.lag = lag /\ c.prefix = req[r].prefix /\ c.secret = req[r].secret
    BY <2>3, AnswerType
  <2> QED BY <1>5, <2>1, <2>2, <2>4 DEF StoreVerified
<1>6. ASSUME NEW q \in Requests, StoreVerified(q), q # r
      PROVE  req'[r] = req[r]
  BY <1>0, <1>6 DEF StoreVerified
<1>7. ASSUME NEW q \in Requests, StoreNotFound(q)
      PROVE  req'[r] = req[r]
  <2>1. \A c \in Call : \A lag : Answer(c, "rejected", lag).pc = "rejected"
    BY DEF Answer, Call
  <2> QED BY <1>0, <1>7, <2>1 DEF StoreNotFound
<1>8. ASSUME NEW n \in Nodes, NEW k \in Prefixes, MarkUsed(n, k)
      PROVE  req' = req
  BY <1>8 DEF MarkUsed
<1>9. ASSUME NEW k \in Prefixes, Provision(k) \/ Expire(k) \/ Revoke(k)
      PROVE  req' = req
  BY <1>9 DEF Provision, Expire, Revoke
<1>10. ASSUME NEW n \in Nodes, Restart(n) PROVE req'[r] = req[r]
  BY <1>0, <1>10 DEF Restart, NoCall
<1>11. \A n \in Nodes, k \in Prefixes : <<n, k>> \in Slots /\ <<n, k>>[2] = k
  BY DEF Slots
<1> QED BY <1>1, <1>2, <1>3, <1>4, <1>5, <1>6, <1>7, <1>8, <1>9, <1>10, <1>11 DEF Step, Proceed

\* Who is turned away with a parsed key: a call that meets a live negative
\* entry, or a call that has just been denied.
LEMMA StepRejected ==
  ASSUME TypeOK, Step, NEW r \in Requests, req'[r].pc = "rejected", req'[r].prefix # NoKey
  PROVE  \/ req'[r] = req[r]
         \/ \E e \in Slots : DeniedByCache(cache[e]) /\ req'[r].lag = deniedFor[e]
         \/ req[r].pc = "deny" /\ req'[r].lag = deniedFor[At(req[r])]
<1>0. req \in [Requests -> Call] /\ deniedFor \in [Slots -> Nat]
  BY DEF TypeOK
<1>1. ASSUME NEW q \in Requests, RefuseMalformed(q) PROVE req'[r] = req[r]
  BY <1>0, <1>1 DEF RefuseMalformed, NoCall
<1>2. ASSUME NEW q \in Requests, NEW n \in Nodes, NEW k \in Prefixes, NEW s \in Secrets,
             LookUp(q, n, k, s), q = r
      PROVE  DeniedByCache(cache[<<n, k>>]) /\ req'[r].lag = deniedFor[<<n, k>>]
  BY <1>0, <1>2 DEF LookUp, Begin
<1>3. ASSUME NEW q \in Requests, NEW n \in Nodes, NEW k \in Prefixes, NEW s \in Secrets,
             LookUp(q, n, k, s), q # r
      PROVE  req'[r] = req[r]
  BY <1>0, <1>3 DEF LookUp
<1>4. ASSUME NEW q \in Requests, FindRow(q) \/ FindFails(q) \/ CheckSecret(q)
      PROVE  req'[r] = req[r]
  <2>1. CASE FindRow(q)
    BY <1>0, <2>1 DEF FindRow, Call
  <2>2. CASE FindFails(q)
    BY <1>0, <2>2 DEF FindFails, Call
  <2>3. CASE CheckSecret(q)
    BY <1>0, <2>3 DEF CheckSecret, Call
  <2> QED BY <1>4, <2>1, <2>2, <2>3
<1>5. ASSUME StoreNotFound(r)
      PROVE  req[r].pc = "deny" /\ req'[r].lag = deniedFor[At(req[r])]
  <2>1. deniedFor[At(req[r])] \in Nat
    BY <1>0, <1>5, CallKnowsItsKey DEF StoreNotFound, InFlight, At, Slots
  <2>2. req'[r] = Answer(req[r], "rejected", deniedFor[At(req[r])])
    BY <1>0, <1>5 DEF StoreNotFound
  <2>3. req[r] \in Call
    BY <1>0
  <2>4. \A lag \in Nat :
          LET c == Answer(req[r], "rejected", lag)
          IN  c.lag = lag /\ c.prefix = req[r].prefix /\ c.secret = req[r].secret
    BY <2>3, AnswerType
  <2> QED BY <1>5, <2>1, <2>2, <2>4 DEF StoreNotFound
<1>6. ASSUME NEW q \in Requests, StoreNotFound(q), q # r
      PROVE  req'[r] = req[r]
  BY <1>0, <1>6 DEF StoreNotFound
<1>7. ASSUME NEW q \in Requests, StoreVerified(q)
      PROVE  req'[r] = req[r]
  <2>1. \A c \in Call : \A lag : Answer(c, "accepted", lag).pc = "accepted"
    BY DEF Answer, Call
  <2> QED BY <1>0, <1>7, <2>1 DEF StoreVerified
<1>8. ASSUME NEW n \in Nodes, NEW k \in Prefixes, MarkUsed(n, k)
      PROVE  req' = req
  BY <1>8 DEF MarkUsed
<1>9. ASSUME NEW k \in Prefixes, Provision(k) \/ Expire(k) \/ Revoke(k)
      PROVE  req' = req
  BY <1>9 DEF Provision, Expire, Revoke
<1>10. ASSUME NEW n \in Nodes, Restart(n) PROVE req'[r] = req[r]
  BY <1>0, <1>10 DEF Restart, NoCall
<1>11. \A n \in Nodes, k \in Prefixes : <<n, k>> \in Slots
  BY DEF Slots
<1> QED BY <1>1, <1>2, <1>3, <1>4, <1>5, <1>6, <1>7, <1>8, <1>9, <1>10, <1>11 DEF Step, Proceed

\* What a tick does: entries and calls keep everything but left and busy.
LEMMA TickEffect ==
  ASSUME TypeOK, Tick
  PROVE  /\ row' = row
         /\ \A k \in Prefixes :
              \/ row[k] # "revoked" /\ revokedFor'[k] = revokedFor[k]
              \/ row[k] = "revoked" /\ revokedFor'[k] <= revokedFor[k] + 1
         /\ \A k \in Prefixes : vouchedFor'[k] <= vouchedFor[k] + 1
         /\ \A e \in Slots :
              /\ deniedFor'[e] <= deniedFor[e] + 1
              /\ cache'[e].kind = cache[e].kind
              /\ cache'[e].hash = cache[e].hash
              /\ Live(cache'[e]) => Live(cache[e]) /\ cache'[e].left = cache[e].left - 1
         /\ \A r \in Requests :
              /\ req[r].pc \notin Decided => req'[r] = req[r]
              /\ req[r].pc \in Decided => req'[r] = [req[r] EXCEPT !.busy = req[r].busy + 1]
<1>1. row' = row
  BY DEF Tick
<1>2. \A k \in Prefixes :
        \/ row[k] # "revoked" /\ revokedFor'[k] = revokedFor[k]
        \/ row[k] = "revoked" /\ revokedFor'[k] <= revokedFor[k] + 1
  BY DEF Tick, TypeOK
<1>3. /\ \A e \in Slots : deniedFor'[e] <= deniedFor[e] + 1
      /\ \A k \in Prefixes : vouchedFor'[k] <= vouchedFor[k] + 1
  BY DEF Tick, TypeOK
<1>4. \A e \in Slots :
        /\ cache'[e].kind = cache[e].kind
        /\ cache'[e].hash = cache[e].hash
        /\ Live(cache'[e]) => Live(cache[e]) /\ cache'[e].left = cache[e].left - 1
  BY DEF Tick, TypeOK, Aged, Live, Entry
<1>5. \A r \in Requests :
        /\ req[r].pc \notin Decided => req'[r] = req[r]
        /\ req[r].pc \in Decided => req'[r] = [req[r] EXCEPT !.busy = req[r].busy + 1]
  BY DEF Tick
<1> QED BY <1>1, <1>2, <1>3, <1>4, <1>5

-----------------------------------------------------------------------------
\* A positive entry stands for the issued secret, and is no older than its
\* last check.

LEMMA StepSecretInv ==
  ASSUME TypeOK, SecretInv, Step
  PROVE  SecretInv'
<1>1. ASSUME NEW e \in Slots, Positive(cache'[e])
      PROVE  /\ cache'[e].hash = Hash[IssuedSecret[e[2]]]
             /\ vouchedFor'[e[2]] + cache'[e].left <= CacheTTL
  <2>0. /\ Live(cache'[e]) /\ cache'[e].kind = "verified"
        /\ e[2] \in Prefixes
    BY <1>1 DEF Positive, Slots
  <2>1. vouchedFor[e[2]] \in Nat /\ cache[e].left \in Nat
    BY <2>0 DEF TypeOK, Entry
  <2>2. CASE cache'[e] = cache[e]
    <3>1. /\ cache[e].hash = Hash[IssuedSecret[e[2]]]
          /\ vouchedFor[e[2]] + cache[e].left <= CacheTTL
      BY <1>1, <2>2 DEF SecretInv
    <3>2. vouchedFor'[e[2]] = vouchedFor[e[2]] \/ vouchedFor'[e[2]] = 0
      BY <2>0, StepRows
    <3> QED BY <2>1, <2>2, <3>1, <3>2, TimingAssumption
  <2>3. ASSUME NEW r \in Requests, req[r].pc = "admit", At(req[r]) = e,
               cache'[e] = [kind |-> "verified", hash |-> Hash[req[r].secret], left |-> CacheTTL],
               vouchedFor'[e[2]] = 0
        PROVE  /\ cache'[e].hash = Hash[IssuedSecret[e[2]]]
               /\ vouchedFor'[e[2]] + cache'[e].left <= CacheTTL
    BY <2>3, TimingAssumption DEF SecretInv, At
  <2>4. \/ cache'[e] = cache[e]
        \/ \E r \in Requests :
             /\ req[r].pc = "admit"
             /\ At(req[r]) = e
             /\ cache'[e] = [kind |-> "verified", hash |-> Hash[req[r].secret], left |-> CacheTTL]
             /\ vouchedFor'[e[2]] = 0
    BY <2>0, StepEntries
  <2> QED BY <2>2, <2>3, <2>4
<1>2. ASSUME NEW r \in Requests, req'[r].pc = "admit"
      PROVE  req'[r].secret = IssuedSecret[req'[r].prefix]
  <2>1. req[r] \in Call
    BY DEF TypeOK
  <2>2. \/ req'[r] = req[r]
        \/ /\ req'[r] = [req[r] EXCEPT !.pc = "admit"]
           /\ req[r].secret = IssuedSecret[req[r].prefix]
    BY <1>2, <2>1, StepCalls DEF Decided, Call
  <2> QED BY <1>2, <2>1, <2>2 DEF SecretInv, Call
<1> QED BY <1>1, <1>2 DEF SecretInv

LEMMA TickSecretInv ==
  ASSUME TypeOK, SecretInv, Tick
  PROVE  SecretInv'
<1>1. ASSUME NEW e \in Slots, Positive(cache'[e])
      PROVE  /\ cache'[e].hash = Hash[IssuedSecret[e[2]]]
             /\ vouchedFor'[e[2]] + cache'[e].left <= CacheTTL
  <2>1. /\ Positive(cache[e])
        /\ cache'[e].hash = cache[e].hash
        /\ cache'[e].left = cache[e].left - 1
    BY <1>1, TickEffect DEF Positive
  <2>2. e[2] \in Prefixes
    BY DEF Slots
  <2>3. vouchedFor'[e[2]] <= vouchedFor[e[2]] + 1
    BY <2>2, TickEffect
  <2>4. vouchedFor[e[2]] \in Nat /\ cache[e].left \in Nat /\ vouchedFor'[e[2]] \in Nat
    BY <2>2 DEF TypeOK, Entry, Tick
  <2>5. vouchedFor[e[2]] + cache[e].left <= CacheTTL /\ CacheTTL \in Nat
    BY <2>1, TimingAssumption DEF SecretInv
  <2>6. vouchedFor'[e[2]] + cache'[e].left <= CacheTTL
    BY <2>1, <2>3, <2>4, <2>5
  <2> QED BY <2>1, <2>6 DEF SecretInv
<1>2. ASSUME NEW r \in Requests, req'[r].pc = "admit"
      PROVE  req'[r].secret = IssuedSecret[req'[r].prefix]
  <2>1. req[r] \in Call
    BY DEF TypeOK
  <2>2. /\ req'[r].pc = req[r].pc
        /\ req'[r].secret = req[r].secret
        /\ req'[r].prefix = req[r].prefix
    BY <2>1, TickEffect DEF Call
  <2> QED BY <1>2, <2>2 DEF SecretInv
<1> QED BY <1>1, <1>2 DEF SecretInv

-----------------------------------------------------------------------------
\* What is left of a positive entry, and the time a call has been busy, fit
\* into the grace period.

LEMMA StepRevokedInv ==
  ASSUME TypeOK, RevokedInv, Step
  PROVE  RevokedInv'
<1>0. /\ row \in [Prefixes -> RowState]
      /\ revokedFor' = revokedFor
      /\ \A k \in Prefixes : row'[k] # "revoked" => row[k] # "revoked"
      /\ \A k \in Prefixes : row[k] # "absent" => row'[k] # "absent"
  BY StepRows DEF TypeOK
<1>1. \A k \in Prefixes : row'[k] # "revoked" => revokedFor'[k] = 0
  BY <1>0 DEF RevokedInv
<1>2. ASSUME NEW e \in Slots, Positive(cache'[e])
      PROVE  /\ row'[e[2]] # "absent"
             /\ cache'[e].left <= CacheTTL
             /\ revokedFor'[e[2]] + cache'[e].left <= Grace
  <2>0. e[2] \in Prefixes /\ Live(cache'[e]) /\ cache'[e].kind = "verified"
    BY <1>2 DEF Slots, Positive
  <2>1. CASE cache'[e] = cache[e]
    BY <1>0, <1>2, <2>0, <2>1 DEF RevokedInv
  <2>2. ASSUME NEW r \in Requests, req[r].pc = "admit", At(req[r]) = e,
               cache'[e] = [kind |-> "verified", hash |-> Hash[req[r].secret], left |-> CacheTTL]
        PROVE  /\ row'[e[2]] # "absent"
               /\ cache'[e].left <= CacheTTL
               /\ revokedFor'[e[2]] + cache'[e].left <= Grace
    <3>1. /\ req[r].prefix = e[2]
          /\ row[e[2]] # "absent"
          /\ revokedFor[e[2]] <= req[r].busy
      BY <2>2 DEF RevokedInv, At
    <3>2. revokedFor[e[2]] \in Nat /\ req[r].busy \in 0 .. MaxVerify
      BY <2>0 DEF TypeOK, Call
    <3> QED BY <1>0, <2>0, <2>2, <3>1, <3>2, TimingAssumption DEF Grace
  <2>3. \/ cache'[e] = cache[e]
        \/ \E r \in Requests :
             /\ req[r].pc = "admit"
             /\ At(req[r]) = e
             /\ cache'[e] = [kind |-> "verified", hash |-> Hash[req[r].secret], left |-> CacheTTL]
    BY <2>0, StepEntries
  <2> QED BY <2>1, <2>2, <2>3
<1>3. ASSUME NEW r \in Requests, req'[r].pc \in {"check", "admit"}
      PROVE  /\ row'[req'[r].prefix] # "absent"
             /\ revokedFor'[req'[r].prefix] <= req'[r].busy
  <2>0. req[r] \in Call
    BY DEF TypeOK
  <2>1. req'[r].pc \in Decided
    BY <1>3 DEF Decided
  <2>2. CASE req'[r] = req[r]
    <3>1. req[r].prefix \in Prefixes
      BY <1>3, <2>2, CallKnowsItsKey DEF InFlight
    <3> QED BY <1>0, <1>3, <2>2, <3>1 DEF RevokedInv
  <2>3. CASE /\ req[r].pc = "check"
             /\ req'[r] = [req[r] EXCEPT !.pc = "admit"]
    <3>1. req[r].prefix \in Prefixes
      BY <2>3, CallKnowsItsKey DEF InFlight
    <3> QED BY <1>0, <2>0, <2>3, <3>1 DEF RevokedInv, Call
  <2>4. CASE /\ req'[r] = [req[r] EXCEPT !.pc = "check"]
             /\ row'[req[r].prefix] = "active"
    <3>1. req'[r].prefix = req[r].prefix /\ req'[r].busy = req[r].busy
      BY <2>0, <2>4 DEF Call
    <3>2. req'[r].pc = "check"
      BY <2>0, <2>4 DEF Call
    <3>3. req'[r].prefix \in Prefixes
      BY <3>2, NextTypeOK DEF TypeOK, Attributed, InFlight, Next
    <3>4. revokedFor'[req[r].prefix] = 0
      BY <1>1, <2>4, <3>1, <3>3
    <3>5. req[r].busy >= 0
      BY <2>0, TimingAssumption DEF Call
    <3> QED BY <2>4, <3>1, <3>4, <3>5
  <2> QED BY <1>3, <2>0, <2>1, <2>2, <2>3, <2>4, StepCalls DEF Call
<1> QED BY <1>1, <1>2, <1>3 DEF RevokedInv

LEMMA TickRevokedInv ==
  ASSUME TypeOK, RevokedInv, Tick
  PROVE  RevokedInv'
<1>0. /\ row' = row
      /\ revokedFor \in [Prefixes -> Nat] /\ revokedFor' \in [Prefixes -> Nat]
      /\ \A k \in Prefixes : revokedFor'[k] <= revokedFor[k] + 1
  <2>1. TypeOK'
    BY NextTypeOK DEF Next
  <2> QED BY <2>1, TickEffect DEF TypeOK
<1>1. \A k \in Prefixes : row'[k] # "revoked" => revokedFor'[k] = 0
  BY <1>0, TickEffect DEF RevokedInv
<1>2. ASSUME NEW e \in Slots, Positive(cache'[e])
      PROVE  /\ row'[e[2]] # "absent"
             /\ cache'[e].left <= CacheTTL
             /\ revokedFor'[e[2]] + cache'[e].left <= Grace
  <2>1. e[2] \in Prefixes
    BY DEF Slots
  <2>2. Positive(cache[e]) /\ cache'[e].left = cache[e].left - 1 /\ cache[e].left \in Nat
    BY <1>2, TickEffect DEF Positive, TypeOK, Entry
  <2>3. /\ row[e[2]] # "absent"
        /\ cache[e].left <= CacheTTL
        /\ revokedFor[e[2]] + cache[e].left <= Grace
    BY <2>2 DEF RevokedInv
  <2> QED BY <1>0, <2>1, <2>2, <2>3, TimingAssumption DEF Grace
<1>3. ASSUME NEW r \in Requests, req'[r].pc \in {"check", "admit"}
      PROVE  /\ row'[req'[r].prefix] # "absent"
             /\ revokedFor'[req'[r].prefix] <= req'[r].busy
  <2>0. req[r] \in Call
    BY DEF TypeOK
  <2>1. req[r].pc \in {"check", "admit"}
    BY <1>3, <2>0, TickEffect DEF Call
  <2>2. req'[r].prefix = req[r].prefix /\ req'[r].busy = req[r].busy + 1
    BY <2>0, <2>1, TickEffect DEF Call, Decided
  <2>3. req[r].prefix \in Prefixes
    BY <2>1, CallKnowsItsKey DEF InFlight
  <2>4. row[req[r].prefix] # "absent" /\ revokedFor[req[r].prefix] <= req[r].busy
    BY <2>1 DEF RevokedInv
  <2> QED BY <1>0, <2>0, <2>2, <2>3, <2>4 DEF Call
<1> QED BY <1>1, <1>2, <1>3 DEF RevokedInv

-----------------------------------------------------------------------------
\* The same for denials.

LEMMA StepDeniedInv ==
  ASSUME TypeOK, DeniedInv, Step
  PROVE  DeniedInv'
<1>0. /\ deniedFor \in [Slots -> Nat]
      /\ \A e \in Slots : deniedFor'[e] \in Nat /\ deniedFor'[e] <= deniedFor[e]
  BY StepRows DEF TypeOK
<1>1. ASSUME NEW e \in Slots, DeniedByCache(cache'[e])
      PROVE  deniedFor'[e] + cache'[e].left <= Denial
  <2>0. Live(cache'[e]) /\ cache'[e].kind = "notFound"
    BY <1>1 DEF DeniedByCache
  <2>1. CASE cache'[e] = cache[e]
    <3>1. deniedFor[e] + cache[e].left <= Denial
      BY <1>1, <2>1 DEF DeniedInv
    <3>2. cache[e].left \in Nat
      BY DEF TypeOK, Entry
    <3> QED BY <1>0, <2>1, <3>1, <3>2, TimingAssumption DEF Denial
  <2>2. ASSUME NEW r \in Requests, req[r].pc = "deny", At(req[r]) = e,
               cache'[e] = [kind |-> "notFound", hash |-> NoKey, left |-> NegTTL]
        PROVE  deniedFor'[e] + cache'[e].left <= Denial
    <3>1. deniedFor[e] <= req[r].busy
      BY <2>2 DEF DeniedInv
    <3>2. req[r].busy \in 0 .. MaxVerify
      BY DEF TypeOK, Call
    <3> QED BY <1>0, <2>2, <3>1, <3>2, TimingAssumption DEF Denial
  <2>3. \/ cache'[e] = cache[e]
        \/ \E r \in Requests :
             /\ req[r].pc = "deny"
             /\ At(req[r]) = e
             /\ cache'[e] = [kind |-> "notFound", hash |-> NoKey, left |-> NegTTL]
    <3>1. ASSUME NEW r \in Requests,
                 cache'[e] = [kind |-> "verified", hash |-> Hash[req[r].secret], left |-> CacheTTL]
          PROVE  FALSE
      BY <2>0, <3>1
    <3> QED BY <2>0, <3>1, StepEntries
  <2> QED BY <2>1, <2>2, <2>3
<1>2. ASSUME NEW r \in Requests, req'[r].pc = "deny"
      PROVE  deniedFor'[At(req'[r])] <= req'[r].busy
  <2>0. req[r] \in Call /\ req'[r].pc \in Decided
    BY <1>2 DEF TypeOK, Decided
  <2>1. CASE req'[r] = req[r]
    <3>1. At(req[r]) \in Slots
      BY <1>2, <2>1, CallKnowsItsKey DEF InFlight, At, Slots
    <3>2. deniedFor[At(req[r])] <= req[r].busy
      BY <1>2, <2>1 DEF DeniedInv
    <3> QED BY <1>0, <2>0, <2>1, <3>1, <3>2 DEF Call
  <2>2. CASE /\ req'[r] = [req[r] EXCEPT !.pc = "deny"]
             /\ deniedFor'[At(req[r])] = 0
    BY <2>0, <2>2, TimingAssumption DEF Call, At
  <2> QED BY <1>2, <2>0, <2>1, <2>2, StepCalls DEF Call
<1> QED BY <1>1, <1>2 DEF DeniedInv

LEMMA TickDeniedInv ==
  ASSUME TypeOK, DeniedInv, Tick
  PROVE  DeniedInv'
<1>0. /\ deniedFor \in [Slots -> Nat] /\ deniedFor' \in [Slots -> Nat]
      /\ \A e \in Slots : deniedFor'[e] <= deniedFor[e] + 1
  <2>1. TypeOK'
    BY NextTypeOK DEF Next
  <2> QED BY <2>1, TickEffect DEF TypeOK
<1>1. ASSUME NEW e \in Slots, DeniedByCache(cache'[e])
      PROVE  deniedFor'[e] + cache'[e].left <= Denial
  <2>1. DeniedByCache(cache[e]) /\ cache'[e].left = cache[e].left - 1 /\ cache[e].left \in Nat
    BY <1>1, TickEffect DEF DeniedByCache, TypeOK, Entry
  <2>2. deniedFor[e] + cache[e].left <= Denial
    BY <2>1 DEF DeniedInv
  <2> QED BY <1>0, <2>1, <2>2, TimingAssumption DEF Denial
<1>2. ASSUME NEW r \in Requests, req'[r].pc = "deny"
      PROVE  deniedFor'[At(req'[r])] <= req'[r].busy
  <2>0. req[r] \in Call
    BY DEF TypeOK
  <2>1. req[r].pc = "deny"
    BY <1>2, <2>0, TickEffect DEF Call
  <2>2. At(req'[r]) = At(req[r]) /\ req'[r].busy = req[r].busy + 1
    BY <2>0, <2>1, TickEffect DEF Call, Decided, At
  <2>3. At(req[r]) \in Slots
    BY <2>1, CallKnowsItsKey DEF InFlight, At, Slots
  <2>4. deniedFor[At(req[r])] <= req[r].busy
    BY <2>1 DEF DeniedInv
  <2> QED BY <1>0, <2>0, <2>2, <2>3, <2>4 DEF Call
<1> QED BY <1>1, <1>2 DEF DeniedInv

-----------------------------------------------------------------------------
\* The two bounds, and the invariant as a whole.

LEMMA StepLags ==
  ASSUME Inv, Step
  PROVE  RevocationLag' /\ DenialLag'
<1>0. TypeOK /\ SecretInv /\ RevokedInv /\ DeniedInv /\ RevocationLag /\ DenialLag
  BY DEF Inv
<1>1. ASSUME NEW r \in Requests, req'[r].pc = "accepted"
      PROVE  req'[r].lag <= Grace
  <2>1. CASE req'[r] = req[r]
    BY <1>0, <1>1, <2>1 DEF RevocationLag
  <2>2. ASSUME NEW e \in Slots, AcceptedByCache(cache[e], req'[r].secret),
               req'[r].lag = revokedFor[e[2]]
        PROVE  req'[r].lag <= Grace
    <3>1. revokedFor[e[2]] + cache[e].left <= Grace
      BY <1>0, <2>2 DEF RevokedInv, AcceptedByCache
    <3>2. cache[e].left \in Nat /\ revokedFor[e[2]] \in Nat
      BY <1>0 DEF TypeOK, Entry, Slots
    <3> QED BY <2>2, <3>1, <3>2, TimingAssumption DEF Grace
  <2>3. CASE req[r].pc = "admit" /\ req'[r].lag = revokedFor[req[r].prefix]
    <3>1. revokedFor[req[r].prefix] <= req[r].busy
      BY <1>0, <2>3 DEF RevokedInv
    <3>2. req[r].busy \in 0 .. MaxVerify /\ revokedFor[req[r].prefix] \in Nat
      BY <1>0, <2>3, CallKnowsItsKey DEF TypeOK, Call, InFlight
    <3> QED BY <2>3, <3>1, <3>2, TimingAssumption DEF Grace
  <2> QED BY <1>0, <1>1, <2>1, <2>2, <2>3, StepAccepted
<1>2. ASSUME NEW r \in Requests, req'[r].pc = "rejected", req'[r].prefix # NoKey
      PROVE  req'[r].lag <= Denial
  <2>1. CASE req'[r] = req[r]
    BY <1>0, <1>2, <2>1 DEF DenialLag
  <2>2. ASSUME NEW e \in Slots, DeniedByCache(cache[e]), req'[r].lag = deniedFor[e]
        PROVE  req'[r].lag <= Denial
    <3>1. deniedFor[e] + cache[e].left <= Denial
      BY <1>0, <2>2 DEF DeniedInv
    <3>2. cache[e].left \in Nat /\ deniedFor[e] \in Nat
      BY <1>0 DEF TypeOK, Entry
    <3> QED BY <2>2, <3>1, <3>2, TimingAssumption DEF Denial
  <2>3. CASE req[r].pc = "deny" /\ req'[r].lag = deniedFor[At(req[r])]
    <3>1. deniedFor[At(req[r])] <= req[r].busy
      BY <1>0, <2>3 DEF DeniedInv
    <3>2. req[r].busy \in 0 .. MaxVerify /\ deniedFor[At(req[r])] \in Nat
      BY <1>0, <2>3, CallKnowsItsKey DEF TypeOK, Call, InFlight, At, Slots
    <3> QED BY <2>3, <3>1, <3>2, TimingAssumption DEF Denial
  <2> QED BY <1>0, <1>2, <2>1, <2>2, <2>3, StepRejected
<1> QED BY <1>1, <1>2 DEF RevocationLag, DenialLag

LEMMA TickLags ==
  ASSUME Inv, Tick
  PROVE  RevocationLag' /\ DenialLag'
<1>1. TypeOK /\ RevocationLag /\ DenialLag
  BY DEF Inv
<1>2. ASSUME NEW r \in Requests, req'[r].pc \in {"accepted", "rejected"}
      PROVE  req'[r] = req[r]
  <2>1. CASE req[r].pc \in Decided
    <3>1. req'[r] = [req[r] EXCEPT !.busy = req[r].busy + 1]
      BY <1>1, <2>1, TickEffect
    <3>2. req[r] \in Call
      BY <1>1 DEF TypeOK
    <3>3. req'[r].pc = req[r].pc
      BY <3>1, <3>2 DEF Call
    <3> QED BY <1>2, <2>1, <3>3 DEF Decided
  <2>2. CASE req[r].pc \notin Decided
    BY <1>1, <2>2, TickEffect
  <2> QED BY <2>1, <2>2
<1> QED BY <1>1, <1>2 DEF RevocationLag, DenialLag

LEMMA InitInv == Init => Inv
<1> SUFFICES ASSUME Init PROVE Inv
  OBVIOUS
<1>1. TypeOK
  BY InitTypeOK
<1>2. \A e \in Slots : ~Live(cache[e])
  BY DEF Init, Live, NoEntry
<1>3. \A r \in Requests : req[r].pc = "idle"
  BY DEF Init, NoCall
<1>4. SecretInv /\ DeniedInv
  BY <1>2, <1>3 DEF SecretInv, DeniedInv, Positive, DeniedByCache
<1>5. RevokedInv
  BY <1>2, <1>3 DEF Init, RevokedInv, Positive
<1>6. RevocationLag /\ DenialLag
  BY <1>3 DEF RevocationLag, DenialLag
<1> QED BY <1>1, <1>4, <1>5, <1>6 DEF Inv

LEMMA NextInv == Inv /\ [Next]_vars => Inv'
<1> SUFFICES ASSUME Inv, [Next]_vars PROVE Inv'
  OBVIOUS
<1>0. TypeOK /\ SecretInv /\ RevokedInv /\ DeniedInv
  BY DEF Inv
<1>1. TypeOK'
  BY <1>0, NextTypeOK
<1>2. CASE Step
  <2>1. SecretInv'
    BY <1>0, <1>2, StepSecretInv
  <2>2. RevokedInv'
    BY <1>0, <1>2, StepRevokedInv
  <2>3. DeniedInv'
    BY <1>0, <1>2, StepDeniedInv
  <2> QED BY <1>1, <1>2, <2>1, <2>2, <2>3, StepLags DEF Inv
<1>3. CASE Tick
  <2>1. SecretInv'
    BY <1>0, <1>3, TickSecretInv
  <2>2. RevokedInv'
    BY <1>0, <1>3, TickRevokedInv
  <2>3. DeniedInv'
    BY <1>0, <1>3, TickDeniedInv
  <2> QED BY <1>1, <1>3, <2>1, <2>2, <2>3, TickLags DEF Inv
<1>4. CASE UNCHANGED vars
  BY <1>1, <1>4 DEF Inv, vars, SecretInv, RevokedInv, DeniedInv, RevocationLag, DenialLag
<1> QED BY <1>2, <1>3, <1>4 DEF Next

\* The invariant of Verify and its cache, for any number of gateway processes
\* and concurrent calls and any cache lifetimes.
THEOREM Invariance == Spec => []Inv
BY InitInv, NextInv, PTL DEF Spec

\* A call that a live positive entry lets in is vouched for: the entry has its
\* hash, and is younger than a cache lifetime.
LEMMA HitIsVouchedFor ==
  ASSUME Inv, NEW e \in Slots, NEW s, AcceptedByCache(cache[e], s)
  PROVE  VouchedFor(e[2], s)
<1>1. e[2] \in Prefixes
  BY DEF Slots
<1>2. vouchedFor[e[2]] \in Nat /\ cache[e].left \in Nat /\ cache[e].left > 0
  BY <1>1 DEF Inv, TypeOK, Entry, AcceptedByCache, Positive, Live
<1>3. /\ Hash[s] = Hash[IssuedSecret[e[2]]]
      /\ vouchedFor[e[2]] + cache[e].left <= CacheTTL
  BY DEF Inv, SecretInv, AcceptedByCache
<1>4. vouchedFor[e[2]] < CacheTTL
  BY <1>2, <1>3, TimingAssumption
<1> QED BY <1>3, <1>4 DEF VouchedFor

\* A secret other than the issued one gets in only in the shadow of it: with
\* its hash, on a cache hit, less than a cache lifetime after argon2id passed
\* the issued one (Verify compares 64-bit hashes on a hit).
THEOREM OnlyVouchedSecretsGetIn == Spec => OnlyVouchedSecrets
<1> DEFINE A == \A r \in Requests :
                  req'[r].pc = "accepted" /\ req'[r] # req[r] =>
                    VouchedFor(req'[r].prefix, req'[r].secret)
<1>1. ASSUME Inv, Step PROVE A
  <2> SUFFICES ASSUME NEW r \in Requests, req'[r].pc = "accepted", req'[r] # req[r]
               PROVE  VouchedFor(req'[r].prefix, req'[r].secret)
    OBVIOUS
  <2>1. CASE \E e \in Slots : /\ AcceptedByCache(cache[e], req'[r].secret)
                              /\ req'[r].prefix = e[2]
    BY <1>1, <2>1, HitIsVouchedFor
  <2>2. CASE /\ req[r].pc = "admit"
             /\ req'[r].prefix = req[r].prefix
             /\ req'[r].secret = req[r].secret
    BY <1>1, <2>2 DEF Inv, SecretInv, VouchedFor
  <2> QED BY <1>1, <2>1, <2>2, StepAccepted DEF Inv
<1>2. ASSUME Inv, Tick PROVE A
  <2> SUFFICES ASSUME NEW r \in Requests, req'[r].pc = "accepted" PROVE req'[r] = req[r]
    OBVIOUS
  <2>1. req[r] \in Call
    BY <1>2 DEF Inv, TypeOK
  <2> QED BY <1>2, <2>1, TickEffect DEF Inv, Decided, Call
<1>3. Inv /\ [Next]_vars => [A]_vars
  BY <1>1, <1>2 DEF Next
<1> QED BY <1>3, Invariance, PTL DEF Spec, OnlyVouchedSecrets

\* A revoked key gets in for at most CacheTTL + MaxVerify after RevokeKey.
THEOREM RevocationIsBounded == Spec => []RevocationLag
<1>1. Inv => RevocationLag
  BY DEF Inv
<1> QED BY <1>1, Invariance, PTL

\* A denial outlives its reason by at most NegTTL + MaxVerify.
THEOREM DenialIsBounded == Spec => []DenialLag
<1>1. Inv => DenialLag
  BY DEF Inv
<1> QED BY <1>1, Invariance, PTL

-----------------------------------------------------------------------------
\* The verifier implements KeyGate.

\* A step that puts an answer, or silence, into slots of KeyGate.

LEMMA Responded ==
  ASSUME TypeOK, NEW r \in Requests, NEW c, NEW k \in Prefixes, NEW s \in Secrets,
         NEW v \in {"accepted", "rejected"},
         req' = [req EXCEPT ![r] = c],
         Verdict(c) = [prefix |-> k, secret |-> s, verdict |-> v],
         v = "accepted" => Gate!Acceptable(k, s),
         UNCHANGED <<row, revokedFor>>,
         \/ UNCHANGED vouchedFor
         \/ /\ v = "accepted" /\ s = IssuedSecret[k]
            /\ vouchedFor' = [vouchedFor EXCEPT ![k] = 0]
  PROVE  Gate!Next
<1>1. req \in [Requests -> Call]
  BY DEF TypeOK
<1>2. Gate!Respond(r, k, s, v)
  BY <1>1 DEF Gate!Respond
<1> QED BY <1>2 DEF Gate!Next

LEMMA Withdrawn ==
  ASSUME NEW R \in SUBSET Requests,
         \A r \in Requests : IF r \in R THEN Verdict(req'[r]) = NoKey
                                        ELSE Verdict(req'[r]) = Verdict(req[r]),
         UNCHANGED <<row, revokedFor, vouchedFor>>
  PROVE  Gate!Next
<1>1. Gate!Withdraw(R)
  BY DEF Gate!Withdraw
<1> QED BY <1>1 DEF Gate!Next

\* A call that may be accepted names a key that KeyGate finds acceptable.
LEMMA HitIsAcceptable ==
  ASSUME Inv, NEW e \in Slots, NEW s, AcceptedByCache(cache[e], s)
  PROVE  Gate!Acceptable(e[2], s)
<1>1. e[2] \in Prefixes /\ row[e[2]] \in RowState
  BY DEF Slots, Inv, TypeOK
<1>2. /\ row[e[2]] # "absent"
      /\ revokedFor[e[2]] + cache[e].left <= Grace
  BY DEF Inv, RevokedInv, AcceptedByCache
<1>3. revokedFor[e[2]] \in Nat /\ cache[e].left \in Nat
  BY <1>1 DEF Inv, TypeOK, Entry
<1>4. revokedFor[e[2]] <= Grace
  BY <1>2, <1>3, TimingAssumption DEF Grace
<1>5. VouchedFor(e[2], s)
  BY HitIsVouchedFor
<1> QED BY <1>1, <1>2, <1>4, <1>5 DEF Gate!Acceptable, VouchedFor, RowState

LEMMA AdmittedIsAcceptable ==
  ASSUME Inv, NEW r \in Requests, req[r].pc = "admit"
  PROVE  Gate!Acceptable(req[r].prefix, req[r].secret)
<1>1. req[r].prefix \in Prefixes /\ row[req[r].prefix] \in RowState
  BY CallKnowsItsKey DEF Inv, TypeOK, InFlight
<1>2. req[r].secret = IssuedSecret[req[r].prefix] /\ row[req[r].prefix] # "absent"
      /\ revokedFor[req[r].prefix] <= req[r].busy
  BY DEF Inv, SecretInv, RevokedInv
<1>3. revokedFor[req[r].prefix] \in Nat /\ req[r].busy \in 0 .. MaxVerify
  BY <1>1 DEF Inv, TypeOK, Call
<1>4. revokedFor[req[r].prefix] <= Grace
  BY <1>2, <1>3, TimingAssumption DEF Grace
<1> QED BY <1>1, <1>2, <1>4 DEF Gate!Acceptable, RowState

LEMMA GateInit == Init => Gate!Init
<1> SUFFICES ASSUME Init PROVE Gate!Init
  OBVIOUS
<1>1. \A r \in Requests : Verdict(req[r]) = NoKey
  BY DEF Init, NoCall, Verdict
<1> QED BY <1>1 DEF Init, Gate!Init, Gate!RowState

\* The calls between their query and their answer are silent.
LEMMA QuietProceed ==
  ASSUME TypeOK, NEW r \in Requests, FindRow(r) \/ FindFails(r) \/ CheckSecret(r)
  PROVE  UNCHANGED Gate!vars
<1>1. \A q \in Requests : Verdict(req'[q]) = Verdict(req[q])
  <2>0. req \in [Requests -> Call]
    BY DEF TypeOK
  <2>1. CASE FindRow(r)
    BY <2>0, <2>1 DEF FindRow, Verdict, Call
  <2>2. CASE FindFails(r)
    BY <2>0, <2>2 DEF FindFails, Verdict, Call
  <2>3. CASE CheckSecret(r)
    BY <2>0, <2>3 DEF CheckSecret, Verdict, Call
  <2> QED BY <2>1, <2>2, <2>3
<1>2. UNCHANGED <<row, revokedFor, vouchedFor>>
  BY DEF FindRow, FindFails, CheckSecret
<1> QED BY <1>1, <1>2 DEF Gate!vars

LEMMA GateStep == Inv /\ [Next]_vars => [Gate!Next]_(Gate!vars)
<1> SUFFICES ASSUME Inv, [Next]_vars PROVE [Gate!Next]_(Gate!vars)
  OBVIOUS
<1>0. TypeOK /\ req \in [Requests -> Call]
  BY DEF Inv, TypeOK
<1>1. ASSUME NEW r \in Requests, RefuseMalformed(r) PROVE Gate!Next
  <2>1. Verdict([NoCall EXCEPT !.pc = "rejected"]) = NoKey
    BY DEF Verdict, NoCall
  <2>2. \A q \in Requests : IF q \in {r} THEN Verdict(req'[q]) = NoKey
                                         ELSE Verdict(req'[q]) = Verdict(req[q])
    BY <1>0, <1>1, <2>1 DEF RefuseMalformed
  <2> QED BY <1>1, <2>2, Withdrawn DEF RefuseMalformed
<1>2. ASSUME NEW r \in Requests, NEW n \in Nodes, NEW k \in Prefixes, NEW s \in Secrets,
             LookUp(r, n, k, s)
      PROVE  Gate!Next
  <2>0. UNCHANGED <<row, revokedFor, vouchedFor>> /\ k # NoKey
    BY <1>2, KeyAssumption DEF LookUp
  <2>2. CASE req' = [req EXCEPT ![r] = Begin(n, k, s, "rejected", deniedFor[<<n, k>>])]
    <3> DEFINE c == Begin(n, k, s, "rejected", deniedFor[<<n, k>>])
    <3>1. Verdict(c) = [prefix |-> k, secret |-> s, verdict |-> "rejected"]
      BY <2>0 DEF Verdict, Begin
    <3>2. req' = [req EXCEPT ![r] = c]
      BY <2>2
    <3> HIDE DEF c
    <3> QED BY <1>0, <2>0, <3>1, <3>2, Responded
  <2>3. CASE /\ AcceptedByCache(cache[<<n, k>>], s)
             /\ req' = [req EXCEPT ![r] = Begin(n, k, s, "accepted", revokedFor[k])]
    <3> DEFINE c == Begin(n, k, s, "accepted", revokedFor[k])
    <3>1. Gate!Acceptable(k, s)
      <4>1. <<n, k>> \in Slots /\ <<n, k>>[2] = k
        BY DEF Slots
      <4>2. Gate!Acceptable(<<n, k>>[2], s)
        BY <2>3, <4>1, HitIsAcceptable
      <4> QED BY <4>1, <4>2
    <3>2. Verdict(c) = [prefix |-> k, secret |-> s, verdict |-> "accepted"]
      BY <2>0 DEF Verdict, Begin
    <3>3. req' = [req EXCEPT ![r] = c]
      BY <2>3
    <3> HIDE DEF c
    <3> QED BY <1>0, <2>0, <3>1, <3>2, <3>3, Responded
  <2>4. CASE req' = [req EXCEPT ![r] = Begin(n, k, s, "find", 0)]
    <3>1. Verdict(Begin(n, k, s, "find", 0)) = NoKey
      BY DEF Verdict, Begin
    <3>2. \A q \in Requests : IF q \in {r} THEN Verdict(req'[q]) = NoKey
                                           ELSE Verdict(req'[q]) = Verdict(req[q])
      BY <1>0, <2>4, <3>1
    <3> QED BY <2>0, <3>2, Withdrawn
  <2> QED BY <1>2, <2>2, <2>3, <2>4 DEF LookUp
<1>3. ASSUME NEW r \in Requests, StoreVerified(r) \/ StoreNotFound(r) PROVE Gate!Next
  <2>0. /\ req[r].prefix \in Prefixes /\ req[r].secret \in Secrets
        /\ req[r].prefix # NoKey
    BY <1>0, <1>3, CallKnowsItsKey, KeyAssumption DEF StoreVerified, StoreNotFound, InFlight
  <2>1. UNCHANGED <<row, revokedFor>>
    BY <1>3 DEF StoreVerified, StoreNotFound
  <2>2. req[r] \in Call
    BY <1>0
  <2>3. CASE StoreVerified(r)
    <3>1. Gate!Acceptable(req[r].prefix, req[r].secret)
      BY <2>3, AdmittedIsAcceptable DEF StoreVerified
    <3> DEFINE c == Answer(req[r], "accepted", revokedFor[req[r].prefix])
    <3>2. req' = [req EXCEPT ![r] = c]
      BY <2>3 DEF StoreVerified
    <3>3. Verdict(c) =
            [prefix |-> req[r].prefix, secret |-> req[r].secret, verdict |-> "accepted"]
      BY <2>0, <2>2 DEF Verdict, Answer, Call
    <3>4. /\ req[r].secret = IssuedSecret[req[r].prefix]
          /\ vouchedFor' = [vouchedFor EXCEPT ![req[r].prefix] = 0]
      BY <2>3 DEF StoreVerified, Inv, SecretInv
    <3> HIDE DEF c
    <3> QED BY <1>0, <2>0, <2>1, <3>1, <3>2, <3>3, <3>4, Responded
  <2>4. CASE StoreNotFound(r)
    <3> DEFINE c == Answer(req[r], "rejected", deniedFor[At(req[r])])
    <3>1. req' = [req EXCEPT ![r] = c]
      BY <2>4 DEF StoreNotFound
    <3>2. Verdict(c) =
            [prefix |-> req[r].prefix, secret |-> req[r].secret, verdict |-> "rejected"]
      BY <2>0, <2>2 DEF Verdict, Answer, Call
    <3>3. UNCHANGED vouchedFor
      BY <2>4 DEF StoreNotFound
    <3> HIDE DEF c
    <3> QED BY <1>0, <2>0, <2>1, <3>1, <3>2, <3>3, Responded
  <2> QED BY <1>3, <2>3, <2>4
<1>4. ASSUME NEW n \in Nodes, NEW k \in Prefixes, MarkUsed(n, k)
      PROVE  UNCHANGED Gate!vars
  BY <1>4 DEF MarkUsed, Gate!vars
<1>5. ASSUME NEW k \in Prefixes, Provision(k) PROVE Gate!Next
  BY <1>5 DEF Provision, Gate!Provision, Gate!Next
<1>6. ASSUME NEW k \in Prefixes, Revoke(k) PROVE Gate!Next
  BY <1>6 DEF Revoke, Gate!Revoke, Gate!Next
<1>7. ASSUME NEW k \in Prefixes, Expire(k) PROVE UNCHANGED Gate!vars
  BY <1>7 DEF Expire, Gate!vars
<1>8. ASSUME NEW n \in Nodes, Restart(n) PROVE Gate!Next
  <2> DEFINE R == {r \in Requests : req[r].node = n}
  <2>1. Verdict(NoCall) = NoKey
    BY DEF Verdict, NoCall
  <2>2. \A q \in Requests : IF q \in R THEN Verdict(req'[q]) = NoKey
                                       ELSE Verdict(req'[q]) = Verdict(req[q])
    BY <1>8, <2>1 DEF Restart
  <2>3. UNCHANGED <<row, revokedFor, vouchedFor>> /\ R \in SUBSET Requests
    BY <1>8 DEF Restart
  <2> HIDE DEF R
  <2> QED BY <2>2, <2>3, Withdrawn
<1>9. CASE Tick
  <2>1. \A r \in Requests : Verdict(req'[r]) = Verdict(req[r])
    BY <1>0, <1>9 DEF Tick, Verdict, Call, Decided
  <2>2. Gate!Age
    BY <1>9, <2>1 DEF Tick, Gate!Age
  <2> QED BY <2>2 DEF Gate!Next
<1>10. CASE UNCHANGED vars
  BY <1>10 DEF vars, Gate!vars
<1> QED
  BY <1>0, <1>1, <1>2, <1>3, <1>4, <1>5, <1>6, <1>7, <1>8, <1>9, <1>10, QuietProceed
  DEF Next, Step, Proceed

\* Verify, its caches and the admin API keep the promise of KeyGate: a key is
\* accepted while active or within the grace period after its revocation, with
\* the issued secret or, in its shadow, one of the same hash.
THEOREM ImplementsKeyGate == Spec => GateSpec
BY GateInit, GateStep, Invariance, PTL DEF Spec, GateSpec, Gate!Spec
=============================================================================
