--------------------------- MODULE VirtualKeyAuth ---------------------------
(***************************************************************************)
(* Verification of virtual keys: VirtualKeyVerifier.Verify and its         *)
(* in-memory cache (gateway/internal/auth/middleware.go) in several        *)
(* gateway processes, against the virtual_keys rows they share             *)
(* (gateway/internal/store/virtual_keys.go) and the admin API that revokes *)
(* them (gateway/internal/handlers/admin/keys.go).                         *)
(*                                                                         *)
(* One Verify call is not atomic.  It reads the cache under RLock, queries *)
(* the database, runs argon2id and writes the cache under Lock; a          *)
(* revocation, a restart or another call may fall between any two of       *)
(* these.                                                                  *)
(*                                                                         *)
(* Time is a discrete clock.  The code compares the wall clock only with   *)
(* an entry's expiresAt, so an entry keeps the difference: left, the ticks *)
(* until it expires.                                                       *)
(***************************************************************************)
EXTENDS Integers

CONSTANTS
  Nodes,         \* gateway processes, each with a verifier of its own
  Requests,      \* concurrent calls of Verify
  Prefixes,      \* lookup prefixes "gw_<env>_<prefix>"
  Secrets,       \* secrets clients present
  IssuedSecret,  \* IssuedSecret[k]: the secret whose argon2id hash row k holds
  Hash,          \* Hash[s]: hashSecret(s), 64 bits of FNV-1a; it may collide
  CacheTTL,      \* cacheTTL, in ticks
  NegTTL,        \* negTTL, in ticks
  MaxVerify,     \* longest time, in ticks, from the answer of the database to
                 \* the write of the cache (the argon2id call)
  NoKey          \* no prefix or secret

ASSUME TimingAssumption ==
  /\ CacheTTL \in Nat \ {0}
  /\ NegTTL \in Nat \ {0}
  /\ MaxVerify \in Nat

ASSUME KeyAssumption ==
  /\ IssuedSecret \in [Prefixes -> Secrets]
  /\ NoKey \notin Prefixes \cup Secrets
  /\ DOMAIN Hash = Secrets

VARIABLES
  row,       \* row[k]: "absent", "active" or "revoked" (revoked_at set)
  expired,   \* the prefixes whose row has expires_at in the past
  lastUsed,  \* the prefixes whose row has last_used_at set
  cache,     \* cache[<<n, k>>]: the entry of verified[k] in process n
  req,       \* req[r]: the call in slot r
  marking    \* goroutines <<n, k>> about to call MarkVirtualKeyUsed

\* What an observer with a stopwatch sees; nothing reads these three.
VARIABLES
  revokedFor,  \* revokedFor[k]: ticks since row k was revoked
  deniedFor,   \* deniedFor[<<n, k>>]: ticks since process n last found a reason
               \* to deny prefix k
  vouchedFor   \* vouchedFor[k]: ticks since the issued secret of k last passed
               \* argon2id and was let in, by any process

vars == <<row, expired, lastUsed, cache, req, marking, revokedFor, deniedFor, vouchedFor>>

\* Where process n keeps what it knows of prefix k.
Slots == Nodes \X Prefixes

RowState == {"absent", "active", "revoked"}

Grace == CacheTTL + MaxVerify
Denial == NegTTL + MaxVerify

-----------------------------------------------------------------------------
\* The cache.

Hashes == {Hash[s] : s \in Secrets}

\* hash: the field hashedSecret, empty in a negative entry.
Entry == [kind : {"verified", "notFound"}, hash : Hashes \cup {NoKey}, left : Nat]

\* A missing entry and an expired one are treated alike.
NoEntry == [kind |-> "notFound", hash |-> NoKey, left |-> 0]

Live(e) == e.left > 0

DeniedByCache(e) == Live(e) /\ e.kind = "notFound"

Positive(e) == Live(e) /\ e.kind = "verified"

\* Faulty AcceptedByCache: who presents the key does not matter.
AcceptedForAnySecret(e, s) == Positive(e)

\* The entry has no secret to compare with, only its hash: a secret with the
\* hash of the one that made the entry is let in, without argon2id.
AcceptedByCache(e, s) == Positive(e) /\ e.hash = Hash[s]

\* Faulty Aged: an expired entry goes on ageing.
AgedBelowZero(e) == [e EXCEPT !.left = e.left - 1]

Aged(e) == [e EXCEPT !.left = IF e.left > 0 THEN e.left - 1 ELSE 0]

-----------------------------------------------------------------------------
\* A call of Verify.  "find": before the database query; "check": a row was
\* found, argon2id is running; "admit" and "deny": about to write the cache.

Phase == {"idle", "find", "check", "admit", "deny", "accepted", "rejected"}

InFlight == {"find", "check", "admit", "deny"}

\* The phases between the answer of the database and the write of the cache.
Decided == {"check", "admit", "deny"}

NoCall == [pc |-> "idle", node |-> NoKey, prefix |-> NoKey, secret |-> NoKey,
           busy |-> 0, lag |-> 0]

\* The entry a call reads and writes.
At(c) == <<c.node, c.prefix>>

Answer(c, verdict, lag) == [c EXCEPT !.pc = verdict, !.lag = lag, !.busy = 0]

Begin(n, k, s, phase, lag) ==
  [pc |-> phase, node |-> n, prefix |-> k, secret |-> s, busy |-> 0, lag |-> lag]

Init ==
  /\ row \in [Prefixes -> {"absent", "active"}]
  /\ expired = {}
  /\ lastUsed = {}
  /\ cache = [e \in Slots |-> NoEntry]
  /\ req = [r \in Requests |-> NoCall]
  /\ marking = {}
  /\ revokedFor = [k \in Prefixes |-> 0]
  /\ deniedFor = [e \in Slots |-> Denial + 1]
  /\ vouchedFor = [k \in Prefixes |-> CacheTTL]

-----------------------------------------------------------------------------
\* The steps of Verify.

\* Parse refuses the string: answered without touching the cache.
RefuseMalformed(r) ==
  /\ req[r].pc \notin InFlight
  /\ req' = [req EXCEPT ![r] = [NoCall EXCEPT !.pc = "rejected"]]
  /\ UNCHANGED <<row, expired, lastUsed, cache, marking, revokedFor, deniedFor, vouchedFor>>

\* Faulty LookUp: a hit extends the entry.
LookUpRenewing(r, n, k, s) ==
  /\ req[r].pc \notin InFlight
  /\ LET e == cache[<<n, k>>] IN
       \/ /\ DeniedByCache(e)
          /\ req' = [req EXCEPT ![r] = Begin(n, k, s, "rejected", deniedFor[<<n, k>>])]
          /\ cache' = [cache EXCEPT ![<<n, k>>].left = NegTTL]
       \/ /\ AcceptedByCache(e, s)
          /\ req' = [req EXCEPT ![r] = Begin(n, k, s, "accepted", revokedFor[k])]
          /\ cache' = [cache EXCEPT ![<<n, k>>].left = CacheTTL]
       \/ /\ ~DeniedByCache(e)
          /\ ~AcceptedByCache(e, s)
          /\ req' = [req EXCEPT ![r] = Begin(n, k, s, "find", 0)]
          /\ UNCHANGED cache
  /\ UNCHANGED <<row, expired, lastUsed, marking, revokedFor, deniedFor, vouchedFor>>

\* Read the cache under RLock and, when it decides, answer from it.
LookUp(r, n, k, s) ==
  /\ req[r].pc \notin InFlight
  /\ LET e == cache[<<n, k>>] IN
       \/ /\ DeniedByCache(e)
          /\ req' = [req EXCEPT ![r] = Begin(n, k, s, "rejected", deniedFor[<<n, k>>])]
       \/ /\ AcceptedByCache(e, s)
          /\ req' = [req EXCEPT ![r] = Begin(n, k, s, "accepted", revokedFor[k])]
       \/ /\ ~DeniedByCache(e)
          /\ ~AcceptedByCache(e, s)
          /\ req' = [req EXCEPT ![r] = Begin(n, k, s, "find", 0)]
  /\ UNCHANGED <<row, expired, lastUsed, cache, marking, revokedFor, deniedFor, vouchedFor>>

\* Faulty Found: revoked rows are found too.
FoundRevokedToo(k) == row[k] # "absent"

\* FindVirtualKeyByPrefix filters on revoked_at and on nothing else.
Found(k) == row[k] = "active"

FindRow(r) ==
  /\ req[r].pc = "find"
  /\ \/ /\ Found(req[r].prefix)
        /\ req' = [req EXCEPT ![r].pc = "check"]
        /\ UNCHANGED deniedFor
     \/ /\ ~Found(req[r].prefix)
        /\ req' = [req EXCEPT ![r].pc = "deny"]
        /\ deniedFor' = [deniedFor EXCEPT ![At(req[r])] = 0]
  /\ UNCHANGED <<row, expired, lastUsed, cache, marking, revokedFor, vouchedFor>>

\* Faulty FindFails: the query is tried again and again.
FindFailsAndRetries(r) ==
  /\ req[r].pc = "find"
  /\ deniedFor' = [deniedFor EXCEPT ![At(req[r])] = 0]
  /\ UNCHANGED <<row, expired, lastUsed, cache, req, marking, revokedFor, vouchedFor>>

\* The query fails: connection error, timeout, or the client hung up and its
\* context was cancelled.  The code does not tell this from "no such key".
FindFails(r) ==
  /\ req[r].pc = "find"
  /\ req' = [req EXCEPT ![r].pc = "deny"]
  /\ deniedFor' = [deniedFor EXCEPT ![At(req[r])] = 0]
  /\ UNCHANGED <<row, expired, lastUsed, cache, marking, revokedFor, vouchedFor>>

\* VerifySecret: argon2id over the presented secret.
CheckSecret(r) ==
  /\ req[r].pc = "check"
  /\ \/ /\ req[r].secret = IssuedSecret[req[r].prefix]
        /\ req' = [req EXCEPT ![r].pc = "admit"]
        /\ UNCHANGED deniedFor
     \/ /\ req[r].secret # IssuedSecret[req[r].prefix]
        /\ req' = [req EXCEPT ![r].pc = "deny"]
        /\ deniedFor' = [deniedFor EXCEPT ![At(req[r])] = 0]
  /\ UNCHANGED <<row, expired, lastUsed, cache, marking, revokedFor, vouchedFor>>

\* Write the positive entry, start the last-used goroutine, answer.
StoreVerified(r) ==
  /\ req[r].pc = "admit"
  /\ cache' = [cache EXCEPT ![At(req[r])] =
                 [kind |-> "verified", hash |-> Hash[req[r].secret], left |-> CacheTTL]]
  /\ marking' = marking \cup {At(req[r])}
  /\ req' = [req EXCEPT ![r] = Answer(req[r], "accepted", revokedFor[req[r].prefix])]
  /\ vouchedFor' = [vouchedFor EXCEPT ![req[r].prefix] = 0]
  /\ UNCHANGED <<row, expired, lastUsed, revokedFor, deniedFor>>

\* cacheNotFound, whatever entry was there, and answer.
StoreNotFound(r) ==
  /\ req[r].pc = "deny"
  /\ cache' = [cache EXCEPT ![At(req[r])] =
                 [kind |-> "notFound", hash |-> NoKey, left |-> NegTTL]]
  /\ req' = [req EXCEPT ![r] = Answer(req[r], "rejected", deniedFor[At(req[r])])]
  /\ UNCHANGED <<row, expired, lastUsed, marking, revokedFor, deniedFor, vouchedFor>>

-----------------------------------------------------------------------------
\* Everything else that touches this state.

\* The detached goroutine: the update succeeds, or it fails or times out.
MarkUsed(n, k) ==
  /\ <<n, k>> \in marking
  /\ marking' = marking \ {<<n, k>>}
  /\ lastUsed' \in {lastUsed, lastUsed \cup {k}}
  /\ UNCHANGED <<row, expired, cache, req, revokedFor, deniedFor, vouchedFor>>

\* A row appears in virtual_keys.
Provision(k) ==
  /\ row[k] = "absent"
  /\ row' = [row EXCEPT ![k] = "active"]
  /\ UNCHANGED <<expired, lastUsed, cache, req, marking, revokedFor, deniedFor, vouchedFor>>

\* The row's expires_at passes.
Expire(k) ==
  /\ row[k] # "absent"
  /\ k \notin expired
  /\ expired' = expired \cup {k}
  /\ UNCHANGED <<row, lastUsed, cache, req, marking, revokedFor, deniedFor, vouchedFor>>

\* RevokeKey: the row is updated; no verifier is told (Invalidate has no
\* caller).  A row that is absent or already revoked answers 404.
Revoke(k) ==
  /\ row[k] = "active"
  /\ row' = [row EXCEPT ![k] = "revoked"]
  /\ UNCHANGED <<expired, lastUsed, cache, req, marking, revokedFor, deniedFor, vouchedFor>>

\* A gateway process dies and comes back: its cache, its calls in flight and
\* its goroutines are gone.
Restart(n) ==
  /\ cache' = [e \in Slots |-> IF e[1] = n THEN NoEntry ELSE cache[e]]
  /\ req' = [r \in Requests |-> IF req[r].node = n THEN NoCall ELSE req[r]]
  /\ marking' = {m \in marking : m[1] # n}
  /\ UNCHANGED <<row, expired, lastUsed, revokedFor, deniedFor, vouchedFor>>

\* One tick of the clock.  Stopwatches stop once past every bound.
Tick ==
  /\ \A r \in Requests : req[r].pc \in Decided => req[r].busy < MaxVerify
  /\ cache' = [e \in Slots |-> Aged(cache[e])]
  /\ req' = [r \in Requests |->
               IF req[r].pc \in Decided
                 THEN [req[r] EXCEPT !.busy = req[r].busy + 1]
                 ELSE req[r]]
  /\ revokedFor' = [k \in Prefixes |->
                      IF row[k] = "revoked" /\ revokedFor[k] <= Grace
                        THEN revokedFor[k] + 1
                        ELSE revokedFor[k]]
  /\ deniedFor' = [e \in Slots |->
                     IF deniedFor[e] <= Denial THEN deniedFor[e] + 1 ELSE deniedFor[e]]
  /\ vouchedFor' = [k \in Prefixes |->
                      IF vouchedFor[k] < CacheTTL THEN vouchedFor[k] + 1 ELSE vouchedFor[k]]
  /\ UNCHANGED <<row, expired, lastUsed, marking>>

-----------------------------------------------------------------------------
\* The next step of the goroutine that runs the call.
Proceed(r) ==
  \/ FindRow(r)
  \/ FindFails(r)
  \/ CheckSecret(r)
  \/ StoreVerified(r)
  \/ StoreNotFound(r)

\* Everything but the clock.
Step ==
  \/ \E r \in Requests : RefuseMalformed(r)
  \/ \E r \in Requests, n \in Nodes, k \in Prefixes, s \in Secrets : LookUp(r, n, k, s)
  \/ \E r \in Requests : Proceed(r)
  \/ \E n \in Nodes, k \in Prefixes : MarkUsed(n, k)
  \/ \E k \in Prefixes : Provision(k) \/ Expire(k) \/ Revoke(k)
  \/ \E n \in Nodes : Restart(n)

Next == Step \/ Tick

Spec == Init /\ [][Next]_vars

\* The Go scheduler runs every goroutine and the clock keeps going; nobody has
\* to present, provision or revoke a key, and nothing has to crash.
FairSpec == Spec /\ WF_vars(Tick) /\ \A r \in Requests : WF_vars(Proceed(r))

-----------------------------------------------------------------------------
\* Properties.

Call == [pc : Phase, node : Nodes \cup {NoKey}, prefix : Prefixes \cup {NoKey},
         secret : Secrets \cup {NoKey}, busy : 0 .. MaxVerify, lag : Nat]

\* Until it is answered, and if it is let in, a call knows its own key.
Attributed ==
  \A r \in Requests :
    req[r].pc \in InFlight \cup {"accepted"} =>
      req[r].node \in Nodes /\ req[r].prefix \in Prefixes /\ req[r].secret \in Secrets

\* The shape of the verifier's state.
TypeOK ==
  /\ row \in [Prefixes -> RowState]
  /\ expired \subseteq Prefixes
  /\ lastUsed \subseteq Prefixes
  /\ cache \in [Slots -> Entry]
  /\ req \in [Requests -> Call]
  /\ marking \subseteq Slots
  /\ revokedFor \in [Prefixes -> Nat]
  /\ deniedFor \in [Slots -> Nat]
  /\ vouchedFor \in [Prefixes -> Nat]
  /\ Attributed

\* A secret other than the issued one is let in only under the issued one's
\* hash, and only for one cache lifetime after the issued one itself passed
\* argon2id: no such entry renews itself, is carried to another process, or
\* comes from a secret that was never checked (Verify, both returns of a
\* context).
VouchedFor(k, s) ==
  \/ s = IssuedSecret[k]
  \/ Hash[s] = Hash[IssuedSecret[k]] /\ vouchedFor[k] < CacheTTL

OnlyVouchedSecrets ==
  [][\A r \in Requests :
       req'[r].pc = "accepted" /\ req'[r] # req[r] =>
         VouchedFor(req'[r].prefix, req'[r].secret)]_vars

\* A revoked key is let in for at most one cache lifetime and one argon2id
\* call after its revocation, in every process: hits do not extend an entry,
\* and a stale write of the cache cannot follow another.
RevocationLag ==
  \A r \in Requests : req[r].pc = "accepted" => req[r].lag <= Grace

\* The issued secret of an active row is turned away only in the shadow of a
\* fresh reason (no row yet, a failed query, a wrong secret under the same
\* prefix) in the same process: a denial answered from the cache never renews
\* itself.
DenialLag ==
  \A r \in Requests :
    req[r].pc = "rejected" /\ req[r].prefix # NoKey => req[r].lag <= Denial

\* Why the three hold.  A live positive entry carries the hash of the issued
\* secret, which passed argon2id no longer ago than the entry has aged, and
\* what is left of it fits into what is left of the grace period; the same
\* budget covers a call between its query and its write.
SecretInv ==
  /\ \A e \in Slots :
       Positive(cache[e]) =>
         /\ cache[e].hash = Hash[IssuedSecret[e[2]]]
         /\ vouchedFor[e[2]] + cache[e].left <= CacheTTL
  /\ \A r \in Requests :
       req[r].pc = "admit" => req[r].secret = IssuedSecret[req[r].prefix]

RevokedInv ==
  /\ \A k \in Prefixes : row[k] # "revoked" => revokedFor[k] = 0
  /\ \A e \in Slots :
       Positive(cache[e]) =>
         /\ row[e[2]] # "absent"
         /\ cache[e].left <= CacheTTL
         /\ revokedFor[e[2]] + cache[e].left <= Grace
  /\ \A r \in Requests :
       req[r].pc \in {"check", "admit"} =>
         /\ row[req[r].prefix] # "absent"
         /\ revokedFor[req[r].prefix] <= req[r].busy

DeniedInv ==
  /\ \A e \in Slots : DeniedByCache(cache[e]) => deniedFor[e] + cache[e].left <= Denial
  /\ \A r \in Requests :
       req[r].pc = "deny" => deniedFor[At(req[r])] <= req[r].busy

\* The invariant of the verifier: inductive, and it implies the three above.
Inv ==
  /\ TypeOK
  /\ SecretInv
  /\ RevokedInv
  /\ DeniedInv
  /\ RevocationLag
  /\ DenialLag

\* docs/wiki/Virtual-Keys.md, "Storage": a key past expires_at is not active.
\* A key that expired before the query of the database is not let in by it.
ExpiredKeyNotAdmitted ==
  [][\A r \in Requests :
       req[r].pc = "find" /\ req[r].prefix \in expired => req'[r].pc # "check"]_vars

\* Every call of Verify is answered (or dies with its process).
EveryCallAnswered ==
  \A r \in Requests : req[r].pc \in InFlight ~> req[r].pc \notin InFlight

Enforced(k) ==
  /\ \A n \in Nodes : ~Positive(cache[<<n, k>>])
  /\ \A r \in Requests : ~(req[r].pc \in {"check", "admit"} /\ req[r].prefix = k)

\* Once a key is revoked, every process forgets it for good without anyone
\* telling it to.
RevocationTakesEffect ==
  \A k \in Prefixes : row[k] = "revoked" ~> []Enforced(k)

Verdict(c) ==
  IF c.pc \in {"accepted", "rejected"} /\ c.prefix # NoKey
    THEN [prefix |-> c.prefix, secret |-> c.secret, verdict |-> c.pc]
    ELSE NoKey

Gate == INSTANCE KeyGate WITH
          Silent <- NoKey,
          Shadow <- CacheTTL,
          answer <- [r \in Requests |-> Verdict(req[r])]

\* The verifier keeps the promise of KeyGate.
GateSpec == Gate!Spec
=============================================================================
