------------------------------ MODULE KeyGate ------------------------------
(***************************************************************************)
(* What the gateway promises about virtual keys, with no cache in sight.   *)
(* A presented key is answered "accepted" only if its row is active, or    *)
(* was revoked at most Grace clock ticks ago, and its secret is the one    *)
(* that was issued.  A secret that is merely taken for the issued one,     *)
(* because it has the same hash, may come in after it, for at most Shadow  *)
(* ticks.  Rejecting is always allowed: the promise says who may come in,  *)
(* not who must.                                                           *)
(* VirtualKeyAuth (gateway/internal/auth/middleware.go) implements it.     *)
(***************************************************************************)
EXTENDS Naturals

CONSTANTS Prefixes,      \* lookup prefixes, the unique column key_prefix
          Secrets,       \* secrets a client may present
          IssuedSecret,  \* the secret issued with each prefix
          Hash,          \* the hash of each secret
          Requests,      \* request slots
          Grace,         \* ticks a revoked key may still be accepted
          Shadow,        \* ticks the issued secret may be impersonated after it
          Silent         \* "no answer yet", not an answer

VARIABLES row,         \* row[k]: state of the key's row in the database
          revokedFor,  \* revokedFor[k]: ticks since the row was revoked
          vouchedFor,  \* vouchedFor[k]: ticks since the issued secret last came in
                       \* on its own account
          answer       \* answer[r]: the last answer in slot r

vars == <<row, revokedFor, vouchedFor, answer>>

RowState == {"absent", "active", "revoked"}

Answers == [prefix : Prefixes, secret : Secrets, verdict : {"accepted", "rejected"}]

Acceptable(k, s) ==
  /\ \/ s = IssuedSecret[k]
     \/ Hash[s] = Hash[IssuedSecret[k]] /\ vouchedFor[k] < Shadow
  /\ \/ row[k] = "active"
     \/ row[k] = "revoked" /\ revokedFor[k] <= Grace

Init ==
  /\ row \in [Prefixes -> RowState \ {"revoked"}]
  /\ revokedFor = [k \in Prefixes |-> 0]
  /\ vouchedFor = [k \in Prefixes |-> Shadow]
  /\ answer = [r \in Requests |-> Silent]

Provision(k) ==
  /\ row[k] = "absent"
  /\ row' = [row EXCEPT ![k] = "active"]
  /\ UNCHANGED <<revokedFor, vouchedFor, answer>>

Revoke(k) ==
  /\ row[k] = "active"
  /\ row' = [row EXCEPT ![k] = "revoked"]
  /\ UNCHANGED <<revokedFor, vouchedFor, answer>>

\* Time passes; how much older than its bound anything is cannot be observed.
Age ==
  /\ revokedFor' = [k \in Prefixes |->
                      IF row[k] = "revoked" /\ revokedFor[k] <= Grace
                        THEN revokedFor[k] + 1
                        ELSE revokedFor[k]]
  /\ vouchedFor' = [k \in Prefixes |->
                      IF vouchedFor[k] < Shadow THEN vouchedFor[k] + 1 ELSE vouchedFor[k]]
  /\ UNCHANGED <<row, answer>>

\* Slots are taken by new requests, or their requests are gone.
Withdraw(R) ==
  /\ answer' = [r \in Requests |-> IF r \in R THEN Silent ELSE answer[r]]
  /\ UNCHANGED <<row, revokedFor, vouchedFor>>

\* Letting the issued secret in may open the door for its doubles again.
Respond(r, k, s, v) ==
  /\ v = "accepted" => Acceptable(k, s)
  /\ answer' = [answer EXCEPT ![r] = [prefix |-> k, secret |-> s, verdict |-> v]]
  /\ \/ UNCHANGED vouchedFor
     \/ /\ v = "accepted" /\ s = IssuedSecret[k]
        /\ vouchedFor' = [vouchedFor EXCEPT ![k] = 0]
  /\ UNCHANGED <<row, revokedFor>>

Next ==
  \/ \E k \in Prefixes : Provision(k) \/ Revoke(k)
  \/ Age
  \/ \E R \in SUBSET Requests : Withdraw(R)
  \/ \E r \in Requests, k \in Prefixes, s \in Secrets,
        v \in {"accepted", "rejected"} : Respond(r, k, s, v)

Spec == Init /\ [][Next]_vars
=============================================================================
