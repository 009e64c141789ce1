-------------------------- MODULE TenantKeysProofs --------------------------
(***************************************************************************)
(* Proofs about TenantKeys: its type correctness, and that a request       *)
(* leaves with a key of its own tenant, for the provider it asked for, and *)
(* never with one that rotation had replaced, whatever rows the database   *)
(* shows.                                                                  *)
(***************************************************************************)
EXTENDS TenantKeys, TLAPS, WellFoundedInduction

\* A set of rows that is not empty has a newest one.
LEMMA NewestExists ==
  ASSUME NEW n \in Nat, NEW rows \in SUBSET (1 .. n), rows # {}
  PROVE  /\ Newest(rows) \in rows
         /\ \A j \in rows : j <= Newest(rows)
<1> DEFINE T == {n - i : i \in rows}
<1>0. PICK k \in rows : TRUE
  OBVIOUS
<1>1. T \subseteq Nat /\ n - k \in T
  OBVIOUS
<1> DEFINE R == OpToRel(<, Nat)
<1>2. IsWellFoundedOn(R, Nat)
  BY NatLessThanWellFounded
<1>3. PICK x \in T : \A y \in T : ~(<<y, x>> \in R)
  <2> HIDE DEF R, T
  <2> QED BY <1>1, <1>2, WFMin
<1>4. \A y \in T : ~(y < x)
  BY <1>1, <1>3 DEF OpToRel
<1>5. PICK i \in rows : x = n - i
  BY <1>3
<1>6. \A j \in rows : j <= i
  <2> SUFFICES ASSUME NEW j \in rows PROVE j <= i
    OBVIOUS
  <2>1. ~(n - j < n - i)
    BY <1>4, <1>5
  <2> QED BY <2>1
<1> QED BY <1>5, <1>6 DEF Newest

-----------------------------------------------------------------------------
\* The rows.

\* How the table changes: it only grows, no row changes hands, and a removed
\* key is not brought back.
Persist ==
  /\ DOMAIN keys \subseteq DOMAIN keys'
  /\ \A i \in DOMAIN keys :
       /\ keys'[i].company = keys[i].company
       /\ keys'[i].provider = keys[i].provider
       /\ ~keys[i].active => ~keys'[i].active

LEMMA CreatePersists ==
  ASSUME TypeOK, NEW t \in Tenants, NEW p \in Providers, CreateProvider(t, p)
  PROVE  keys' \in Seq(Row) /\ Persist
<1> DEFINE row == [company |-> t, provider |-> p, active |-> TRUE]
<1>1. row \in Row
  BY DEF Row
<1>2. keys \in Seq(Row) /\ keys' = Append(keys, row)
  BY DEF TypeOK, CreateProvider
<1> HIDE DEF row
<1> QED BY <1>1, <1>2 DEF Persist

LEMMA DeletePersists ==
  ASSUME TypeOK, NEW t \in Tenants, NEW i \in DOMAIN keys, DeleteProvider(t, i)
  PROVE  keys' \in Seq(Row) /\ DOMAIN keys' = DOMAIN keys /\ Persist
<1> DEFINE row == [keys[i] EXCEPT !.active = FALSE]
<1>0. keys \in Seq(Row) /\ keys[i] \in Row
  BY DEF TypeOK
<1>1. /\ row \in Row
      /\ row.company = keys[i].company
      /\ row.provider = keys[i].provider
      /\ row.active = FALSE
  BY <1>0 DEF Row
<1>2. keys' = [keys EXCEPT ![i] = row]
  BY <1>0 DEF DeleteProvider, Row
<1> HIDE DEF row
<1>3. keys' \in Seq(Row) /\ DOMAIN keys' = DOMAIN keys
  BY <1>0, <1>1, <1>2
<1> QED BY <1>0, <1>1, <1>2, <1>3 DEF Persist

LEMMA AdministerPersists ==
  ASSUME TypeOK, Administer
  PROVE  keys' \in Seq(Row) /\ Persist /\ UNCHANGED req
<1>1. CASE UNCHANGED <<keys, req>>
  BY <1>1 DEF TypeOK, Persist
<1>2. ASSUME NEW t \in Tenants, NEW p \in Providers, CreateProvider(t, p)
      PROVE  keys' \in Seq(Row) /\ Persist /\ UNCHANGED req
  BY <1>2, CreatePersists DEF CreateProvider
<1>3. ASSUME NEW t \in Tenants, NEW i \in DOMAIN keys, DeleteProvider(t, i)
      PROVE  keys' \in Seq(Row) /\ Persist /\ UNCHANGED req
  BY <1>3, DeletePersists DEF DeleteProvider
<1> QED BY <1>1, <1>2, <1>3 DEF Administer, ListProviders, Seed

-----------------------------------------------------------------------------
\* Type correctness.

LEMMA TypeInit == Init => TypeOK
BY TenantAssumption DEF Init, TypeOK, NoRequest, Request, Pending

LEMMA TypeAdminister == TypeOK /\ Administer => TypeOK'
<1> SUFFICES ASSUME TypeOK, Administer PROVE TypeOK'
  OBVIOUS
<1>1. keys' \in Seq(Row) /\ Persist /\ UNCHANGED req
  BY AdministerPersists
<1>2. seen' \in [Tenants -> SUBSET (DOMAIN keys')]
  BY <1>1 DEF Administer, ListProviders, CreateProvider, DeleteProvider, Seed,
              TypeOK, Persist, Visible
<1>3. virtual' \subseteq Prefixes
  BY DEF Administer, ListProviders, CreateProvider, DeleteProvider, Seed, TypeOK
<1> QED BY <1>1, <1>2, <1>3 DEF TypeOK

\* What one step of one request has to respect.
LEMMA RequestMoves ==
  ASSUME TypeOK, NEW r \in Requests, NEW q \in Request, req' = [req EXCEPT ![r] = q],
         q.pc \in Pending \cup {"served"} => q.prefix \in Prefixes /\ q.provider \in Providers,
         UNCHANGED <<keys, virtual, seen>>
  PROVE  TypeOK'
BY DEF TypeOK

LEMMA FoundIsNat == ASSUME TypeOK, NEW rows \in SUBSET DOMAIN keys PROVE Newest(rows) \in Nat
<1>1. Len(keys) \in Nat /\ DOMAIN keys = 1 .. Len(keys)
  BY DEF TypeOK
<1>2. CASE rows = {}
  BY <1>2 DEF Newest
<1>3. CASE rows # {}
  <2>1. Newest(rows) \in rows
    BY <1>1, <1>3, NewestExists
  <2> QED BY <1>1, <2>1
<1> QED BY <1>2, <1>3

LEMMA TypeProxy == TypeOK /\ Proxy => TypeOK'
<1> SUFFICES ASSUME TypeOK, NEW r \in Requests,
                    \/ Resolve(r) \/ Forward(r) \/ Drop(r)
                    \/ \E k \in Prefixes, p \in Providers : Arrive(r, k, p)
             PROVE  TypeOK'
  BY DEF Proxy
<1>0. /\ req[r] \in Request
      /\ DOMAIN keys \subseteq Nat
      /\ req[r].pc \in Pending => req[r].prefix \in Prefixes /\ req[r].provider \in Providers
  BY DEF TypeOK
<1>1. ASSUME NEW k \in Prefixes, NEW p \in Providers, Arrive(r, k, p) PROVE TypeOK'
  <2> DEFINE t == Holder[k]
             newest == Newest(Own(t) \cap Active(p))
             gone == {i \in Own(t) : ~keys[i].active}
  <2>1. newest \in Nat
    BY FoundIsNat DEF Own, Active
  <2>2. gone \subseteq Nat
    BY <1>0 DEF Own
  <2>3. \E pc \in {"401", "403", "resolve"} :
          req' = [req EXCEPT ![r] =
                    [NoRequest EXCEPT !.pc = pc, !.prefix = k, !.provider = p, !.gone = gone,
                                      !.newest = newest]]
    <3> DEFINE allowed == AllowedProviders[k] = {} \/ p \in AllowedProviders[k]
               pc == IF k \notin VisibleOnPool THEN "401"
                     ELSE IF ~allowed THEN "403"
                     ELSE "resolve"
    <3> WITNESS pc \in {"401", "403", "resolve"}
    <3> QED BY <1>1 DEF Arrive
  <2> HIDE DEF newest, gone
  <2>4. PICK pc \in {"401", "403", "resolve"} :
          req' = [req EXCEPT ![r] =
                    [NoRequest EXCEPT !.pc = pc, !.prefix = k, !.provider = p, !.gone = gone,
                                      !.newest = newest]]
    BY <2>3
  <2> DEFINE q == [NoRequest EXCEPT !.pc = pc, !.prefix = k, !.provider = p, !.gone = gone,
                                    !.newest = newest]
  <2>5. /\ q \in Request
        /\ q.prefix = k
        /\ q.provider = p
    BY <2>1, <2>2 DEF NoRequest, Request, Pending
  <2>7. req' = [req EXCEPT ![r] = q]
    BY <2>4
  <2>6. UNCHANGED <<keys, virtual, seen>>
    BY <1>1 DEF Arrive
  <2> HIDE DEF q
  <2> QED BY <2>5, <2>6, <2>7, RequestMoves
<1>2. CASE Resolve(r)
  <2> DEFINE i == Found(Tenant(r), req[r].provider)
             opens == Opens(Tenant(r), i)
             keyed == (Own(Tenant(r)) \cap Active(req[r].provider) # {})
             q == [req[r] EXCEPT !.pc = IF opens THEN "forward" ELSE "503",
                                 !.key = IF opens THEN i ELSE 0,
                                 !.keyed = keyed]
  <2>1. i \in Nat
    BY FoundIsNat DEF Found, Visible, Active
  <2>2. req' = [req EXCEPT ![r] = q]
    BY <1>0, <1>2 DEF Resolve, Request
  <2> HIDE DEF i, opens
  <2>3. /\ q \in Request
        /\ q.prefix = req[r].prefix
        /\ q.provider = req[r].provider
    BY <1>0, <2>1 DEF Request, Pending
  <2> HIDE DEF q
  <2>4. UNCHANGED <<keys, virtual, seen>>
    BY <1>2 DEF Resolve
  <2> QED BY <1>0, <1>2, <2>2, <2>3, <2>4, RequestMoves DEF Resolve, Pending
<1>3. CASE Forward(r)
  <2> DEFINE q == [req[r] EXCEPT !.pc = "served"]
  <2>1. /\ q \in Request
        /\ q.prefix = req[r].prefix
        /\ q.provider = req[r].provider
        /\ req' = [req EXCEPT ![r] = q]
    BY <1>0, <1>3 DEF Forward, Request
  <2> HIDE DEF q
  <2> QED BY <1>0, <1>3, <2>1, RequestMoves DEF Forward, Pending
<1>4. CASE Drop(r)
  <2>1. NoRequest \in Request /\ NoRequest.pc = "idle"
    BY DEF NoRequest, Request
  <2> QED BY <1>4, <2>1, RequestMoves DEF Drop, Pending
<1> QED BY <1>1, <1>2, <1>3, <1>4

LEMMA TypeNext == TypeOK /\ [Next]_vars => TypeOK'
<1>1. TypeOK /\ UNCHANGED vars => TypeOK'
  BY DEF vars, TypeOK
<1> QED BY <1>1, TypeAdminister, TypeProxy DEF Next

\* A request in flight always knows its key and its provider, and an admin is
\* shown rows that exist.
THEOREM TypeCorrect == Spec => []TypeOK
BY TypeInit, TypeNext, PTL DEF Spec

-----------------------------------------------------------------------------
\* What requests resolve.

\* Row i of a table is one that call c may use.
Fits(table, c, i) ==
  /\ i \in DOMAIN table
  /\ table[i].company = Holder[c.prefix]
  /\ table[i].provider = c.provider

\* The part of Inv about one call.
Sound(table, c) ==
  /\ c.pc \in Pending \cup {"served"} =>
       /\ \A i \in c.gone : i \in DOMAIN table /\ ~table[i].active
       /\ c.newest # 0 => Fits(table, c, c.newest)
  /\ c.pc \in {"forward", "served"} =>
       /\ Fits(table, c, c.key)
       /\ c.key \notin c.gone
       /\ c.key >= c.newest \/ ~table[c.newest].active

LEMMA InvIsSound == Inv <=> TypeOK /\ \A r \in Requests : Sound(keys, req[r])
BY DEF Inv, RequestInv, UpstreamKeyIsOwn, RotationIsRespected, Sound, Fits, Own, Tenant

LEMMA InvIsSoundNext == Inv' <=> TypeOK' /\ \A r \in Requests : Sound(keys', req'[r])
BY DEF Inv, RequestInv, UpstreamKeyIsOwn, RotationIsRespected, Sound, Fits, Own, Tenant

\* The admin API cannot make a request unsound: rows persist.
LEMMA PersistKeepsSound ==
  ASSUME TypeOK, Persist, NEW r \in Requests, Sound(keys, req[r])
  PROVE  Sound(keys', req[r])
<1> DEFINE c == req[r]
<1>1. /\ c.newest \in Nat
      /\ c.key \in Nat
      /\ DOMAIN keys \subseteq Nat \ {0}
  BY DEF TypeOK, Request
<1> HIDE DEF c
<1>2. \A i : Fits(keys, c, i) => Fits(keys', c, i)
  BY DEF Persist, Fits
<1>3. c.pc \in Pending \cup {"served"} =>
        /\ \A i \in c.gone : i \in DOMAIN keys' /\ ~keys'[i].active
        /\ c.newest # 0 => Fits(keys', c, c.newest)
  BY <1>2 DEF Sound, Persist, c
<1>4. ASSUME c.pc \in {"forward", "served"}
      PROVE  c.key >= c.newest \/ ~keys'[c.newest].active
  <2>1. CASE c.newest = 0
    BY <1>1, <2>1
  <2>2. CASE c.newest # 0
    <3>1. c.newest \in DOMAIN keys
      BY <1>4, <2>2 DEF Sound, Fits, Pending, c
    <3> QED BY <1>4, <3>1 DEF Sound, Persist, c
  <2> QED BY <2>1, <2>2
<1>5. c.pc \in {"forward", "served"} => Fits(keys', c, c.key) /\ c.key \notin c.gone
  BY <1>2 DEF Sound, c
<1> QED BY <1>3, <1>4, <1>5 DEF Sound, c

\* FindActiveMasterKey, followed by the decryption, finds a key that is
\* active, the tenant's own, for the provider, and as new as any such key.
LEMMA ResolvesTheNewest ==
  ASSUME TypeOK, NEW t \in Tenants, NEW p \in Providers, Opens(t, Found(t, p))
  PROVE  /\ Found(t, p) \in Own(t) \cap Active(p)
         /\ \A i \in Own(t) \cap Active(p) : i <= Found(t, p)
<1> DEFINE rows == Visible(t) \cap Active(p)
<1>1. /\ Len(keys) \in Nat
      /\ DOMAIN keys = 1 .. Len(keys)
      /\ rows \in SUBSET (1 .. Len(keys))
      /\ Own(t) \cap Active(p) \subseteq rows
  BY DEF TypeOK, Visible, Active, Own
<1>2. rows # {}
  BY <1>1 DEF Opens, Found, Newest, Own
<1>3. /\ Newest(rows) \in rows
      /\ \A j \in rows : j <= Newest(rows)
  <2> HIDE DEF rows
  <2> QED BY <1>1, <1>2, NewestExists
<1> QED BY <1>1, <1>3 DEF Found, Opens

LEMMA ArriveIsSound ==
  ASSUME TypeOK, NEW r \in Requests, NEW k \in Prefixes, NEW p \in Providers, Arrive(r, k, p)
  PROVE  Sound(keys, req'[r])
<1> DEFINE t == Holder[k]
           rows == Own(t) \cap Active(p)
           gone == {i \in Own(t) : ~keys[i].active}
           c == req'[r]
<1>1. /\ c.prefix = k
      /\ c.provider = p
      /\ c.gone = gone
      /\ c.newest = Newest(rows)
      /\ c.pc \in {"401", "403", "resolve"}
  BY DEF Arrive, NoRequest, TypeOK
<1>2. Newest(rows) # 0 => Newest(rows) \in rows
  <2>1. Len(keys) \in Nat /\ rows \in SUBSET (1 .. Len(keys))
    BY DEF TypeOK, Own
  <2> HIDE DEF rows
  <2>2. CASE rows = {}
    BY <2>2 DEF Newest
  <2>3. CASE rows # {}
    BY <2>1, <2>3, NewestExists
  <2> QED BY <2>2, <2>3
<1>3. c.newest # 0 => Fits(keys, c, c.newest)
  BY <1>1, <1>2 DEF Fits, Own, Active
<1>4. \A i \in c.gone : i \in DOMAIN keys /\ ~keys[i].active
  BY <1>1 DEF Own
<1> HIDE DEF c
<1> QED BY <1>1, <1>3, <1>4 DEF Sound, c

LEMMA ResolveIsSound ==
  ASSUME TypeOK, NEW r \in Requests, Sound(keys, req[r]), Resolve(r)
  PROVE  Sound(keys, req'[r])
<1> DEFINE t == Tenant(r)
           p == req[r].provider
           i == Found(t, p)
           c == req[r]
           d == req'[r]
<1>1. t \in Tenants /\ p \in Providers /\ c \in Request
  BY TenantAssumption DEF Resolve, TypeOK, Tenant, Pending
<1>2. /\ d.prefix = c.prefix
      /\ d.provider = p
      /\ d.gone = c.gone
      /\ d.newest = c.newest
      /\ d.pc = "forward" => Opens(t, i) /\ d.key = i
      /\ d.pc \in {"forward", "503"}
  BY <1>1 DEF Resolve, TypeOK, Request
<1>3. /\ \A j \in c.gone : j \in DOMAIN keys /\ ~keys[j].active
      /\ c.newest # 0 => Fits(keys, c, c.newest)
      /\ c.newest \in Nat
  BY <1>1 DEF Sound, Resolve, Pending, Request
<1>4. Opens(t, i) =>
        /\ i \in Own(t) \cap Active(p)
        /\ \A j \in Own(t) \cap Active(p) : j <= i
  BY <1>1, ResolvesTheNewest
<1>5. t = Holder[c.prefix] /\ p = c.provider
  BY DEF Tenant
<1>6. c.newest # 0 => Fits(keys, d, c.newest)
  BY <1>2, <1>3 DEF Fits
<1> HIDE DEF t, p, i, c, d
<1>7. ASSUME Opens(t, i)
      PROVE  /\ Fits(keys, d, i)
             /\ i \notin c.gone
             /\ i >= c.newest \/ ~keys[c.newest].active
  <2>1. i \in Own(t) /\ i \in Active(p)
    BY <1>4, <1>7
  <2>2. Fits(keys, d, i) /\ keys[i].active /\ i \in Nat
    BY <1>2, <1>5, <2>1 DEF Fits, Own, Active, TypeOK
  <2>3. CASE c.newest = 0
    BY <1>3, <2>2, <2>3
  <2>4. CASE c.newest # 0 /\ keys[c.newest].active
    <3>1. c.newest \in Own(t) \cap Active(p)
      BY <1>3, <1>5, <2>4 DEF Fits, Own, Active
    <3> QED BY <1>3, <1>4, <1>7, <2>2, <3>1
  <2> QED BY <1>3, <2>2, <2>3, <2>4
<1> QED BY <1>2, <1>3, <1>6, <1>7 DEF Sound, Pending, d

LEMMA InvNext == Inv /\ [Next]_vars => Inv'
<1> SUFFICES ASSUME TypeOK, \A r \in Requests : Sound(keys, req[r]), [Next]_vars
             PROVE  TypeOK' /\ \A r \in Requests : Sound(keys', req'[r])
  BY InvIsSound, InvIsSoundNext
<1>1. TypeOK'
  BY TypeNext
<1>2. CASE Administer
  <2>1. Persist /\ req' = req
    BY <1>2, AdministerPersists
  <2> QED BY <1>1, <2>1, PersistKeepsSound
<1>3. CASE UNCHANGED vars
  BY <1>1, <1>3 DEF vars
<1>4. ASSUME NEW r \in Requests,
             \/ Resolve(r) \/ Forward(r) \/ Drop(r)
             \/ \E k \in Prefixes, p \in Providers : Arrive(r, k, p)
      PROVE  \A s \in Requests : Sound(keys', req'[s])
  <2>1. keys' = keys
    BY <1>4 DEF Resolve, Forward, Drop, Arrive
  <2>2. \A s \in Requests : s # r => req'[s] = req[s]
    BY <1>4 DEF Resolve, Forward, Drop, Arrive, TypeOK
  <2>3. CASE Resolve(r)
    BY <2>1, <2>2, <2>3, ResolveIsSound
  <2>4. CASE Forward(r)
    <3> DEFINE c == req[r]
               d == req'[r]
    <3>1. /\ c.pc = "forward"
          /\ d = [c EXCEPT !.pc = "served"]
          /\ c \in Request
      BY <2>4 DEF Forward, TypeOK
    <3>2. /\ d.prefix = c.prefix /\ d.provider = c.provider
          /\ d.gone = c.gone /\ d.newest = c.newest
          /\ d.key = c.key
      BY <3>1 DEF Request
    <3>3. Sound(keys, c)
      OBVIOUS
    <3> HIDE DEF c, d
    <3>4. Sound(keys, d)
      BY <3>1, <3>2, <3>3 DEF Sound, Fits, Pending
    <3> QED BY <2>1, <2>2, <3>4 DEF d
  <2>5. CASE Drop(r)
    <3>1. req'[r].pc = "idle"
      BY <2>5 DEF Drop, TypeOK, NoRequest
    <3>2. Sound(keys, req'[r])
      BY <3>1 DEF Sound, Pending
    <3> QED BY <2>1, <2>2, <3>2
  <2>6. CASE \E k \in Prefixes, p \in Providers : Arrive(r, k, p)
    BY <2>1, <2>2, <2>6, ArriveIsSound
  <2> QED BY <1>4, <2>3, <2>4, <2>5, <2>6
<1> QED BY <1>1, <1>2, <1>3, <1>4 DEF Next, Proxy

THEOREM Invariance == Spec => []Inv
<1>1. Init => Inv
  BY TypeInit DEF Init, Inv, RequestInv, UpstreamKeyIsOwn, RotationIsRespected, NoRequest, Pending
<1> QED BY <1>1, InvNext, PTL DEF Spec

\* Whatever rows the database shows, and whoever else adds or removes keys, a
\* request leaves with a key of its own tenant and its own provider.
THEOREM OwnKeyUpstream == Spec => []UpstreamKeyIsOwn
<1>1. Inv => UpstreamKeyIsOwn
  BY DEF Inv
<1> QED BY <1>1, Invariance, PTL

\* Once "create new, then delete old" is done, no later request uses the old
\* key.
THEOREM RotationHolds == Spec => []RotationIsRespected
<1>1. Inv => RotationIsRespected
  BY DEF Inv
<1> QED BY <1>1, Invariance, PTL
=============================================================================
