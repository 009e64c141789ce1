----------------------------- MODULE TenantKeys -----------------------------
(***************************************************************************)
(* Master provider keys and virtual keys of several tenants in one         *)
(* database: the admin endpoints that write the former                     *)
(* (gateway/internal/handlers/admin/providers.go), the row-level security  *)
(* that is to keep tenants apart                                           *)
(* (gateway/internal/migrations/0001_init.sql, gateway/internal/store/),   *)
(* and the proxy requests that use them (gateway/internal/handlers/chat.go,*)
(* gateway/internal/keys/resolver.go).                                     *)
(*                                                                         *)
(* Every database access is one transaction and one step; what another     *)
(* tenant or process does falls between them.  A tenant's DEK never        *)
(* changes, so the resolver's DEK cache holds what the company row holds,  *)
(* and a blob sealed under it opens under it and under no other.           *)
(***************************************************************************)
EXTENDS Naturals, Sequences

CONSTANTS
  Tenants,
  Providers,
  Prefixes,          \* virtual keys
  Holder,            \* Holder[k]: the tenant of virtual key k
  AllowedProviders,  \* AllowedProviders[k]: its allow-list; empty allows all
  Requests,          \* concurrent proxy requests
  BypassRLS,         \* the pool connects as owner or superuser of the tables
  MaxKeys,           \* bound: master keys ever created
  Nobody             \* no tenant, prefix, provider

ASSUME TenantAssumption ==
  /\ Holder \in [Prefixes -> Tenants]
  /\ AllowedProviders \in [Prefixes -> SUBSET Providers]
  /\ BypassRLS \in BOOLEAN
  /\ MaxKeys \in Nat
  /\ Nobody \notin Tenants \cup Prefixes \cup Providers

VARIABLES
  keys,     \* the master_provider_keys rows, oldest first
  virtual,  \* the prefixes that have a virtual_keys row
  seen,     \* seen[t]: the rows tenant t's admin was shown
  req       \* req[r]: the proxy request in slot r

vars == <<keys, virtual, seen, req>>

Row == [company : Tenants, provider : Providers, active : BOOLEAN]

Pending == {"resolve", "forward"}

\* gone, newest: what of the tenant's keys was removed, and how new its newest
\* was, when the request arrived; keyed: whether the tenant had a key when one
\* was looked for.
NoRequest == [pc |-> "idle", prefix |-> Nobody, provider |-> Nobody, key |-> 0,
              gone |-> {}, newest |-> 0, keyed |-> FALSE]

Init ==
  /\ keys = <<>>
  /\ virtual = {}
  /\ seen = [t \in Tenants |-> {}]
  /\ req = [r \in Requests |-> NoRequest]

-----------------------------------------------------------------------------
\* Row-level security.

\* The master key rows a transaction of WithTenant(t) is shown.
Visible(t) == {i \in DOMAIN keys : BypassRLS \/ keys[i].company = t}

\* A query on the pool sets no tenant: the policy compares company_id with
\* NULL, or fails to cast '', and hides every row.
VisibleOnPool == IF BypassRLS THEN virtual ELSE {}

\* The newest of a set of rows, 0 if there is none.
Newest(rows) == IF rows = {} THEN 0 ELSE CHOOSE i \in rows : \A j \in rows : j <= i

Active(p) == {i \in DOMAIN keys : keys[i].active /\ keys[i].provider = p}

Own(t) == {i \in DOMAIN keys : keys[i].company = t}

-----------------------------------------------------------------------------
\* The admin API.

\* CreateProvider, EncryptForTenant, CreateMasterProviderKey.
CreateProvider(t, p) ==
  /\ Len(keys) < MaxKeys
  /\ keys' = Append(keys, [company |-> t, provider |-> p, active |-> TRUE])
  /\ UNCHANGED <<virtual, seen, req>>

\* ListMasterProviderKeys.
ListProviders(t) ==
  /\ seen' = [seen EXCEPT ![t] = Visible(t)]
  /\ UNCHANGED <<keys, virtual, req>>

\* Faulty DeleteProvider: the row itself goes.
DeleteProviderRow(t, i) ==
  /\ i \in seen[t] \cap Visible(t)
  /\ keys' = [j \in 1 .. Len(keys) - 1 |-> keys[IF j < i THEN j ELSE j + 1]]
  /\ UNCHANGED <<virtual, seen, req>>

\* DeactivateMasterKey, of a row the admin was shown.
DeleteProvider(t, i) ==
  /\ i \in seen[t] \cap Visible(t)
  /\ keys' = [keys EXCEPT ![i].active = FALSE]
  /\ UNCHANGED <<virtual, seen, req>>

\* A virtual_keys row appears.  CreateUserKey does not write one: it asks the
\* INSERT to return is_active, which the table does not have, and the
\* transaction is rolled back.
Seed(k) ==
  /\ virtual' = virtual \cup {k}
  /\ UNCHANGED <<keys, seen, req>>

-----------------------------------------------------------------------------
\* A proxy request.

Tenant(r) == Holder[req[r].prefix]

\* FindVirtualKeyByPrefix, then the provider allow-list.
Arrive(r, k, p) ==
  /\ req[r].pc \notin Pending
  /\ LET t == Holder[k]
         allowed == AllowedProviders[k] = {} \/ p \in AllowedProviders[k]
     IN req' = [req EXCEPT ![r] =
          [NoRequest EXCEPT
             !.pc = IF k \notin VisibleOnPool THEN "401"
                    ELSE IF ~allowed THEN "403"
                    ELSE "resolve",
             !.prefix = k, !.provider = p,
             !.gone = {i \in Own(t) : ~keys[i].active},
             !.newest = Newest(Own(t) \cap Active(p))]]
  /\ UNCHANGED <<keys, virtual, seen>>

\* Faulty Found: removed keys are found, or the oldest key is.
FoundRemoved(t, p) == Newest({i \in Visible(t) : keys[i].provider = p})

FoundOldest(t, p) ==
  LET rows == Visible(t) \cap Active(p)
  IN  IF rows = {} THEN 0 ELSE CHOOSE i \in rows : \A j \in rows : i <= j

\* FindActiveMasterKey: the newest active row of the provider it is shown.
Found(t, p) == Newest(Visible(t) \cap Active(p))

\* Faulty Opens: one DEK for all tenants.
OpensForAll(t, i) == i # 0

\* DecryptWithDEK: row i opens under the DEK of tenant t.
Opens(t, i) == i \in Own(t)

\* Resolver.MasterKey: 503 if there is no row or it does not open.
Resolve(r) ==
  /\ req[r].pc = "resolve"
  /\ LET t == Tenant(r)
         p == req[r].provider
         i == Found(t, p)
         opens == Opens(t, i)
     IN req' = [req EXCEPT ![r].pc = IF opens THEN "forward" ELSE "503",
                           ![r].key = IF opens THEN i ELSE 0,
                           ![r].keyed = (Own(t) \cap Active(p) # {})]
  /\ UNCHANGED <<keys, virtual, seen>>

\* The call of the provider, with the key resolved above.
Forward(r) ==
  /\ req[r].pc = "forward"
  /\ req' = [req EXCEPT ![r].pc = "served"]
  /\ UNCHANGED <<keys, virtual, seen>>

\* The database fails or the client hangs up.
Drop(r) ==
  /\ req[r].pc \in Pending
  /\ req' = [req EXCEPT ![r] = NoRequest]
  /\ UNCHANGED <<keys, virtual, seen>>

-----------------------------------------------------------------------------
Administer ==
  \/ \E t \in Tenants : \/ ListProviders(t)
                        \/ \E p \in Providers : CreateProvider(t, p)
                        \/ \E i \in DOMAIN keys : DeleteProvider(t, i)
  \/ \E k \in Prefixes : Seed(k)

Proxy ==
  \E r \in Requests : \/ Resolve(r) \/ Forward(r) \/ Drop(r)
                      \/ \E k \in Prefixes, p \in Providers : Arrive(r, k, p)

Next == Administer \/ Proxy

Spec == Init /\ [][Next]_vars

-----------------------------------------------------------------------------
\* Properties.

Request ==
  [pc : {"idle", "401", "403", "503", "served"} \cup Pending,
   prefix : Prefixes \cup {Nobody}, provider : Providers \cup {Nobody}, key : Nat,
   gone : SUBSET Nat, newest : Nat, keyed : BOOLEAN]

\* The shape of the state; a request in flight knows its key and provider.
TypeOK ==
  /\ keys \in Seq(Row)
  /\ virtual \subseteq Prefixes
  /\ seen \in [Tenants -> SUBSET (DOMAIN keys)]
  /\ req \in [Requests -> Request]
  /\ \A r \in Requests :
       req[r].pc \in Pending \cup {"served"} =>
         req[r].prefix \in Prefixes /\ req[r].provider \in Providers

\* The key a request leaves with is its own tenant's, for the provider it
\* asked for, even when the database shows rows of every tenant (MasterKey:
\* another tenant's row does not open under this tenant's DEK).
UpstreamKeyIsOwn ==
  \A r \in Requests :
    req[r].pc \in {"forward", "served"} =>
      /\ req[r].key \in Own(Tenant(r))
      /\ keys[req[r].key].provider = req[r].provider

\* A key removed before a request arrived is never used for it, and neither
\* is one older than the newest the tenant had then, unless that one was
\* removed meanwhile: rotation is "create new, then delete old"
\* (FindActiveMasterKey).
RotationIsRespected ==
  \A r \in Requests :
    req[r].pc \in {"forward", "served"} =>
      /\ req[r].key \notin req[r].gone
      /\ \/ req[r].key >= req[r].newest
         \/ ~keys[req[r].newest].active

\* What a request remembers of the tenant's keys stays true: rows keep their
\* company and provider, and a removed key stays removed.
RequestInv ==
  \A r \in Requests :
    req[r].pc \in Pending \cup {"served"} =>
      /\ \A i \in req[r].gone : i \in DOMAIN keys /\ ~keys[i].active
      /\ req[r].newest # 0 =>
           /\ req[r].newest \in Own(Tenant(r))
           /\ keys[req[r].newest].provider = req[r].provider

\* The inductive invariant behind UpstreamKeyIsOwn and RotationIsRespected.
Inv ==
  /\ TypeOK
  /\ RequestInv
  /\ UpstreamKeyIsOwn
  /\ RotationIsRespected

\* store/master_provider_keys.go on FindActiveMasterKey: it returns the active
\* master key of the tenant, so a tenant that has one is not told 503.
KeyedTenantIsServed == \A r \in Requests : req[r].pc = "503" => ~req[r].keyed
=============================================================================
