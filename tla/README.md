# Verification of LeakShield

TLA+ models of LeakShield (gateway in Go, inspector in Python, panel in Next.js),
the TLC runs that check them on small instances, and TLAPS proofs of what holds
for every instance. Paths are relative to the repository's root (`gateway/...`
stands for `gateway/internal/...`, `inspector/...` for
`inspector/src/leakshield_inspector/...`, `panel/...` is as it is). `PROJECT.json` gives, for every
definition that models code, the file, lines and symbol it models.

## 1. The system

    client --> chat proxy (serve :8080) --> provider (OpenAI, Anthropic, Google, Azure)
                 |  VirtualKeyVerifier --> virtual_keys
                 |  keys.Resolver      --> master_provider_keys, companies (DEK), KEK file
                 |  inspector (gRPC; today a placeholder in chat.go)
    browser --> panel (pages, routes under app/api) --> admin API (admin :8090)
                                                 --> companies, admins, users, keys
    inspector: servicer -> registry -> hybrid strategy -> caches, recognizers, judge

| Component | State | Operations | Hard behaviour |
|---|---|---|---|
| Virtual key verification (`gateway/auth`, `store/virtual_keys.go`) | cache of verified and unknown prefixes per process; the rows | Verify (cache, query, argon2id, store), MarkVirtualKeyUsed, Revoke, expiry, restart | a cache that nothing invalidates; query, hash and store of concurrent calls interleave with a revocation; denials are cached after failed queries, too |
| Inspector (`inspector/server.py`, `strategies/`, `cache.py`) | semaphore, verdict cache, compiled-category cache | InspectPrompt, InspectStreamWindow, cancel, shutdown | coroutines suspended in line or at the judge; caches keyed by less than they hold; the judge fails, stalls, replies nonsense |
| Recognizers, categories (`inspector/recognizers`, `categories.py`) | none | compile, evaluate | pure; regexes that do not compile |
| Judge backends (`inspector/backends`) | HTTP client | chat | timeouts, errors of a retry |
| First run (`gateway/server/bootstrap.go`, `crypto/envelope.go`, `handlers/admin/auth.go`, `store/companies.go`) | KEK file, session-secret file, companies and admins | initKEK, initJWTSecret, PostBootstrap, PostLogin | two processes on one disk, stat-then-write, a crash inside os.WriteFile, a form submitted twice |
| Master provider keys (`store/master_provider_keys.go`, `keys/resolver.go`, `handlers/admin/providers.go`, `migrations/0001_init.sql`) | key rows, row-level security, DEK cache | create, list, deactivate, resolve | rotation under traffic; isolation that depends on the database role |
| Chat pipeline (`handlers/chat.go`) | one request | authenticate, allow-list, key, body, extract, inspect, mask, forward or stream, audit | five ways a stream ends, errors that skip inspection |
| Provider adapters, SSE (`gateway/provider`) | none, a scanner | Extract, Inject, ReadSSE | inverse functions that are not quite inverse; events split over reads |
| Admin sessions (`gateway/jwt`, `panel/auth.ts`) | HS256 tokens, the session cookie | Sign, Verify, sign in and out | a panel session that outlives its token |
| Users, audit logs (`store/users.go`, `store/audit_logs.go`) | rows | single statements | an address is taken by a row whose creator never heard of it |
| Panel routes (`panel/lib/admin-proxy.ts`, `panel/app/api`) | calls under way | proxy, abort timer, own checks | a write that is committed after its caller gave up; a 2xx whose body breaks off |
| Connecting a provider (`panel/components/onboarding/step-2-provider.tsx`) | form, test result, list, one call | pick, edit, test, save, list | the form stays open while it is tested; listings that answer in the wrong order |
| First user and key (`step-3-user*.tsx`) | form, one call, the key shown | create a teammate, issue, reveal, copy, continue | two calls behind one click; a plaintext that is in one answer only; retries |
| Setup, sign-in, navigation (`step-1-create-admin.tsx`, `panel/app`, `auth.ts`) | page, session, form, submissions | submit, sign in, redirects by a probe | two calls behind one submission, the first of which may be carried out late |
| Live log (`panel/hooks/use-log-stream.ts`, `components/logs/live-log-table.tsx`) | EventSource, buffer, pause | connect, message, scroll, render | entries between a scroll and the rendering that pauses; a connection that breaks |
| Other panel pages (policy and category editors, analytics, tenant switcher) | local or static | - | none: they call nothing |
| Configuration, health, worker, migrations | environment | parse, probe | none |
| Deployment, documentation, CI | - | - | - |

What makes each correct:

- *Verification*: the issued secret of a row is let in, and a secret that collides
  with it in the cache's 64-bit hash in its shadow only; a revocation and a denial are
  outlived by the cache for a bounded time only, whatever traffic there is; every call
  ends.
- *Inspector*: what a built-in recognizer blocks stays blocked; what must be
  judged is not allowed unjudged; a verdict is one on the same text, company and
  policy version; permits come back.
- *First run*: what is stored under the KEK, or signed with the session secret,
  stays good over crashes and in all processes; the system starts.
- *Master keys*: a request leaves with its own tenant's current key.
- *Pipeline*: nothing is forwarded after a refusal, nothing unmasked after MASK; the
  audit line is true; every request ends.
- *Adapters*: what is written back is what was extracted, in its place, and nothing
  else changes; the provider finds one credential.
- *Panel*: the user is told the truth about a write, whatever the timers do; what
  an alert says is about what the page shows; a key is shown once and not passed
  by; a session is the submitter's own; every click ends.
- *Live log*: the rows are the newest entries, in order; live means connected.
- *Streams*: whole events, unchanged, in order, and an incomplete answer is never
  taken for a complete one by the gateway.

## 2. Modules

| Module | Models | Used by |
|---|---|---|
| `KeyGate` | abstract: a gate without a cache that may lag behind a revocation | `VirtualKeyAuth` (`Gate`, a refinement mapping) |
| `VirtualKeyAuth` | Verify and its cache in several processes | `MCVirtualKeyAuth`, `VirtualKeyAuthProofs` |
| `Inspector` | servicer, hybrid strategy, both caches, judge outcomes | `MCInspector`, `InspectorProofs` |
| `FirstRun` | start-up, bootstrap, login | `MCFirstRun`, `FirstRunProofs` |
| `PassThrough` | abstract: a stream that reaches the client in whole events, unchanged | `EventRelay` (`P`, a refinement mapping) |
| `EventRelay` | `SSEReader.Next` and the loop of `handleStream` | `ChatPipeline` (`R`, on its variables), `ChatPipelineProofs` |
| `ProviderBody` | operators: what the four adapters extract, inject and send | `ChatPipeline` |
| `ChatPipeline` | one request through `ChatHandlerWithDeps` | `MCChatPipeline`, `ChatPipelineProofs` |
| `TenantKeys` | provider keys, row-level security, resolution | `MCTenantKeys`, `TenantKeysProofs` |
| `AdminProxy` | operators: what the panel's proxy makes of a reply | `ProviderStep`, `KeyStep` |
| `ProviderStep` | step 2 of the onboarding, its routes, the gateway's handlers | `MCProviderStep`, `ProviderStepProofs` |
| `OneTimeKey` | abstract: a plaintext that is shown once and copied before one goes on | `KeyStep` (`OTK`, a refinement mapping) |
| `KeyStep` | step 3 of the onboarding, its routes, the gateway's handlers | `MCKeyStep`, `KeyStepProofs` |
| `SetupPages` | setup, sign-in, the wizard, the pages behind a session | `Panel` |
| `LogStream` | the hook, the table and the route of the live log | `Panel` |
| `Panel` | the pages and the stream in one browser tab | `MCPanel`, `PanelProofs` |

Operators with a comment "Faulty X:" stand before the definition X of the code.
No specification uses them. Each is X with a plausible bug, and putting it in the
place of X makes the property named for it in `PROJECT.json` fail: this is how we
know that the property watches X.

### VirtualKeyAuth

A call of `VirtualKeyVerifier.Verify` is one record `req[r]`; its phase says
between which two shared accesses it is: `find` (before the query), `check`
(argon2id on the row that was found), `admit` and `deny` (before the cache is
written). `LookUp` is everything under the read lock, `FindRow`/`FindFails` the
query, `CheckSecret` the hash, `StoreVerified`/`StoreNotFound` the write under the
lock together with the answer. `MarkUsed` is the goroutine that updates
`last_used_at`. `Provision`, `Revoke`, `Expire` change the row; `Restart` loses the
cache and the calls of a process. `Tick` is the clock: it ages entries, and a call
may be in flight for at most `MaxVerify` ticks after the database has answered
(the hash and a map write; a time bound of the environment that the code does not
enforce, stated here because no lag could be bounded without one).

History variables: `revokedFor[k]` and `deniedFor[e]` count ticks since a
revocation and since the last fresh reason to deny, capped just above the bound
they are compared with; `vouchedFor[k]` those since the issued secret last passed
argon2id.

`Hash` is `hashSecret`, 64 bits of FNV-1a: any function of the secrets. A cache entry
holds the hash of the secret that made it, and a hit (`AcceptedByCache`) compares
nothing else, so a secret that collides with the issued one is let in without argon2id
while the entry lives. `OnlyVouchedSecrets` says how far that goes: the same hash, and
less than `CacheTTL` ticks after the issued secret passed. `KeyGate` has the same
shadow (`Acceptable`), and no other.

### Inspector

The process is one asyncio event loop, so everything between two suspension
points (a wait for the semaphore, a wait for the backend) is one action.
`AnswerMock`, `AnswerCached` and `Inspect` are what follows a permit. `Inspect`
parses the categories into a list at some free address, looks it up in
`_compiled_cache` by that address and its length, evaluates the rules and either
answers or goes to the judge. `JudgeReplies`, `JudgeUnavailable`,
`JudgeUnparseable` (asked once more), `JudgeRaises` are the outcomes. `Cancel` is a
client that hangs up or a deadline, in line or inside. `Evict` is the time to live
of a verdict, `Signal`, `GraceOver`, `Close`, `Boot` the life of the process.

A text is what the recognizers make of it (severities that hit, doubt); a message list
is its joined user text plus a "shape", everything the join leaves out. A policy is a
row of `dlp_policies` in one of its versions; its `scope` is all the verdict cache's
key has of it, the company and the version number (`Key`), and two policies may have
the same scope, as the schema lets a company have several, each of which starts at
version 1. The severity of a category and the reply of the judge may be ESCALATE,
which `_combine` makes ALLOW of (`Strictest`). A verdict also carries how it came
about (`rules`, `judged`, `outage`), which the code can derive from its layers and
which nothing but properties and `is_cacheable` reads. `rules` is the policy whose
compiled categories were evaluated, the request's own or what `_compile` took for
them. `Outcomes` is what a request can come to under given categories;
`AnswerIsInScope` holds every answer, cached or not, against that.

### FirstRun

`proc[p]` is the start-up of process p step by step: every system call that reads
or writes one of the two files is a step, and `os.WriteFile` is two (create with
truncation, write). A secret is named after its maker. `Makers` are the processes
started without `LEAKSHIELD_PROD`, which generate what is missing; the others
exit. `Install` is an operator who mounts a secret while no maker runs. `Submit`,
`CountAdmins`, `Insert`, `Fail`, `Sign`, `GiveUp` are `POST /auth/bootstrap` as seen
from the gateway and from the panel that waits five seconds; `Login` is
`POST /auth/login`. `Crash` may come at any step and takes the calls of the
process along.

### TenantKeys

`keys` are the `master_provider_keys` rows, oldest first; `Visible(t)` is what a
transaction of `WithTenant(t)` sees, all rows when the pool's role owns the tables
(`BypassRLS`: `docker-compose.yml` connects as the owner) and the tenant's own
otherwise. `Found` is `FindActiveMasterKey`, `Opens` the AES-GCM open under the
tenant's DEK: every other tenant's blob fails its tag. `Arrive`, `Resolve`,
`Forward`, `Drop` are the request. `gone` and `newest` remember what the tenant's
keys were when the request arrived.

### ProviderBody, EventRelay, ChatPipeline

`ChatPipeline` takes one request through `ChatHandlerWithDeps`; `at` is the place in
the handler, and every early return is an action of its own that ends in `Refuse`.
Whether the key is accepted and a master key found are choices: `VirtualKeyAuth`
and `TenantKeys` model how they are made. So is the verdict; `chat.go:306` has a
placeholder that always allows, but the handler handles all three, and so does the
model. `Masked` is what an inspector that masks gives back: as many messages, of
the same roles.

`ProviderBody` has one operator per idea of the adapters, with the four providers as
cases: `Extract` (with Anthropic's and Google's system prompt ahead of the messages),
`Inject` (`SystemShare` and `InjectFails` are the count that has to fit, and the keys
that have to be there), `MergeText` (text of several blocks goes back into the first
text block), `Credentials` (which of the four slots of a request hold what). JSON is a
record of the fields the adapters read, text a sequence of pieces that are clean,
secret or redacted. Extraction decodes into structs, where `encoding/json` takes a key
in any mix of capitals; injection looks keys up in a map. So a body says which of its
top-level keys are the adapter's own (`exact`), and a content what stands under
another spelling of its key (`stray`): that is read where nothing is under the exact
one, and stays beside what is written. No object has one key in two spellings
(`OneSpelling`). A missing role is decoded as the empty one. The adapters' loops over
the blocks of a content are recursive functions on the number of blocks done
(`Joined`, the `out` of `MergeText`). `Bodies` are the records JSON can be decoded to
(a string is one text, nothing has no blocks), of any number of messages and blocks;
the runs enumerate some.

`EventRelay` is the stream. An answer is a sequence of lines, data or blank; the
provider sends and stops, the client leaves and the context ends at any time.
`Next` of the reader is three kinds of steps: the look at the context
(`Next_CheckContext`), a line (`Next_ReadLine`), and the end or an error
(`Next_AtEnd`, `Next_Fails`, which is also what the end of the context comes to, as
the connection is bound to it). `WriteEvent` is the write and flush. After the end
of the context, the end of the stream and the error may both be ready: either may
be seen first, as in the code. `ChatPipeline` instantiates it on the same variables;
`Stream` is a step of it together with what the handler does after the loop.

`P` in `EventRelay` maps the relay to `PassThrough`, which has no reader and no
buffer: there, an event appears at the client at once.

### AdminProxy, ProviderStep, KeyStep

A call of the browser passes three places: `panel` (the route has it), `gateway`,
and `committed` where it writes; then it is `answered` and the handler's code after
its `await` is one action (`TestAnswered`, `SaveAnswered`, `CreateAnswered`,
`IssueAnswered`). `Proxied` is `proxyToGateway`: a whole reply and an error keep
their status, a 2xx whose body breaks off becomes `{}`, an abort and a 404 become
the demo answer. `Aborted` is the eight-second timer, or a gateway that is down;
a write that was under way goes to `late`, from where `LateWrite` commits it or
forgets it. `FetchRejected` is the browser's own connection breaking: the rejection
escapes the transition and the page is gone. `Visit` is a reload.

`ProviderStep` keeps the form as texts that are empty, blank or words, for
`isFormValid` and `buildConfig` tell those apart. `Pick`, `Update`, `UpdateAzureRow`,
`AddAzureRow`, `RemoveAzureRow` and `ToggleSkip` are the handlers of the form, at any
time, as it is never disabled. `list` and `reads` are `ProviderList`: an effect per
refresh signal, each a listing read on the gateway (`ListRead`) and answered
(`ListAnswered`), dropped if its signal is old. History variables: `told[n]` is what
the user was told of save n, `sent` and `tested` the payloads of the call and of
the result, `drifted` that the form changed under a test or lost a row.

`KeyStep` is both tabs of step 3. `HandleAddTeammate` is one click and two calls:
`CreateAnswered` goes on to the issue with the id it got. Keys are numbered as they
are issued; `Fate` derives from the page and the call where a plaintext is, and
`OTK` maps it to `OneTimeKey`. `warned` remembers the owners of whose calls the user
saw a failure, or left.

### SetupPages, LogStream, Panel

`SetupPages` is one tab: `Open` an address, `Follow` a link, submit. A page behind a
session asks its layout, the root and the sign-in page probe the gateway
(`SetupStatus`; to both, one that cannot be reached is a fresh one), the wizard asks
nothing (`Wizard`). A submission of step 1 is a bootstrap (`BootstrapRoute`,
`CountAdmins`, `Insert`, `Replied` or `Aborted`) and, once that is answered, a
sign-in (`Authorize`). `CountAdmins` and `Insert` are the two transactions of
`PostBootstrap`, so submissions given up on may still count and insert (`LateSub`).
`FirstRun` models the same endpoint from the side of the secrets; here it is what the
page's user sees of it.

`LogStream` numbers entries as the feed sends them. `Scroll`, `Render` and `Message`
are separate steps: the hook's ref has the old pause until the table renders.
`Taken` is what the handler makes of an entry. `heard` remembers the well-formed ones
that arrived while the ref did not say paused, whether the handler took them or not.
`Panel` mounts and unmounts the stream with its page (`Mounts`) and connects it with
the token of the session of the moment.

## 3. Runs

| Run | Instance | What it shows |
|---|---|---|
| `vk` | 1 process, 2 calls, 1 prefix, 3 secrets, CacheTTL 2, NegTTL 2, MaxVerify 1 | who gets in, both lags, refinement of `KeyGate`, both liveness properties |
| `inspector` | 2 coroutines, 2 permits, 3 policies of 2 companies, 3 texts, 2 shapes, 2 addresses, symmetric | blocks, no unjudged ALLOW, no cached blind block, how far the caches mix requests up |
| `inspector_ends` | 2 coroutines, 1 permit, 5 policies, 1 address | permits come back, every inspection ends |
| `in_compiled` | 2 tenants with equally long category lists | violated: another tenant's compiled categories |
| `chat` | 1 request of 1067, 4 providers, all verdicts, answers of up to 4 lines | refusals, masking, credentials, audit, relay, end |
| `fr_sole` | 2 processes, one of them a maker, 2 visitors, operator | data and sessions survive; setup closes behind the first company |
| `fr_starts` | 2 makers, 1 visitor | start-up ends, unless a half-written file is left |
| `tk_shared` | 2 tenants, 2 providers, 1 request, 3 keys, owner's role | own key, current key |
| `ps` | OpenAI and Azure, a word per required field, a blank key, 2 rows, 1 save | result of this form, the truth about a save, the list, every call ends |
| `ps_stale` | the same, without fairness | violated: what is saved was not what was tested |
| `ks` | the admin, 2 teammates, 3 keys | refinement of `OneTimeKey`, one key each, nobody stranded, every click ends |
| `ob` | 2 forms, 2 submissions, 1 template; 3 log entries, 2 kept, 1 shown | what step 1 says, whose session, the log's rows, live is live, every submission ends |

Type invariants and the strengthenings (`Inv`, `SoleMakerInv`, `BodyInv`, ...) are
proved (section 4). Only `inspector` checks its type invariant as well, for the sake
of `free`: a permit given back twice is seen there.

### Bounds

- *vk*. The cache entries of different processes and prefixes never meet (the
  slot is the pair), so a second one only multiplies states; the proofs cover any
  number. Two calls are what a race on one slot takes: one that decided before a
  revocation and writes after it, while the other reads. Both TTLs exceed a tick, so
  entries can be fresh, old and gone. The secrets are the issued one, one of the same
  hash, and one of another hash.
- *inspector*. Two coroutines at the judge at once. Two policies of one company and
  version, one of which never asks the judge, and one of another company, whose rule
  wants to ESCALATE; category lists have the lengths 1 and 2, so that an address can be
  reused by a list of another length, and of the same one; `MaxCompiled` is 1, so the
  cache is cleared. The texts are one the judge masks or cannot tell, in two message
  lists, one a recognizer blocks, and none. `Temperature` is 0, the default: judged
  verdicts are cached.
- *inspector_ends*. One permit for two, so that the line is a line, and every way
  through it: judged, mocked, not compiled, a stream window.
  Without symmetry, which is not sound for liveness.
- *chat*. Requests share nothing in this handler, so one suffices. `MCChatPipeline`
  enumerates bodies of up to two messages with a content of each form an adapter tells
  apart (string, no content, text only, no text, text and images mixed, tool blocks,
  content under a key of another spelling), roles that are missing, every form of
  system prompt, every subset of top-level keys written exactly, every subset of
  credential slots, bodies that are empty, no JSON, of the wrong type or too large on
  parsed and other paths, and streams with every Azure target. Two messages are enough
  to misplace one, two text blocks to forget one. Four lines (`MaxLines`) hold two
  events, or an event and an unfinished one, or blank lines ahead of data. Two
  upstream statuses: a success and an error that `handleForward` passes on. A deadlock
  is not an error there: the one request ends.
- *FirstRun*. Two processes, `serve` and `admin`. docker-compose starts `serve` alone;
  the admin API is a command of its own that reads the same files. In `fr_sole` the
  other one runs in production mode, in `fr_starts` both make secrets. Two forms with
  different slugs.
- *TenantKeys*. Three keys allow an old and a new one of a tenant with another
  tenant's in between or after. Requests do not touch each other's state, so one
  suffices; two were explored without result to ten million states.
- *ps*. OpenAI has optional fields only, Azure all the shapes of the form: required
  fields, a preset one, rows. One word per field suffices, as the page compares texts
  with nothing but emptiness; the key may be blank, which the page takes and the
  gateway refuses. Two rows are what a removal takes. One save is one signal after the
  first listing, so two listings can pass each other; a second save only adds a
  row. The proofs cover any number of each.
- *ks*. Two teammates, so that a key can go to the wrong one; three keys, one more
  than they may get, so that a second key of one would show. A key for the admin is
  always refused (section 5); the row of `users` that mirrors the admin
  (`store/companies.go:101-112`) has an id of its own.
- *ob*. Two forms in two submissions: a late one beside the current one. A buffer
  of two and three entries: the cap takes one. A table of one row shows fewer than
  are kept, as 200 of 1000 are.
- `MaxSaves`, `MaxSubs`, `MaxEntries` bound how often the user or the feed act, and
  nothing a handler looks at.
- `MaxKeys` is a bound of the model; the clock needs none, as every counter is
  capped above the value it is compared with.

### Fairness

- *vk*: weak fairness of every call's next step (a goroutine runs; the query has
  the request's context and ends; argon2id ends) and of the clock. No fairness of
  arrivals, revocations or restarts.
- *inspector_ends*: weak fairness of a coroutine's entry (asyncio's semaphore is
  first come first served) and of the judge's outcome (the HTTP client has a
  timeout). No fairness of `Cancel` or of shutdown: the property does not need
  them.
- *chat*: weak fairness of the gateway's steps, together, and of the end of the
  context, which the router's `Timeout(120 s)` guarantees. Nothing is assumed of the
  provider: it may neither answer nor break off. The body and the writes are steps
  of the gateway, so a client is assumed to send, to read, or to leave: the server
  has no read or write timeout (`server.go:111-119`), and a client that stays and
  does neither keeps its handler for ever.
- *fr_starts*: weak fairness of every step of a start and of launching (restart
  policies of the deployment). The property excepts runs with infinitely many
  crashes of the process and those where a file is missing or half-written for
  good.

- *ps*, *ks*, *ob*: weak fairness of what the panel and the browser do of
  themselves, together (a route runs, the abort timer fires, an answer is taken), and
  of the answers to a listing. Nothing is assumed of the gateway, the user, late
  commits or the feed. The lists load for a user who does not reload for ever.
  A sign-in has no timer of the panel's; it ends with the time limit of Node's `fetch`.

## 4. Proofs

Checked by TLAPS for every value of the constants that meets the named
assumptions (`TenantAssumption`, `DeploymentAssumption`, ... in each module; TLC
evaluates them in the runs).

**VirtualKeyAuthProofs**
- `TypeCorrect`, `Invariance` (`Inv`), `OnlyVouchedSecretsGetIn`, `RevocationIsBounded`,
  `DenialIsBounded`, `ImplementsKeyGate`.
- Neither lag is inductive: that a call was answered late enough says nothing of
  the entry it read. `Inv` adds a budget: for a positive entry, time since
  revocation plus time left is at most `CacheTTL + MaxVerify` (`RevokedInv`), a
  call between query and write has been busy for as long as its row has been
  revoked at least, and likewise for denials (`DeniedInv`). A tick moves one unit
  from what is left to what has passed; a write creates an entry whose time left
  is the TTL when at most `MaxVerify` has passed; a read creates nothing. That last
  fact is what makes a busy client harmless. `SecretInv` does the same for secrets: an
  entry has the issued secret's hash, and the time since that secret passed plus the time
  left is at most `CacheTTL`. Nothing is assumed of `Hash`.
- `ImplementsKeyGate`: `Init` maps to `Init`, every action to one of `KeyGate`'s or
  a stutter, using `Inv`.

**FirstRunProofs**
- `TypeCorrect`: whoever serves holds a whole KEK and a whole session secret.
- `SoleMakerInvariance`, `SoleMakerKeepsData`, `SoleMakerKeepsSessions`: under
  `SoleMaker` (at most one process runs without `LEAKSHIELD_PROD`). The hypothesis is
  needed: two makers truncate each other's KEK (`KEKIsNotClobbered`, section 5).
  `SoleMakerInv` strengthens the two properties with what a maker knows between its
  check and its write (`MakingInv`) and with what every process past loading holds
  (`HoldingInv`); a step that touches a file therefore finds no secret in it
  (`SecretsAreKept`).

- `SetupStaysClosed`: `SetupCloses`, an action property. A submission that has
  passed `CountAdmins` may still insert; one that has not finds the admin that every
  company has.

**InspectorProofs**
- `TypeCorrect`, `PermitsAreBalanced`, `BuiltinBlocksStand`, `NothingAllowedBlind`,
  `OutageNotRemembered`, `AnswersInScope`, for any calls, policies, scopes, texts and
  addresses, any number of permits, and any behaviour of `id()` and of the judge.
- `Inv` has four parts. `Permits` counts: what is free and what is at the judge make
  up `MaxInflight`, by cardinalities, one call in or out at a time. `Line` says that
  every waiting call has one place in the line, and nobody else any;
  `RemoveAt` of a cancelled call is why it has to be about places and not about
  the set. `Caches` and `Handlers` say of every verdict, in the cache or in an
  answer, how it can have come about (`Made`): some request with the same key was
  decided by the rules alone as it does not escalate, or by the rules and the judge, or by
  the rules for want of one, and what is cached of the latter had a hit. The four
  properties of verdicts are read off `Made`; by themselves they are not inductive, as
  an answer may come from the cache. The request a verdict was made for need not be the
  one that is answered, for keys do not tell policies of one company apart, and the
  categories need not be its own, for `_compile` compares address and length only
  (`in_compiled`); `AnswersInScope` says that this is all there is to it, with no
  condition on tenants.

**ChatPipelineProofs**
- `RelayTypeCorrect`, `RelayLosesNothing`, `RelayPassesThrough`: the relay by itself,
  for answers of any length. `NothingLost`, most of which `Relayed` implies, is there
  because the refinement is proved from it. It is not inductive by itself: `EventIsWhole`
  says what a write holds (it ends with a blank line, or the answer has ended),
  `BufferWasRead` that the buffer is not ahead of the reader. `PrefixStays` and
  `PrefixGrows` are the two facts about sequences everything rests on. `WriteEvent` is
  `PassThrough`'s `Deliver` with n the number of lines read; `CompleteHasAll` is what
  its `Complete` asks for. `WholeEventsArrive` says what the refinement is good for: it
  proves of `PassThrough`, and so of the pipeline, that a client has whole events of
  the stream's beginning, all of them when it is complete, and never less than before.
- `TypeCorrect`, `RefusedStaysHere`, `AuditTrail`, `OnlyTheMasterKey`,
  `PipelineLosesNothing`, `PipelinePassesThrough`, for any requests, bodies and
  verdicts. `Stage` says what has happened by each place of the handler, `SentOnce`
  what was sent. The relay's invariant is used as it is, on the pipeline's
  variables; `AuditIsTrue` needs it, for it is the relay that knows that a
  complete answer is a whole one. `OneCredential` is the case analysis over providers
  and slots.
- `MaskArrives`, `RestOfBodyStays`: extraction after injection gives the masked messages
  back where the messages' key is the adapter's own, and nothing but text has changed,
  for bodies of any size (`Bodies`) and any spelling of their keys. `Unfound` is the
  other case: the messages are not touched. `BodyInv`
  says that the body is the client's until it is masked, and then `Inject` of it;
  what is sent is that body. The rest is about the operators. `MergedIsRead`: the text
  of the merged blocks is the masked text, which is so because the first text block
  takes all of it and the others go. `MergedKeepsOthers`: the other blocks stay, in
  order. `InjectedAreExtracted` puts it together for whole bodies: where the counts
  fit, injection writes to the system field exactly what extraction took from there.
  These are inductions over the blocks. The library's induction theorems take an
  operator and cannot be used, so `CountUp` is an induction stated on a set of
  numbers, proved with a least counterexample (`WFMin` on the order of Nat); the loops are
  recursive functions, of which `LoopExists` says that they are defined.

**TenantKeysProofs**
- `TypeCorrect`, `Invariance`, `OwnKeyUpstream`, `RotationHolds`, for both database
  roles. `NewestExists` is a well-founded-induction argument that a non-empty set
  of rows has a newest; `Persist` says that rows neither change hands nor come back
  to life, so what a request remembers stays true.

**ProviderStepProofs**
- `TypeCorrect`, `UserIsToldTheTruth`, `ListIsNeverOlder`, `ResultIsAboutTheForm`, for any
  texts, tiles, rows and number of saves. What the user is told of save n rests on
  where the call and the late commits can be: a save is at one place only, the call
  is always the latest, an answer that says refused left the write undone, and
  one that says saved found it committed. For the list, a listing of the current
  signal was read after every save the user had been told of, as the signal
  rises with the telling. For the result, `sent` is what the form held unless it
  drifted, and every edit but the removal of a row forgets `tested`.
  `SaveIsEarnedUnlessDrifted` carries that on to the save.

**KeyStepProofs**
- `TypeCorrect`, `OneKeyEach`, `NobodyIsStranded`, `ImplementsOneTimeKey`, `ShownOnce`, for any
  teammates and number of keys. A second key of a teammate would need a second
  answer with the id of the same row, and an address gives one row: the invariant
  says that a key that is there, an issue under way, one that is late and a created row
  that waits for its issue exclude each other. The
  refinement maps a commit to `Issue`, the answer to `Show`, and whatever takes the
  page away to `Lose`; that only the latest key can be under way makes `Fate` a
  function of the page. `ShownOnce` is what `OneTimeKey` comes to: one plaintext at a
  time, and none a second time.

**PanelProofs**
- `TypeCorrect`, `UserIsToldOfTheAdmin`, `SessionsAreOwn`, `LiveMeansOpen`,
  `RowsAreNewest`. The pages and the stream have an inductive invariant each
  (`PagesInv`, `StreamInv`); the composition disturbs neither, as its steps are a step
  of one beside a stutter or a mounting of the other. `SignInIsOwn` is why
  `SessionIsOwn` holds: a sign-in of step 1 carries the form of the submission that was
  answered, not the fields. `KeptAreNewest` says that the buffer holds all that
  was heard, or is full and holds the newest.

Every safety invariant and action property of the passing runs is thereby proved,
and the three refinements. Only model-checked is liveness (`EveryRequestEnds`,
`EveryCallAnswered`, `RevocationTakesEffect`, `EveryInspectionEnds`,
`StartsUnlessFilesKeepItDown`, `NothingHangs`, `EveryClickEnds`, `SubmissionEnds`), as
fairness and ENABLED are out of the prover's reach.

## 5. Where code and documents disagree

With a run (see `findings` in `PROJECT.json`):

- compiled categories found by the address of a list that is gone (`in_compiled`;
  the theorem `AnswersInScope` says that they are of the same number, and that the
  decision is one they come to);
- a provider that is saved under another's test (`ps_stale`): removing a row of the
  deployment map keeps the result, and so does a test that answers after an edit. The
  theorem `SaveIsEarnedUnlessDrifted` says that there is no third way.

Stated as a property that TLC refutes, without a run of its own (it suffices to
replace the properties of the run named with the one named here):

- `store/virtual_keys.go:92` "loads an active virtual key", and
  `migrations/0001_init.sql:86-88` derives is_active from expires_at, too. The query
  filters on revoked_at alone and `Verify` never calls `VirtualKey.IsActive`: an
  expired key is admitted (`ExpiredKeyNotAdmitted`, run `vk`).
- `crypto/envelope.go:76-78`: GenerateAndWriteKEK "refuses to overwrite an existing
  file". It stats and then calls `os.WriteFile`, which truncates; of two processes that
  start on one empty disk, the second truncates what the first has written
  (`KEKIsNotClobbered`, run `fr_starts`).
- `store/master_provider_keys.go:62`: "returns the active master key for a tenant +
  provider". For the owner of the tables it is any tenant's newest; a tenant with a
  key gets 503, because another's newer one does not open under its DEK
  (`KeyedTenantIsServed`, run `tk_shared`).
- `panel/components/logs/live-log-table.tsx:26-28`: the pause "resumes when they scroll
  back to the top". The entries do; the indicator says paused until the connection
  next breaks, as the effect (`use-log-stream.ts:79-82`) notes a pause and not its end
  (`PausedIsPaused`, run `ob`).

Read off the code while modelling, without a run:

- `auth/middleware.go:48`: "sha256 of the secret we verified", and lines 80-82 "make sure
  the same secret produced this entry". `hashSecret` (180-189) is FNV-1a in 64 bits and
  not cryptographic: an equal hash does not make sure of it (`AcceptedByCache`).
- `docs/wiki/Virtual-Keys.md:143-145`: "The verifier's in-memory cache is
  invalidated via Redis pub-sub so all gateway nodes drop the cached row
  immediately. Next request from the revoked key returns 401." `Invalidate` has no
  caller; `RevokeKey` only updates the row. `RevocationLag` states the bound that
  does hold.
- `inspector/cache.py:11-12`: "Cache hits must reflect the same decision the
  inspector would make today." A verdict from rule hits alone, formed while the
  judge was down, is cached (`hybrid.py:409-443`) although the judge might block. And
  the key (`cache.py:29-42`) has no policy in it: of two policies of one company, each
  at its version 1 (`migrations/0001_init.sql:95-111`), one may be answered with the
  verdict of the other (`Key`, `AnswerIsInScope`).
- `proto/inspector/v1/inspector.proto:51-52`: the redacted messages of a MASK are what
  the gateway forwards. They are cached under the joined user text alone, so a message
  list with other boundaries or system messages is answered with those of the first
  (`shape` in `AnswerIsInScope`).
- `docs/wiki/Policy-Editor.md:106`: on a reply that does not parse, twice, "ESCALATE to the
  next strategy if Hybrid, or FAIL_CLOSED". With a rule hit nothing fails closed, and one of
  severity ESCALATE, which asked for the judge, comes out as ALLOW
  (`hybrid.py:417-428, 549-554`), as does a reply of the judge that says ESCALATE.
  `NoAllowWithoutJudge` names the exception.
- `proto/inspector/v1/inspector.proto:51-52`: on MASK, messages come "with PII spans
  replaced". When only the judge says MASK there are no spans and the messages are
  returned unchanged (`hybrid.py:571`).
- `inspector/server.py:217-218`: stream chunks get "the full recognizer set". The
  window is wrapped as an assistant message, which `_join_user_text` drops; the
  recognizers see an empty text. `Joined` models this.
- `inspector/backends/base.py:9`: strategies "should treat this as fail-closed". With
  a matching category of severity ALLOW, an outage of the judge allows, too.
- `migrations/0001_init.sql:224-225`: "RLS is NOT bypassed". `docker-compose.yml`
  connects as the owner of the tables, and there is no FORCE; `ListProviders` has no
  company filter of its own.
- `store/virtual_keys.go:93-95`: "RLS does not apply". It does for
  `leakshield_service`, and hides every row without `app.tenant_id`
  (`VisibleOnPool`).
- `handlers/admin/keys.go:51-52`: "issues a new virtual key". `CreateVirtualKey`
  returns `is_active`, no column of `virtual_keys`, so the statement fails; rows
  appear in the models by `Seed` and `Provision`.

- `handlers/admin/auth.go:64-65`: "creates the very first company ... Refuses if any
  admin already exists." The count is a transaction of its own: two submissions that
  both count none create two companies. `SetupCloses` is what does hold.
- `provider/openai/openai.go:66`: "streaming requests outlive any wall clock".
  `server.go:68` ends every request's context after 120 seconds. The client gets a
  well-terminated 200 that is cut short (`Next_CheckContext`, `Next_Fails`).
- `provider/sse.go:40-42`: blank lines "are coalesced into the next data event". Two
  blank lines in a row are emitted as an event of their own (`Next_ReadLine`).
- `provider/provider.go:60-62`: headers come with "auth-bearing headers already
  stripped by the gateway". `CopyHeaders` strips none; each adapter takes out its own
  provider's, and the client's virtual key in another slot goes upstream
  (`Credentials`).
- `provider/provider.go:180-182`: injection "MUST preserve every other field". OpenAI's
  and Azure's write the content as one string, so images of a masked message are
  gone (`InjectContent`); `RestSurvivesMask` compares blocks for the other two only.
- `provider/provider.go:180-181`: InjectMessages "serializes masked messages back into the
  body". Where the exact key is missing it returns nil and the body stays
  (`openai.go:211-215`, `azure.go:176-179`; `anthropic.go:234-235` and `google.go:195` pass
  over it), although extraction has read the messages under a key such as "Messages".
  They are inspected, and on MASK forwarded unmasked; so is a content's text under
  another spelling of its key, beside the masked one that is written. With Anthropic and
  Google, an empty system prompt under its exact key then takes the first message's
  masked text (`Inject`, the second half of `MaskReachesProvider`).
- Anthropic: the text of `tool_use` and `tool_result` blocks is extracted, so a
  secret in it can lead to MASK, but injection does not rewrite it. `HasTools` is
  the exception in `MaskReachesProvider`.
- Anthropic and Google: a system field that is present and flattens to nothing is
  not extracted but counted by injection, so that MASK ends in 500 `mask_failed`
  (`SystemShare`, `MaskFails`).
- `docs/wiki/Home.md:31`: "Inspects every prompt". A body whose extraction fails is
  forwarded uninspected (`chat.go:117-120`), so are `/embeddings`, and `/responses`,
  whose prompt is in `input` and not in `messages` (`openai.go:126`). A MASK verdict
  without messages forwards the body as it is (`Allow`).
- `docs/wiki/API-Reference.md:148`: 502 for "Upstream provider 5xx".
  `handleForward` passes a 5xx on, and `Stream` makes 502 of any status that is no
  success, 429 included (`Forward`, `ProviderFails`).
- `docs/wiki/Virtual-Keys.md:158`: "Every request the gateway proxies records" an audit
  line. Interrupted streams and upstream errors write none (`Stream`, `AuditIsTrue`).

- `handlers/admin/providers.go`, `panel/.../step-2-provider.tsx:130-131`: a test "makes a
  cheap upstream call". For Azure the gateway makes none and answers ok.
- The panel's Azure form saves `endpoint`, `api_version` and `deployments`; `chat.go:203-231`
  reads `azure_*`. A key saved by the panel cannot be used.
- `step-3-user-client.tsx:92-99` issues a key for the id `/me` returns. That is the
  admin's, and `virtual_keys.user_id` refers to `users`, where the admin's mirror has another
  id: the call is always refused (`Issuable`).
- `handlers/admin/keys.go` nests the key's record beside its plaintext; the pane reads
  prefix and allowed providers from the top and shows none.
- `lib/admin-proxy.ts:97-106` says "not reachable" of a write that timed out and may be
  committed; a retry of a save inserts a second row. `ToldIsTrue` counts that answer as
  unknown. (It also takes an acknowledged commit as one: a connection to the
  database that is lost at the commit can make a 500 of a write that was done.)
- `app/(auth)/sign-in/page.tsx`: "Use the sign-in form anyway" leads to the page it is
  on, which shows the welcome again; `/sign-in/reset` does not exist (`Links`).
- `app/(auth)/sign-up/page.tsx` leaves the decision to "the wizard's setup-status
  check"; the wizard has none (`Wizard`).
- A session cookie lives 30 days, the gateway's token in it 24 hours: after a day all
  pages open and all calls fail (`TokenExpires`). The layout's check is not repeated on
  a link inside it (`Followed`).
- An EventSource that is answered with a status is closed for good; the indicator says
  reconnecting for ever, and the error state it has is never set (`Connect`). The
  gateway answers the stream's route 404.
- A company name without ASCII letters or digits makes an empty slug, which the route
  takes and the gateway refuses. What is picked in step 4 is gone with the page.

## 6. Not modelled

- The recognizers' matching and checksums, span offsets and confidences, prompt
  texts of the judge, formatting, logging, metrics.
- `Health`, listings and other reads; the Redis verdict cache, which no
  configuration selects; the KMS providers, which are not wired.
- In the pipeline: the stub keys of the development mode without a database, the
  missing-flusher check, which no server of the program meets, `CountTokens`, which
  has no caller, headers other than credentials, and panics on a null message, which
  `Recoverer` turns into a 500 before anything is sent.
- In the panel: the pages whose content is static or a mock at this commit (policy
  and category editors, analytics, settings, tenant switcher), the shadcn primitives
  under `components/ui`, styling and texts; the probe that fills in a local base URL
  when step 2 is opened; the names of the models a test discovers; the role check of
  the super-admin page beyond the first admin, who has the role; several tabs, of
  which only another's sign-out is an action (`SessionEnds`).
- Limits (`rpm`, `tpm`, budgets), `AllowedModels` and `users.is_active`, which no code
  enforces.
- The file system of a container that is replaced: `FirstRun` assumes both files
  survive a restart, which compose guarantees for the KEK volume only.

## 7. Plan

Done, in this order: `KeyGate` and `VirtualKeyAuth` with proofs, `Inspector`,
`FirstRun` with proofs, `TenantKeys` with proofs, `PassThrough`, `EventRelay`,
`ProviderBody` and `ChatPipeline` with proofs; then `AdminProxy`, `ProviderStep`,
`OneTimeKey` and `KeyStep`, `SetupPages`, `LogStream` and `Panel`, with proofs; then the
proofs of `Inspector`, of the masked body and of what `PassThrough` and `OneTimeKey`
come to.

Next:

1. `Recognizers`: the checksum algorithms (TCKN, IBAN, Luhn) against reference
   definitions; category evaluation order; span merging and redaction.
2. Proofs: `ExpiredKeyNotAdmitted`, `KEKIsNotClobbered` and `KeyedTenantIsServed` under the
   conditions that rule their counterexamples out, as done for `SaveIsEarned`; the safety part of `RevocationTakesEffect`.
3. Composition: `ChatPipeline` with `VirtualKeyAuth`'s and `TenantKeys`' state instead
   of choices, so that revocation and rotation are seen at the provider; `ProviderStep`
   with `TenantKeys`, so that a key saved in the wizard is one a request finds.
