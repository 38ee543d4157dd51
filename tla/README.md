# A TLA+ model of FerrLabs/Kit

Kit is a workspace of Rust crates that the FerrLabs APIs share: a Postgres job
queue, refresh sessions, a Valkey cache, rate limiting, clients of identity,
key-management and billing services, and the types around them.  The crates are
libraries; what runs is an API process (usually several replicas) that calls
them from many tokio tasks, with Postgres and Valkey between the replicas.

The modules here model the crates that keep state or take part in a protocol,
first of all those whose correctness depends on the order in which several actors
act.  Each definition is a translation of the lines that
`PROJECT.json` ("map") names; the data is reduced to what the properties tell
apart.

## Inventory

| component | state | operations | hard behaviour | what makes it correct |
|---|---|---|---|---|
| queue: table (`queue/src/queue.rs`, `worker.rs`, `job.rs`, `schema.rs`) | one row per job: status, attempts, run_at, lock | enqueue, cancel, claim_one, mark_*, sweep | claims, late marks, sweeps and cancels interleave; replies get lost; workers die; two clocks | attempts handed out once and within budget; one handler unless a lease ran out; keys name one job; jobs get settled |
| queue: worker tasks (`worker.rs`) | three tasks, two `Notify` | run_loop, sweeper_loop, listener_loop, shutdown, abort | notifications without permits, select! dropping futures, reconnects | jobs not cut short, rows found without a notification, stopped workers end |
| auth: sessions (`auth/src/session.rs`) | rows with family, revoked_at, expires_at | create, rotate, revoke_family, get_active | replays racing rotations, READ COMMITTED snapshots, row locks | one successor per token; a burned family has no live token |
| cache: SWR (`cache/src/swr.rs`) | value key and lock key with TTLs | get_or_load, spawn_refresh | lock outlived or leaked, losers polling, stores out of order | single flight, bounded wait, bounded age |
| ratelimit: bucket (`ratelimit/src/lib.rs`) | tokens, last_refill per key | check, prune | clock read before the lock | admissions within quota; prune invisible |
| ratelimit: client IP (`ratelimit/src/ip.rs`) | none | client_ip | chains shorter than the hops | trusts exactly n hops |
| oauth: OIDC (`oauth/src/oidc.rs`) | JWKS cache | keys_for, validate_id_token | fetch outside the mutex, key rotation | withdrawn keys drop out, published ones are found; every check before trust |
| oauth: providers (`oauth/src/lib.rs`) | none kept | authorize, exchange | external HTTP | state and PKCE bound to the login |
| github (`github/src/app.rs`, `ownership.rs`) | token cache | installation_token, user_owns_installation | concurrent refresh, expiry margin | never a token about to expire, never another scope's token |
| crypto (`crypto/src/lib.rs`, `gcp_kms.rs`) | DEK cache, last health check | wrap_dek, unwrap_dek, health_check | bound and eviction, lock dropped around the KMS call | cache bounded, entries within TTL, right plaintext |
| auth: JWT, TOTP, password, extractors | none kept | issue, validate, verify_step | key and audience rollout, one use per step | old keys work until dropped; a code works once |
| webhooks (`webhooks/src/lib.rs`) | delivery ids | verify_*, seen, record | redelivery between seen and record | each delivery once; window on both sides |
| cache: pool (`cache/src/lib.rs`) | none kept | from_env, connect | server up or down during the probe; passwords in URLs | the configured password reaches the host; one pool or none |
| billing (`billing/src/*.rs`) | Stripe's | ensure_customer, update_tier, parse_event | retrieve-then-update, events out of order | a change is of the right org and never more than what is billed |
| api-version (`api-version/src/*.rs`) | registry | resolve, downgrade, upgrade | order of transforms, sunset boundary, pins that outlive the floor | every supported version is served in its shape |
| http (`http/src/lib.rs`) | none | safe_get, safe_post_form | redirects, deadline, body cap | every peer is a vetted address, hops and body bounded |
| permissions (`permissions/src/lib.rs`) | stored scope strings | from_strings, intersection, has | families of scopes, wildcards, changing roles, builds that know different scopes | a token's request has exactly what token and roles share |
| license (`license/src/lib.rs`, `bin/licensegen.rs`) | none | sign, verify, allows | keys, products, expiry | a license works for its product only |
| vault, audit, db, mail, middleware, telemetry, errors, id, types, testkit | none or append-only | one call each | - | - |

Interactions: the queue, session and db crates share a Postgres pool and meet in
tables only; a worker's three tasks share two `Notify`; producers reach workers
through `pg_notify`; cache callers meet in two Valkey keys; OIDC uses http for
its requests; totp seals its seed with a crypto `KeyProvider`; limiter threads
share a `DashMap`.

## Modules

| module | what it is |
|---|---|
| `JobQueue` | the table and everybody who writes it |
| `AttemptTickets` | what the queue promises about delivery: numbered attempts within a budget, each issued once |
| `JobQueueProofs` | theorems about `JobQueue` for all values of its constants |
| `MCJobQueue` | instances for TLC |
| `WorkerLoop`, `WorkerLoopProofs` | one worker's tasks and its handle, and their theorems |
| `Sessions`, `SessionsProofs` | PgSessionStore under READ COMMITTED, and its theorems |
| `SwrCache`, `SwrCacheProofs` | one key of the stale-while-revalidate cache, and its theorems |
| `RateLimiter`, `RateLimiterProofs` | the token bucket shared by threads, and its theorems |
| `Login` | authorization-code logins: fixed providers and a tenant's OIDC issuer, GitHub ownership |
| `KeySets` | the JWKS cache of one issuer |
| `DekCache` | key providers, the cache of unwrapped DEKs, the health probe |
| `InstallationTokens` | GitHub App JWTs and the installation token cache |
| `SecondFactor` | password, TOTP and recovery codes of one account |
| `AccessTokens` | access tokens, extractors and licenses while keys rotate |
| `MCTrust` | the six modules above side by side, for TLC and for the proofs |
| `TrustProofs` | theorems about the three caches: `DekCache`, `KeySets`, `InstallationTokens` |
| `IdentityProofs` | theorems about `Login`, `SecondFactor`, `AccessTokens` |
| `SafeHttp` | one guarded outbound request |
| `Billing` | Stripe subscriptions, webhook signatures, the delivery store, parse_event |
| `ApiVersions` | negotiation and transforms over releases and raised floors |
| `Scopes` | scope sets of sessions and API tokens while roles and builds change |
| `CachePool` | configuration and start of the Valkey pool |
| `MCEdge` | `RateLimiter` and the five modules above side by side, for TLC and for the proofs |
| `EdgeProofs` | theorems about those five modules |

**JobQueue.** A statement is an implicit transaction, hence one action.  Row
columns are functions from job ids (`status`, `attempts`, `run_in`,
`locked_for`, `locked_by`; `job` has the columns no statement changes).  A
worker's `held` is the `Claimed` value its `process_claimed` works on: it is what
the late mark uses, whatever the row has become.  `Insert`, `InsertConflicts`,
`SelectExisting` are the two statements of `enqueue`; `ClaimOne` is `claim_one`
and `ClaimReplyLost` the case in which the UPDATE commits and the reply does not
arrive; `HandleOk`, `HandlePermanent`, `HandleRetriable`, `MarkFails`,
`HandlerPanics` are the ends of `process_claimed`; `Sweep(w, e)` is one round of
w's sweeper when its clock is off by e.  `Abort` is also the crash of a worker.  A task
that is aborted or loses its connection may leave its `mark_*` on the wire (`LeaveMark`);
`LateMark` commits it later, by id, as the statement does.  Loop and sweeper of a worker
live apart: `Shutdown(w, heard)` reaches those of the two that wait in their select!, so
the sweeper may end and the loop stay up, and `SweeperAborted` is `sweep_task.abort()`
taking effect some time after the loop has ended.
Time is relative: `Tick` counts `run_in` down and ages the locks, both
saturating, so behaviours are unbounded and the state space is finite.
`SKIP LOCKED` needs no extra behaviour: a row skipped because another statement
has it locked is one which that statement changes first.

**WorkerLoop.** The table is a count of claimable rows.  A task "has a Notified"
exactly in its select!; `notify_waiters` sets a flag of the tasks that are
there, and leaving the select! drops it.  `wake` is lost the same way.
`JoinHandle::abort` is a request (`AbortAll` notes it in `aborting`): each task is dropped
some steps later (`LoopDropped`, `SweeperDropped`, `ListenerDropped`), as nobody awaits it.

**Sessions.** `rotate` is `RotateCalled`, then `SelectForUpdate` (lock and read)
or `ReuseDetected` (lock, and the snapshot of the UPDATE), then a COMMIT or a
rollback.  Row locks, snapshots and the re-check of the WHERE clause are
Postgres's and marked external.

**SwrCache.** A caller or refresh task walks reading, locking, polling, loading,
storing, releasing; `mode` is the reason it loads.  Every command may fail, with
or without effect.  The payload is the age of its data since the load began.

**RateLimiter.** `ReadClock` is the first line of `try_consume` and `prune`;
`TryConsume` and `Prune` are what happens under the entry's lock.  `rewound` and
`synced` are ghosts of the accounting.

**Login.** A login's random state, nonce and verifier are the login itself; a code
is the login it was issued for, and a callback may bring any code to any login.
`ExchangeCode`, `FetchUser` and `ExchangeIdToken` walk the code's requests; what the
provider answers is chosen freely within what its token endpoint and the tests show.
`Validate` keeps the order of `select_key`, `decode` and `check_claims`, so the error
an attempt ends with is the code's; the selected key declares an algorithm or none.  The caller's comparison of `state` is assumed
only for the providers for which the code sends neither verifier nor nonce.

**KeySets, DekCache, InstallationTokens.** The three caches of what a remote
authority said.  Each call is split where the code awaits: look up, the authority
answers, store.  `keys`, `disabled` and a token's `real` are the authority's own
state, kept to say what the cache may still believe.  All times are ages or ticks
left and saturate, so the runs need no clock bound.  In `InstallationTokens` the
process's clock differs from GitHub's by `skew`, and requests are lists of names, empty
names included: `Key` is what `repos.join(",")` tells apart, and `Reach` what GitHub grants.

**SecondFactor.** The library is stateless; single use comes from the handler that
persists what it returns.  `UnsealSeed` reads the row, `PresentTotp` and
`PresentRecovery` ask the library with what was read, `PersistStep` and `Consume`
are the conditional updates the documentation asks the caller for (external).

**AccessTokens.** `config` has each service's decoding keys.  `Redeploy` starts a service
with the new key and the outgoing one, `DropPrevious` without the outgoing one, once its
tokens have expired; issuer and verifiers go through a rotation one by one and in any
order, since `with_previous_public_pem` states none.  `Decode` is jsonwebtoken's order of
checks (external).  Licenses are tokens of another key and issuer, with a seat cap or without.

**SafeHttp.** Addresses are octets or segments and `IsPublicUnicast` is the code's
test on them; the property compares the peer with a separate list of internal blocks.
Each lookup may answer anything.  `Fails` is the deadline, which may strike anywhere.

**Billing.** `UpdateTier` and `FinishUpdate` are the two requests of `update_tier`;
`EmitSubscription` and `EmitInvoice` copy the metadata as Stripe does at that moment
(external).  Subscriptions are made by this client or elsewhere, then with metadata that
may lack a field or name an unknown tier; an event shows any status, a deletion possibly
the one before it.  An org may have several subscriptions, as nothing prevents it.  What
was billed and what Stripe's status was is kept in each event as history.  A handler
verifies, asks `seen`, lets `record` decide, and stores the parsed change;
deliveries come late, out of order and repeatedly.

**ApiVersions.** The shape of a body is the set of changes it includes; a transform
applied to a shape it was not written for yields nonsense (`{None}`), so a wrong
order or a missing transform shows.  `Release` and `RaiseFloor` are deployments, which
delete the transforms the floor strands; the new build registers the others one by one
(`With`, in any order; push and stable sort are an insertion) before it serves.  A
request walks `Negotiate`, `RewriteRequest`, one `UpgradeRequest` per transform, the
handler and `RewriteResponse`, one `DowngradeResponse` per transform, `Rewritten`; a
response over the cap is rejected after the handler has run.

**Scopes.** Sessions, which hold `tokens:manage`, store API tokens as strings
(`ManageToken`); a request with one gets the `Intersection` of its strings and its owner's
roles.  `ChangeRole` and `Deploy` change the roles and the build, which may not know every
scope.  `to_oidc_scope_string` and `iter`, which print and list a set, are left out.

**CachePool.** URLs are short sequences in which one character stands for all that
need no encoding; the property is about this conversion, so it is modelled as one.  An
escape such as `%40` is one element that is none of the separators.  `connect` may refuse
the URL, the CA file (read with `rediss://` only) or the pool size; probe and second pool
are told apart, so that a probe that was not told to quit would be seen.

**MCTrust, MCEdge.** The components of a run share no state in the code.  `part`
picks the one a behaviour follows, so one run explores each of them on its own and
their state spaces add up instead of multiplying.  `MCEdge` extends `RateLimiter`,
so that its assumptions are evaluated.  Durations, limits and sets of these components
are CONSTANTS of `MCTrust` and `MCEdge`, with named assumptions; the proofs use no
others, and TLC evaluates them in each run.

Definitions marked "Mutant" or "Variant" are plausible bugs of the definition
they precede; no specification uses them.  They show that each property depends
on the code.

## Runs

| run | checks | result |
|---|---|---|
| jobqueue_safety | 2 jobs, 2 queues, 2 workers of one of them, 2 producers, lease 1, skew 1, 1 late mark, attempts 0, 1 and beyond the INTEGER range | attempts, locks, handlers, sweeps, keys and the refinement hold |
| jobqueue_liveness | 2 jobs, 2 workers, one queue, 1 late mark, fairness | jobs get settled, abandoned rows are freed |
| jobqueue_terminal | 1 job, 2 workers | **violated**: a cancelled job comes back as failed |
| jobqueue_swept | 1 job, 2 workers | **violated**: a job swept on its last attempt is queued for ever |
| worker_loop | at most 2 rows and messages, fairness | no job cut short, stopped workers end, rows found, listener back |
| worker_shutdown | at most 1 row, fairness | **violated**: shutdown() may never return |
| sessions | 4 tokens, 2 logins, 2 callers, fairness | chain, burning and lock waits hold |
| sessions_revocation | 3 tokens, 1 login | **violated**: a racing rotation survives the revocation |
| swr_cache | 2 callers, 1 refresh task; fresh 1, hard 2, lock 3, poll 2, load up to 3 ticks; fairness | single flight unless overrun, late last resort, age bound, calls return |
| trust | logins, key sets, DEKs, installation tokens, second factors, access tokens; 2 concurrent actors each | all hold |
| edge | limiter (3 threads, 1 key, capacity 2, rate 1, 4 ticks, 8 admissions), outbound requests, billing, versions, scopes, pool start | all hold |
| api_version_sunset | 3 versions, 1 route | **violated**: a version below the floor is served |

Bounds.  Two jobs are enough for priorities and for a key conflict, two workers for a
slow holder, a new holder and the sweeper of either; a lease of 1 with skew 1 makes every
order of lease and handler possible, and one late mark at a time (`MaxLate`) may meet every
state of its row.  Nobody serves the second queue, whose jobs must be left alone.  In
jobqueue_liveness the jobs have one priority and are due at once, so that no row is ever
`Overtaken` there and the property is checked without that way out.  Two attempts per job
give a first, a last and an exhausted state.  Four tokens give a chain of three in
one login and another login next to it.  In swr_cache the lock is no multiple of the
poll interval and a load may last as long as the lock, so locks are outlived and
losers give up early; a caller that returned may call again, so the chain "A late,
B's lock deleted, A in again" needs two callers only.  `Tasks` bounds the refresh
tasks in flight, `MaxReady` the rows and messages of a worker, `Calls` and
`MaxClock` the limiter's run.  Symmetry (jobs, the two equal workers, producers) is
used in jobqueue_safety, trust (actors, names) and edge (actors, threads), never
with liveness.

In trust, two callers are enough for a late answer to overtake a newer one, and for
two logins to swap codes.  Key sets live 3 ticks with a refresh window of 1 and a
fetch of at most 1, so a set stored late still expires within the property's window
and not before it.  The DEK cache has 2 entries for 3 rows, so it evicts.
Installation tokens last 3 ticks, 2 when `expires_at` does not parse, with margin and
drift of 1: the margin is exactly used up.  TOTP has 4 steps around a skew of 1 and
two batches of two recovery codes.  Three signing keys take turns, so that a rotation can
follow another and a service one rotation behind is told from one ahead.
In edge, a request may be redirected twice with any two of nine addresses per
lookup.  Billing has one org with two tiers, the statuses trialing and unpaid (one that
entitles, one that is converted), two client calls, two handlers and two
events: enough for a tier change inside a tier change with the deliveries swapped.  Several
orgs, subscriptions and all statuses are left to the proof.
Versions go to 4 on two routes, so up to six transforms are registered in every order
and the floor can be raised three times.  Scopes have one token (no operation involves two), five sets of roles and a build without `agents:run`, which other
scopes imply and which implies one.  Passwords have up to two characters, every pair of separators included.

Behaviours never end by themselves, so deadlock is checked in
every run.

Fairness.  `JobQueue`: a live worker goes on claiming, handlers return, sweepers
sweep, time passes.  Nothing is assumed about producers, cancels, crashes, shutdowns, lost
replies and late marks; liveness is stated for jobs that some loop keeps serving while some
sweeper, not necessarily the same worker's, stays up: a `shutdown()` that the loop missed
may have ended its own.
`WorkerLoop`: tokio polls ready tasks, drops aborted ones and fires timers (weak), a statement or a
connection that is tried for ever succeeds some time (strong); nobody has to
call shutdown, and select! may prefer any ready branch.  `Sessions`: a
transaction that can go on does, and Postgres queues lock waiters (strong).
`SwrCache`: commands time out after one second, loaders end within `MaxRun`, time
passes (weak).

### Findings

1. `mark_*` update by id alone (`worker.rs:315`): cancelling a job while its
   handler runs does not stick (jobqueue_terminal).  `SettledStaysSettled` is what
   does hold: once no handler has the job and no mark is on its way, its final status is
   final.
2. The sweeper does not look at the budget (`worker.rs:337`): a job whose worker
   dies on the last attempt is neither claimable nor dead (jobqueue_swept).
   `JobsGetSettled` therefore counts exhausted rows.
3. `shutdown()` uses `notify_waiters` (`worker.rs:70`), which a loop outside its
   select! does not hear (worker_shutdown).
4. Burning a family misses a successor that a concurrent rotation inserts
   (`session.rs:243`; sessions_revocation).  `BurnedUnlessRaced` is what does hold.
5. `resolve` returns a stored pin or the default unchecked (`policy.rs:138`): after the
   floor has been raised above it, a caller without the header is served at a sunset version, in whatever shape the
   remaining transforms leave, where the documentation promises 410
   (api_version_sunset).  `ServedInItsShape` is what holds for supported versions.

Facts the passing properties state precisely: single flight of the cache is
lost once a loader outlives `lock_ttl`, and stays lost until every overlapping
winner is done, because DEL has no owner token (`SingleFlightUnlessOverrun`); and a
limiter thread that is late between reading the clock and locking the bucket lets
that interval be refilled twice (`rewound` in `AdmissionIsBounded`).  A withdrawn
signing key or a disabled KMS key stays usable for the cache's lifetime plus one
request, because entries are stamped when stored (`KeySetsFollowTheIssuer`,
`RevocationPropagates`).

Two more disagreements with a comment are exceptions that a passing property names, and
shows to be the only ones:

- `redact_url` takes the last `@` before the first `?` for the end of the userinfo
  (`cache/src/lib.rs:69`): of a password with an `@` before a raw `?`, what stands between
  the two is printed as the host, where the comment at line 57 promises full redaction
  (`Misleading` in `ConnectsAsConfigured`).
- `repos.join(",")` (`app.rs:121`) gives `[]` and `[""]` one key: a token of the whole
  installation, cached for the first, is served for the second, where lines 113-114 say
  that scope "should never be a fallback" (`ServedTokensAreLive`).

Met while modelling, with no property of their own:

- A verifier without an audience refuses tokens that carry one and a verifier with an
  audience those that do not, so tokens outstanding when an audience is introduced are
  refused until they expire.
- An issuer whose ID tokens name it with a trailing slash passes `check_metadata`,
  and its tokens are then refused, because `oidc.rs:404` trims the expected issuer.
- The freshly fetched installation token is returned without `is_fresh`, and that
  client has no timeout; `ServedTokensAreLive` is about tokens from the cache.
- `health_check` probes more often than every 10 s when probes overlap or fail.
- Two overlapping `ensure_customer` calls create two customers, of which one is saved.
- `change_from_invoice` is Active by construction and changes carry no order: an
  invoice delivered after the deletion stores Active again.
- `verify_at` and `verify_now` have no replay protection: the code that confirmed the
  enrolment also works at the first login.
- Two transforms of the same version apply in the order of their registration.
- A response over the body cap is rejected after the handler has run, and rejections
  do not carry the served-version header.
- While a rotation is under way, a verifier that is redeployed after the issuer refuses
  the new tokens; `TokensReachTheirAudience` names the case, and that the outstanding
  tokens stay good everywhere.
- An event whose metadata has no tier, or an unknown one, stores the free plan whatever
  is billed; the client itself always stamps one.

## Proofs

Every invariant and every action property that a passing run checks is also proved, for
every value of the constants that satisfies the assumptions: 33 theorems in 8 modules.
Each rests on an inductive invariant; those that TLC can evaluate were checked on the
run's instance before they were proved.  The proofs have one
lemma or step per action, and lemmas for what the operators return.

### Assumptions

| where | what is assumed | why |
|---|---|---|
| all | None is no member of the sets it stands beside | it stands for Rust's `None` or SQL's NULL |
| `JobQueue` | each worker has a queue and a lease; ages saturate beyond every lease plus the skew; the default number of attempts fits the column; the bound on late marks is natural | the worker's configuration; a bound of the model; a constant of the code |
| `RateLimiter` | quota, clock and number of calls are natural | a `u32` capacity, integers in place of f64 |
| `Sessions`, `WorkerLoop`, `SwrCache` | TTLs and bounds are natural, those of the cache's keys positive; refresh tasks are no callers | durations; `PX 0` is an error of the server |
| `KeySets` | lifetime, refresh window and fetch are natural, the lifetime is not 0 | constants of `oidc.rs` |
| `DekCache` | at least two entries, so that the half that is evicted is not empty | `max_entries` is 1024 |
| `InstallationTokens` | the drift is at most the margin, and a fallback expiry is at least the drift before GitHub's | 60 s; 3000 s of 3600 s (`app.rs`) |
| `InstallationTokens` | no repository has the empty name | GitHub's rule |
| `SecondFactor` | steps and codes per batch are natural, there is a first batch | enrolment generates one |
| `AccessTokens` | at least three keys, so that the keys of two rotations differ; the issuer, the verifiers with an audience and the one without are different services | one configuration per service |
| `SafeHttp` | addresses are four octets or eight segments | `IpAddr` |
| `Billing` | tiers are those `tier_from_str` reads back; `Statuses` are those of a subscription that is not cancelled | `tier_slug` writes only these; "canceled" comes with the cancellation |
| `ApiVersions`, `CachePool` | at least one version; password lengths are natural | - |

### JobQueueProofs

`TypeCorrect`, `AttemptsCorrect`, `LocksCorrect`, `SingleHandler`, `SweepsCorrect`,
`EnqueueCorrect`, the action property `SettledCorrect` and the refinement
`QueueImplementsTickets`.  The invariants are not inductive one by one.  "No attempt is
held twice" needs that every held attempt was issued and that a claim issues the next
number; "one handler unless swept" needs that a claimable row nobody swept is held by
nobody, which is a conjunct of it.  Both need `RowsAndClaims`: a row not yet inserted has
no attempts, an inserted one has typed columns and at most max_attempts of them, and a
worker holds a claim exactly while it is in process_claimed.  And both need
`MarksOnTheWire`: until a sweep, a late mark is the only one of its row and finds the row as
its handler left it.  The refinement maps
max_attempts to the budget, `attempts` to the last number issued and the claims in `held`
to the numbers out: claims are `Issue`, the end of a handler (or its worker) is `Return`,
all else stutters; that a `Return` removes one number is `AttemptsHandedOutOnce`.

### RateLimiterProofs

`TypeCorrect`, `AdmissionCorrect`, `RefusalsCorrect`.  The inductive invariant is an
account per key: admissions plus balance equal at most the capacity plus the refill up to
`synced` plus `rewound`, and at least the capacity.  A late thread lowers `synced` and
raises `rewound` by the same amount; a pruned bucket counts as full, which prune's
condition justifies.

### SessionsProofs

`TypeCorrect`, `ChainCorrect`, `BurnCorrect`.  That a token has one successor needs that a
rotation in progress holds the lock of a row that is still active: nobody else can have
exchanged it, and the COMMIT revokes it in the step that adds the successor.  That a
burned family is dead needs the snapshot: while the UPDATE is under way and no rotation
of the family has committed, every active row of the family is among its targets.

### SwrCacheProofs

`TypeCorrect`, `SingleFlightCorrect`, `LastResortCorrect`, `RecencyCorrect`.  Single flight
needs that a winner's lock stands or somebody has overrun.  The last resort needs an
account of time: what is left of the lock plus what the loser has slept is at most
lock_ttl, and `max_polls` sleeps leave less than a poll interval of it (`PollsCoverLock`,
where the division rounds down).  Recency needs that age and remaining TTL of the
envelope add up.

### WorkerLoopProofs

`TypeCorrect`, `JobsCorrect`.  The strengthening is who may have had a task aborted: the loop
only `abort()`, the other two also a shutdown that has seen the loop end.

### TrustProofs

`RevocationCorrect`, `EvictionCorrect`, `KeySetsCorrect`, `ServedTokensCorrect`.  Each needs
an invariant that bounds how old the answer a call in flight brings back is: an answer the
KMS gave before the key was disabled has waited at least that long (`DeksAges`); an
issuer's answer is wrong about a key only if the key changed since the request (`Recent`,
for answers and for the stored set); a token's local expiry, whatever the drift and
however late it is stored, is never after GitHub's (`RequestOK`, `EntryOK`); and what is
cached under a key was granted for a list that joins to it, which for every list but `[""]`
is that list (`KeyReach`).  Eviction is
an action property; that the bound holds needs the finiteness of the entries and that
the half evicted is not empty.

### IdentityProofs

`IdentityCorrect`: a code at a provider without PKCE is the attempt's own, because its
state was compared, and one an OAuth token endpoint has redeemed is, because of the
verifier; `Validate` is the case in which only the nonce binds them.  `CodesCorrect`: steps
that let a login through are at or below the step on record, an attempt waiting to persist
matched a later one than it read, and the hashes on record are the unused codes of the
current batch, each once.  `TokensCorrect`: all services are before, in or past the same
rotation (`RotationOK`), and a token that is alive is of its outgoing key, which nobody has
dropped, or of its new one; so only a service that is behind lacks a key (`LackedKey`).  The
rest is the order of the checks in `verify_token`, so that a foreign token is refused for
its claim and not for its signature.

### EdgeProofs

`PeersCorrect`: what is pinned or connected to was vetted, and a request is sent once per
hop.  That vetted addresses are public is proved for all of IPv4 and IPv6, through the
masks of `is_public_unicast_v6` and the IPv4 addresses embedded in mapped, NAT64 and 6to4
ones (`PublicV4`, `PublicV6`, `CarriedV4`).  `GrantsCorrect`: `Implies` is
transitive and nothing implies staff access, so the expanded intersection grants nothing
that either side lacks, and reading fewer names grants less (`HasTransitive`,
`WildcardGrants`).  `DeliveriesCorrect`: an event
about to be processed is in the store, was not processed, and is about to be by one
handler.  `BilledCorrect`: a stamped subscription's metadata name its org and the tier of its price,
any other's its org or none and that tier, none or an unknown one (`SubsOK`); an event
carries those of its subscription (`EventsOK`), and the conversions of tier and status
never raise what they read (`ChangeMade`, `ParsedChange`).  `ConnectionsCorrect`: for
passwords of every length, the userinfo ends at the `@` after the password, its encoding
holds no separator, and fred reads the password back (`UserinfoEnds`, `EncodedUrl`,
`ReadBack`); a URL with a raw `?` is redacted whole unless an `@` precedes it
(`RawPassword`); while the probe runs there is no second pool.  `ShapesCorrect`: the registry has every change the floor leaves, once and in the
order of versions; a body on its way is the shape of its version with the first transforms
applied (`Upto`), one more on the way up and one less on the way down.

### What proving changed in the model

A `CASE` whose guards overlap, and `SortSeq` on equal keys, denote an unspecified one of
several values; TLC takes the first.  The error paths of `AccessTokens`, `Billing`, `Login`,
`SafeHttp` and `Resolve` became ordered IFs, as the code's early returns are, and the registry
became an insertion after the equal versions, as a stable sort is.  The escapes of
`CachePool` became values of their own, because nothing distinguished an encoded separator
from a raw one but TLC's representation.  Literals in `MCTrust` and `MCEdge` became CONSTANTS.

### Only model-checked

The liveness properties: `JobsGetSettled` and `AbandonedRowsAreFreed` (`JobQueue`),
`StoppedWorkersEnd`, `ReadyRowsAreClaimed` and `ListenerReconnects` (`WorkerLoop`), `CallsReturn` (`Sessions` and
`SwrCache`).  They rest on fairness, which the proof system does not reason about.  That
the five violated properties fail is shown by TLC's behaviours.

## Not modelled

Payloads, logging, read-only queries (`Queue::list`, `get_active`), the schema's
poll index, f64 rounding in the limiter, differences between the replicas' clocks in
the cache's envelope, cryptography, HTTP and the services behind it.  Ciphers
(`encrypt_value`, `decrypt_value`) and the typed wrappers of the permissions crate
are stateless.  `client_ip` picks one entry of a list.  vault, mail and db are one
call into a client each; audit appends to a vector; middleware and telemetry are
constant tables and counters; errors, id and types are data.  `PROJECT.json` gives
the reason per component.

## Plan

1. More abstract specifications with a proved refinement: `Sessions` as one chain per login,
   `SwrCache` as a register with bounded staleness, the delivery store as a set of ids.
2. The safety parts of the liveness arguments, as invariants: that a claimable row always
   has a timer or a flag that will wake the loop, and that row locks of sessions are never
   waited for in a cycle.
3. Liveness of jobs under several priorities, as fairness between queues rather than jobs.
