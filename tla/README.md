# A verification of the API gateway

This directory holds TLA+ models of the gateway in `src/gateway` (paths below are
relative to it), TLC configurations that check them on small instances, and proofs,
checked by TLAPS, of theorems about them for every instance.

## 1. The system

An asyncio program (FastAPI, one process: docs/architecture-decisions.md:100 and
jobs/manager.py:205 say single replica) that forwards internal requests to external vendor
APIs. A request passes: rate limiting (middleware), authentication
(dependency), vendor resolution, quota check, response cache, request deduplication, vendor
call, cache fill, publication, quota increment. Endpoints marked as jobs leave that path
after vendor resolution: their request is stored in Postgres and run by a background worker.

A coroutine is interrupted only where it awaits. In all models, what stands between two
awaits is one step, a Redis command or script is one step, and the steps of concurrent
coroutines interleave freely. Redis and Postgres survive a process; everything else does not.
`Proxy` and `Jobs` depend on there being one process, as `PoolSize` is the pool of one and the
worker is alone. `Dedup`, `Quota`, `ResponseCache`, `RateLimit` and `PortalTokens` keep their
state in Redis and do not ask whose coroutines the requests are.

| component | state | operations | talks to |
|---|---|---|---|
| request deduplication `cache/dedup.py` | per key: lock (TTL 30 s), result (TTL 60 s), pub/sub channel, all in Redis | acquire, publish (SET, PUBLISH), release, wait | proxy path, Redis |
| proxy path `routes/proxy.py`, `vendors/client.py` | none of its own: coroutines, a database connection each | the pipeline above | all others |
| response cache `cache/response_cache.py` | entries with TTL, in Redis | get, set, flush | proxy path, admin |
| quota `quota/tracker.py` | counter per API key and period, in Redis | check, increment | proxy path, admin |
| database `db/session.py`, `db/models.py` | vendors, endpoints, keys, jobs; a pool of 30 connections with a 30 s timeout | session per request | all |
| jobs `jobs/manager.py`, `routes/jobs.py` | job rows in Postgres; the worker's batch | create, poll, run, webhook | proxy path, registry, vendors |
| vendor registry `vendors/registry.py` | configs, adapters, time of the last load, a lock; per process | reload if stale, load, get, build adapter | proxy path, admin, jobs, rate limit |
| OAuth2 adapter `vendors/adapters/oauth2.py` | token, expiry, a lock; per process | use, fetch | registry, token endpoint |
| rate limiter `middleware/rate_limit.py` | bucket per vendor, in Redis | one Lua script | registry (rpm), Redis |
| JWT verification `auth/jwt.py` | key set and its time; per process | lookup, refresh, forced refresh | the issuer |
| portal tokens `auth/portal_tokens.py` | validation results with TTL, in Redis | validate | the portal |
| authentication `auth/dependencies.py` | none | picks one of the two | the two above |
| admin API `admin/routes.py` | none | vendors, keys, quotas, flush, reload, jobs | database, registry, cache |
| lifespan `main.py` | the worker task | start, shutdown | jobs, Redis, database |

### What makes each correct, and what is hard about it

- **Deduplication.** At most one vendor call per key at a time; no waiter misses the
  result; only successful responses are shared; everybody ends. Hard: the lock has a TTL and
  no owner, the waiter must subscribe before it looks for a stored result, any command may
  raise after Redis has executed it, the process may die holding the lock.
- **Proxy path.** The quota limits what reaches the vendor, a response in the cache was a
  success for the same key, the protocol of the deduplication is kept on every error path.
  Hard: the quota check and its increment are apart by a vendor call, the cache is read
  outside the lock, waiters occupy database connections.
- **Jobs.** No job calls its vendor twice, a final status stays, the webhook follows the
  commit, every accepted job is taken up. Hard: crashes and exceptions between two commits.
- **Registry and OAuth2.** A config is not older than the interval promises, an adapter fits
  its config, a token is valid when it is sent and is not fetched needlessly. Hard: double
  checks around an asyncio lock, times taken after an await, failures under the lock.
- **Response cache.** After a flush nothing from before it is left, but for what was in hand.
  Hard: the flush is a loop of SCAN and DEL that stores and expiries fall between.
- **Quota.** Every success is counted in the period it falls in, no refusal is for what
  another period or key has used. Hard: midnight falls between check and increment, INCR and
  EXPIRE are two commands, limit and period change under a request that has read them.
- **Rate limiter.** No interval lets through more than capacity and refill. Hard: rpm and time
  are read before the await, so scripts run out of the order of their times and with the rpm
  of an older registry; the key expires; at rpm 0 the script raises half-way.
- **JWT keys and portal tokens.** What was retired or revoked is refused soon; what is valid
  is not refused because of another's failure. Hard: refreshes overlap and are applied in any
  order, and one may stop half-way, with the cached keys gone; an answer may be stored after
  the event that made it wrong.

The list `hazards` of `PROJECT.json` has each of these at its line with the properties that
would catch it going wrong.

## 2. The modules

| module | models | checked by | proofs |
|---|---|---|---|
| `SharedCalls` | what the deduplication promises, without its mechanism | `MCDedup` | |
| `Dedup` | `cache/dedup.py` | `MCDedup` | `DedupProofs` |
| `DedupRefinement` | how `Dedup` implements `SharedCalls` | `MCDedup` | `DedupProofs` |
| `Proxy` (uses `Dedup`) | `routes/proxy.py` with cache, quota and pool | `MCProxy` | `ProxyProofs` |
| `Quota` | `quota/tracker.py` over periods, the admin's quota changes | `MCQuota` | `QuotaProofs` |
| `ResponseCache` | `cache/response_cache.py`, the admin's flush | `MCResponseCache` | `ResponseCacheProofs` |
| `Jobs` | `jobs/manager.py`, job creation, restart | `MCJobs` | `JobsProofs` |
| `RateLimit` | `middleware/rate_limit.py` | `MCRateLimit` | `RateLimitProofs` |
| `Registry` | `vendors/registry.py` with `adapters/oauth2.py` | `MCRegistry` | `RegistryProofs` |
| `Jwks` | `auth/jwt.py` | `MCJwks` | `AuthProofs` |
| `PortalTokens` | `auth/portal_tokens.py` | `MCPortalTokens` | `AuthProofs` |

Every module has one action per operation or per step between awaits; `PROJECT.json` maps
each definition to its lines. In each, some definitions are marked as *faulty variants*:
what a plausible mistake would make of the definition of a similar name. No specification
uses them; put in place of that definition they make a property fail, which shows that the
property depends on it.

**Dedup.** A request names its own vendor call, so a response is the name of the request
whose call produced it. `pc` is where the coroutine stands: `acquire`, then the holder's
`call`, `store`, `publish`, `release`, or the waiter's `subscribe`, `check`, `wait`. The lock
and the result are countdowns of their TTL; `age` is how long a request has been inside the
lock. `SubscribeTakesEffect` is Redis executing the SUBSCRIBE, which redis-py sends on a
connection of its own and whose reply `dedup_wait` never awaits: it may come after the GET
(`sub = "late"`). The `...Raises` actions are a command that raises; for a writing command,
both with and without its effect. `Crash` ends every request and leaves Redis as it is; a
graceful shutdown is the same, as it cancels at an await.

**SharedCalls** says what `dedup.py` is for: requests of one key share the response of one
call. A request makes a call of its own or takes the response of a successful one, never
both, and while a call of a key is in flight no other begins, unless one of the key was late.
It has no lock, stored result, channel or time. `DedupRefinement` maps onto it: the three
states of a waiter and the acquisition are `asking`, the block of `dedup_context` is
`calling` and `settled`, and a key is late once a request has held its lock for `LockTTL`.
All of Redis becomes invisible, so each of its steps must be a stutter. With
`UsesDedup` (below) the abstraction has three levels: `Proxy` implements `Dedup`, which
implements `SharedCalls`.

**Proxy** has the same variables plus where `proxy()` stands (`at`), the cache, and the
quota counter, and performs the actions of `Dedup` through `D == INSTANCE Dedup`, adding
its own steps: the fill between the vendor's answer and the publication, the increment
between the publication and the release. `UsesDedup == D!Safety` says that the composition
is an implementation of the deduplication: each step of `Proxy` is a step of `Dedup` or leaves
its variables alone. The connection pool is `Connected` against `PoolSize`.

**Jobs.** `status`, `vendor`, `callback` are rows; `at`, `batch`, `cur`, `outcome` are the
worker. A commit that raises or is cut off leaves the row with or without the change
(`MaybeCommitted`), a cut-off request may have been sent (`MaybeSent`). `known` is the
registry as far as the worker depends on it.

**Quota** looks at the counters alone, over several days and months, API keys and changes by
the administrator, which the request path of `Proxy` abstracts to one counter. `row` is
`vendor_api_keys`, `req` what a request read of it and the period it is about to use: a
request reads the row once, but the date twice, for the check and for the increment.
`Expired` is the EXPIRE command, `left` what Redis counts down. The `Pass` action is a request
to which no quota applies.

**ResponseCache** looks at the entries alone, with the flush. Of SCAN it assumes what Redis
documents and no more: a key that exists from the first call to the last is returned; which
others are, and on which page, is open, and pages may be empty. `before`, `outdated` and
`carrying` observe one flush: the entries from before it, the entries and the answers in hand
that are older than it; `inHand` is how many answers were in hand when it began.

**RateLimit** counts tokens in parts of 1/`Window`, so that at `r` requests a minute a bucket
gains `r` parts a second and holds `r * Window`: the script's arithmetic becomes exact in
integers. `now` and `rpm` are what a request read before its await; hosts may disagree about
the rpm (a stale registry, the default while a registry is empty), and 0 is one of the rates.
`ZeroRate` is the script at rpm 0, which executes HSET and then raises. `start` and `spent`
observe an arbitrary interval, `slipped` and `mixed` whether in it scripts came out of the
order of their times, or with more than one rpm.

**Registry** follows one vendor, whose row is a version number. `at` is where a caller
stands: a proxied request, the admin's reload or a job (which never reloads), then on to the
adapter's token. `gone`, `idle`, `age` are times since a version ceased to be current, since
the last load, since a SELECT or a token's issue; `left` is what the adapter believes of its
token's lifetime and `alive` what the vendor does.

In **Jwks**, `UpdateRaises` is `update()` on an answer with a key that `jwk.construct` refuses:
it empties the cached set first, so the cache is left with any part of the answer, or none of
it, and `fetched_at` as it was. `dark` observes, for each published key, how long the cache of
the running process has been empty. A key without a kid is skipped by `update()` and is not in
`Key`: a JWT signed with one fares like that of a key which is not published.

**Jwks** and **PortalTokens** have `Leave`, by which a name is used for the next request:
the instances bound the requests at a time, not their number. `early`, a history variable,
marks requests whose key was published when they came. They are the two paths of
`get_current_user`, and share no name, so that `AuthProofs` extends both: what is `Request`,
`at` and `age` in `Jwks` is `Bearer`, `stage` and `since` in `PortalTokens`.

## 3. What is checked

Bounds are in the `.cfg` files. Deadlock is checked in every run but `quota`: its days,
months and requests are counted up to a bound (`LastNo`, `MaxRequests`), where it stops.

| run | instance | what it shows |
|---|---|---|
| `dedup` | 3 requests, 2 keys; lock 1, result 2, wait 1, hold at most 2 units of 30 s | two holders of one key need an overrun of the TTL (`SingleFlightUnlessOverrun`); `NoLostWakeup`; `SharedResponses`; refinement of `SharedCalls` (`SharesCalls`) |
| `proxy` | 3 requests, 1 key, pool of 2, limit 1; lock, result and wait 1 unit of 30 s | `OvershootBounded`, `CountsOwnSuccess`, `CacheHoldsSuccess`, refinement of `Dedup` (`UsesDedup`), every request ends |
| `quota` | 4 requests, 2 at a time, 2 API keys, limits 0 and 1, 3 days, 2 months, 1 change, 1 fault | `NoCountLost`, `RefusedWhenUsedUp`, `OvershootBounded`, `CountersExpire` |
| `response_cache` | 2 requests at a time, 3 keys, 2 vendors, TTLs 1, 2 and an override of 0 | `FlushedGone`, `FewOutdated`, `OutdatedExpire` |
| `jobs` | 3 jobs, batches of 2, 2 faults | `AtMostOneCall`, `WebhookAfterCommit`, `EndedIsFinal`, `PendingIsTaken` |
| `rate_limit` | 2 requests at a time, rates 0, 1, 2, window 3, delay 1, clock to 9 | `RateBounded` |
| `registry` | 3 callers, 2 versions | `StalenessBounded`, `AdapterOfConfig`, `NeverOlder`, `TokensSpaced`, `SentAlive`, locks passed on |
| `jwks` | 2 requests at a time, 2 keys | `RetiredKeyRefused`, `NamedKeyFound` |
| `portal_tokens` | 3 requests at a time, TTLs 3 and 2, delay 2 | `RevokedTokenRefused`, `OnlyRevokedDenied` |

Why the bounds are enough to be of use:

- *Dedup.* Three requests are a holder, a second that wins the lock after the TTL, and a
  waiter (or the third holder the ownerless DEL admits). The TTLs keep the proportions of 30,
  60 and 30 s, and a hold may last up to twice as long as the lock. Requests and keys are
  symmetric, which is sound as no action or property names one and the run has safety
  properties only.
- *Proxy.* With a pool of two and three requests the pool is exhausted by two waiters and the
  limit of one is overshot. `WaitTimeout` is one unit of 30 s, as in the code, so that a waiter
  waits, with its connection, until time has passed or it is answered: `FirstRequestEnds` needs
  the deadline to run down. All requests have one key, so that what `CacheHoldsSuccess` says of
  keys is empty in this run and rests on its theorem, which is for all keys. Holds do not span a
  unit of time here (`MaxHold = 0`), so the lock never runs out under its holder in this run:
  with holds of one unit the state space is too large to finish. The overrun is what `dedup` is
  about, and the theorems of `ProxyProofs` hold for holds of any length.
- *Jobs.* Two faults allow a crash during the recovery from another; batches of two of three
  jobs leave one behind.
- *Quota.* A day is one unit of time, a month one or two, and the TTLs are the length of a day
  and of the longest month, as in the code. `LastNo` gives three days and two months, so that
  a request can straddle a midnight and a month's end and a counter can expire early, in time
  or late; two slots and four requests give an overshoot followed by a refusal; one change of
  a row (`MaxUpdates`) and one fault (`MaxFaults`) may fall anywhere. Limits are 0, at which
  every request is refused, and 1. What is proved does not depend on these bounds.
- *ResponseCache.* Two keys of one vendor make two pages, so that a store can fall behind the
  cursor; the third key belongs to another vendor, whose entries a flush of the first must not
  owe. An answer waits at most one unit for its SET (`MaxAge`).
- *RateLimit.* The clock's bound (`MaxClock`) is three windows. The delay of 1 is the second by
  which the key outlives a refill; with a delay of 2 and the same TTL `RateBounded` fails, and
  the theorem has that as its hypothesis. Without the exception for intervals that are both
  `slipped` and `mixed` the property fails too (below).
- *Registry.* All times are one unit but the token's life (two), so each boundary is hit from
  both sides; three callers are one that loads, one that waits for the lock and one that
  finds the result, and likewise for tokens.
- *Jwks, PortalTokens.* The request at a time whose older answer overtakes a newer one needs
  two; names are reused, so any number of later requests see the result. `Jwks` is checked up
  to symmetry of the requests, which is sound for its safety properties.
- `FirstRequestEnds` and `FirstPassesLocks` are stated of `r1`: the requests are
  interchangeable in the specifications, so what holds of one holds of each.

**Fairness.** Safety properties assume none. For the liveness properties: time passes; a
coroutine that can take a step eventually does; the worker's loop runs and a stopped process is
started again (`Jobs`); an asyncio lock serves its waiters in order. The event loop and the lock
give this for what the gateway does itself. That a Redis command, a call of a vendor, a token
endpoint or a webhook, and a query end, with an answer or an exception, is an assumption about
the environment: cache/redis.py sets no `socket_timeout`, and httpx limits each phase of a call,
not the whole. No fairness is assumed of anything going wrong: a command never *has* to raise
for a request to end. `RedisRaises`, `LoadRaises`, `FetchRaises`, `Crash` and `WorkerRaises` are
outside of the fair actions.

### Where the code differs from what is said of it

These runs are expected to end with a counterexample.

| run | claim | what happens |
|---|---|---|
| `dedup_single_flight` | dedup.py:5, no redundant vendor call | a hold as long as the lock's TTL admits a second caller; the vendor timeout is per phase and a token fetch comes before it |
| `jobs_job_ends` | the design, line 301 | a job claimed when the process stops stays `in_progress` for ever |
| `jobs_active_vendor_found` | architecture-decisions.md:88, registry loaded at startup | a restarted worker fails jobs of active vendors |

Further observations that no run states:

- The quota limit is not the "hard block (429) at limit" of architecture-decisions.md:76:
  requests checked before the counter moves exceed it. `OvershootBounded` is the bound that
  holds, in `proxy` by the pool, in `quota` across midnight and changes of the limit.
- A request that missed the cache before another filled it can win the lock afterwards and
  call the vendor again; the cache is not read again under the lock.
- A waiter may be answered with the result of an earlier flight, stored for 60 s. Its
  SUBSCRIBE is not acknowledged before its GET, so a publication between the two is missed and
  the waiter times out with a 504.
- An answer that a request has in hand when a flush begins may be stored behind it and served
  for a full TTL (`FewOutdated`, `OutdatedExpire` say how many and how long).
- INCR and EXPIRE of the quota are two commands: a crash or an error between them leaves a
  counter that never expires (`CountersExpire`). Its name has the period, so it is only litter.
- A vendor with `rate_limit_rpm` 0, the default, is not limited: the script empties the
  bucket and raises, and the middleware lets the request pass. The key it leaves may have no
  TTL.
- Hosts that disagree about the rpm, together with scripts out of the order of their times,
  can let a bucket drift upwards, little by little: back at a small rate, forward at a large.
- A revoked portal token may be accepted for a fetch longer than the one TTL that
  portal_tokens.py:15-17 mentions, and again after it has been refused
  (`RevokedTokenRefused` gives the bound that holds).
- On a newly started host the empty registry and key set count as fresh, as their times start
  at 0 of the host's uptime: a JWT is refused with "JWKS endpoint returned no keys" (jwt.py:57)
  before the endpoint was asked, where tests/unit/test_jwt.py:33 has a new cache stale.
- One bad key in the issuer's answer to a forced refresh leaves a running process with an empty
  or partial key set that still counts as fresh. With a partial one an unknown kid forces the
  next refresh; with the empty one every JWT is refused, without asking the issuer, for the
  rest of the lifetime. `NamedKeyFound` has the bound, which an overlapping answer from before
  a key's publication makes longer by a fetch.
- The cache and dedup keys do not contain the HTTP method.
- A job that fails before its vendor call returns without its webhook.
- Nothing sets `request.state.user`, which middleware/logging.py reads: metrics and log lines
  have an anonymous user.

## 4. What is proved

All theorems hold for every value of the constants that the `ASSUME` of the module allows:
times and limits are natural numbers (the TTLs and the size of the pool positive), and in
`Proxy` the requests are finitely many, as the counter is compared with their number. Where
a theorem has a condition besides, the table gives it.

| theorem | states | along |
|---|---|---|
| `TypeCorrect` of all eight proof modules, `AuthProofs!PortalTypeCorrect` | `TypeOK` of each module | the invariants below; in `DedupProofs` with `KeyKnown`: past `idle` a request has a key |
| `DedupProofs!OneFlightPerKey` | `SingleFlightUnlessOverrun` | `FlightInv` |
| `DedupProofs!SingleFlightWhenTimely` | one flight per key if `MaxHold < LockTTL` | `FlightInv` and the bound on ages |
| `DedupProofs!ResponsesOfTheKey` | `SharedResponses` | `SourceInv` of `DedupProofs` |
| `DedupProofs!NoPublicationMissed` | `NoLostWakeup` | `WakeInv` |
| `DedupProofs!ImplementsSharedCalls` | `SharesCalls` | step by step, from `FlightInv` and `SourceInv` |
| `ProxyProofs!QuotaOvershoot` | `OvershootBounded` | `QuotaInv` |
| `ProxyProofs!ImplementsDedup` | `UsesDedup` | step by step |
| `ProxyProofs!CachedSuccess`, `CountedOnce` | `CacheHoldsSuccess`, `CountsOwnSuccess` | `SourceInv` |
| `ProxyProofs!OneCallOnPath`, `WaitersOnPath` | `SingleFlightUnlessOverrun`, `NoLostWakeup`, `SharedResponses` of the whole proxy path | `ImplementsDedup` and the theorems of `DedupProofs` |
| `ProxyProofs!OneCallWhenTimely` | one flight per key on that path if `MaxHold < LockTTL` | the same |
| `ProxyProofs!PathSharesCalls` | `SharesCalls` of that path | the same |
| `QuotaProofs!IncrementsKept`, `RefusalsEarned`, `CountersAreTemporary` | `NoCountLost`, `RefusedWhenUsedUp`, `CountersExpire` | `CounterInv` |
| `QuotaProofs!OvershootLimited` | `OvershootBounded` | `OverInv` |
| `ResponseCacheProofs!FlushComplete`, `OutdatedTemporary`, `SurvivorsFew` | `FlushedGone`, `OutdatedExpire`, `FewOutdated` | `WalkInv`, `AgeInv`, `LateInv` |
| `JobsProofs!CalledOnce`, `WebhookOnceAndLate`, `EndedStays` | `AtMostOneCall`, `WebhookAfterCommit`, `EndedIsFinal` | `JobInv` |
| `RateLimitProofs!RateLimited` | `RateBounded`, if `MaxDelay <= TTL - Window` | `RateInv` |
| `RegistryProofs!StalenessIsBounded`, `NoRollback` | `StalenessBounded`, `NeverOlder` | `LoaderInv`, `AgeInv` |
| `RegistryProofs!AdapterMatchesConfig` | `AdapterOfConfig` | `BuiltInv` |
| `RegistryProofs!OneTokenAtATime` | `TokensSpaced` | `FetcherInv`, `TokenInv` |
| `RegistryProofs!OnlyLiveTokensSent` | `SentAlive`, if `MaxFetch <= Buffer` and `MaxFetch < Life` | `TokenInv` |
| `AuthProofs!RetirementBounded`, `PublishedKeyFound` | `RetiredKeyRefused`, `NamedKeyFound` | `JwksInv` |
| `AuthProofs!RevocationBounded`, `DeniedOnlyRevoked` | `RevokedTokenRefused`, `OnlyRevokedDenied` | `PortalInv` |

The strengthenings, and why the properties alone are not inductive:

- `FlightInv`. That two holders need an overrun says nothing of the lock under a single
  holder. The invariant relates the two clocks: unless somebody of the key has overrun, the
  lock of a holder is there and has at least `LockTTL - age` left. With that a second SET NX
  cannot succeed before the overrun, and the ownerless DEL of a holder without an overrun
  deletes its own lock.
- `QuotaInv`. The counter plus the requests still to count stays below limit, pool and
  unchecked requests (`SumBound`). An admission takes one from the counter's margin, and
  there are at most `PoolSize` requests past the check because each has a connection.
- `SourceInv` follows a response to its source. Who has had a success of its own is past its
  call (`OwnInv`) and never becomes a waiter again, so what it once put in the cache stays a
  success; and each increment adds one to the ended requests with a success of their own,
  which a step of another request never takes out.
- `JobInv` lists, for each stage of the worker, what the current job's row, calls and posts
  can be, and that a job not in the worker's hands is untouched or done with.
- `RateInv` keeps two bounds, as the property has one exception. While the scripts of an
  interval come in the order of their times (`Ordered`), the tokens are never negative, and
  what was spent and is left stays below what the largest rpm can have given up to
  `last`, however the rates change. While they have one rpm (`Uniform`), the bound is kept on
  the line `credit - rate * last`, which does not depend on the order in which the times come.
  Both date the key's TTL: a key that expires would by then have been full.
- `CounterInv` says of each counter that it is as large as what was counted on it unless it
  has expired, and that it can expire only after the end of its period, because EXPIRE comes
  in the period or later and the TTL is no shorter than any length of the period; counters of
  future periods have never been used. From this a refusal is earned, since a request is
  refused in one step with the reading of a counter that is complete.
- `OverInv` counts with each counter the requests that are due on it: those past their check,
  and those still to check on an *earlier* counter of the same key, which may come to count
  on this one after midnight without ever having read it. A request joins them when it is
  loaded, for counters of the future, which have counted nothing; or when it is admitted by
  the counter itself, which then shows less than the limit and all that was counted
  (`CounterInv`). In both cases the number of slots bounds the sum. A key that never had a
  limit above 0 is apart: only unchecked requests are due on its counters.
- `WalkInv`: what was there when the flush began is still owed by SCAN or on the page about to
  be deleted. `AgeInv` dates outdated answers. `LateInv` counts the answers that were in hand
  when the flush began (`inHand`): a slot gives up its answer when it stores it, and none gets
  another one from before the flush.
- In `DedupProofs`, `SourceInv` says that a response on its way (stored, in an inbox, handed
  over) is that of a request of the key whose call has succeeded. `ImplementsSharedCalls` needs
  `FlightInv` where a call begins (the SET NX succeeds, so nobody of the key is in flight
  unless late) and `SourceInv` where a response is shared.
- `WakeInv` adds to `SourceInv` that a request which has failed does not publish any more
  (`FailedOver`). A waiter begins to miss a message only with a `GET` that found nothing, what is
  stored after that is not published yet, and its publication reaches every inbox of the key.
- The theorems of `ProxyProofs` about the deduplication cost no new induction. `Path` is
  `INSTANCE DedupProofs` on the variables of `Proxy`: `PathNext` shows, action by action, that
  it is the same system as the instance `D` the path is built from, `ImplementsDedup` that the
  path behaves like it, and `DedupConstants` that its assumptions are among those of `Proxy`.
- The invariant of `RegistryProofs` has five parts, one for each mechanism, so that each is
  shown to be kept by its own lemma. `LoaderInv`: the registry's lock is held by exactly the
  request between `Lock` and the end of its load. With it `AgeInv` is inductive: the rows in
  hand are at most `age` out of date and no older than what the registry has, because no
  second load can come between SELECT and assignment. What the registry has is then at most
  `idle + MaxQuery` out of date. `BuiltInv`: an adapter in use or in the cache was built by a
  request that has resolved its vendor, and none reads a version after that, so the version
  an adapter was built from never changes. `FetcherInv` is the adapter's lock; from the
  re-check under it follows, in `TokenInv`, that the adapter of a request that fetches has no
  usable token until this one stores its own. `TokenInv` also bounds how much longer the
  adapter believes in a token than the vendor, `left <= alive + MaxFetch`.
- `SentAlive` needs a condition on the time from a token's issue to its arrival: at most the
  buffer (30 s in the code, where httpx waits at most 15 s for the next bytes of the answer)
  and less than the token's life, which is the vendor's choice. Without it the property is
  false, as the lifetime is counted from the arrival.
- `JwksInv`, `PortalInv` date what is carried and stored: an answer in flight is at most its
  age behind its source, an entry at most the longest age and its time in the cache. In
  `JwksInv`, `DarkDated` does this for an empty cache: while it is empty, `dark` of a published
  key is at most `idle + MaxFetch`, unless the cache is stale, where nothing is refused from
  it. Emptying the cache moves neither clock, and an answer stored at `idle = 0` without the
  key is from before its publication.

Only model-checked, not proved: liveness (`FirstRequestEnds`, `FirstPassesLocks`,
`PendingIsTaken`), which is out of the prover's reach, as is anything about `ENABLED`. Every
invariant and action property that a run expects to hold is proved. No module has a recursive
operator.

## 5. Not modelled

- Formats: headers, serialisation, key construction (keys are opaque; equal keys are one key),
  HMAC, logging, tracing, metrics, secrets and the static vendor adapters, which keep no state.
- `middleware/quota.py` and the per-user rate limit: no route uses them.
  `registry.invalidate()`, `refresh_credentials()`: nothing calls them.
- The connection pool of Redis as a counter (an exhausted one raises, which is covered).
- The HTTP method in keys, several vendors in one process, slugs with characters that the
  flush's pattern gives a meaning to (`*`, `?`, `[`).
- The rows of vendors, endpoints and keys as the admin API creates and edits them: each route
  reads and writes in one transaction. What other components see of them is modelled there
  (the active flag in `Jobs`, versions in `Registry`, limits in `Quota`).
- The order of the middleware and their headers.

## 6. The plan

Done: Dedup with its abstraction SharedCalls, Proxy, Quota, ResponseCache, Jobs, RateLimit,
Registry, Jwks, PortalTokens: the core is the path of a proxied request, and what the others
add is what that path takes for granted.

Next:

1. The request keys, with the method they leave out, and the admin's rows as transactions.
2. Theorems that cross components: what a request is answered on a path on which registry,
   token, cache and deduplication each add their delay.
