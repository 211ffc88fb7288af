# GoShort: a TLA+ development

GoShort is a URL shortener in Go: PostgreSQL holds users, URLs, refresh tokens,
idempotency records and click events; Redis caches redirects; a pool of
goroutines stores clicks; several instances may share the database. This
directory models the parts whose correctness depends on the order of steps of
several actors, checks them with TLC, and proves with TLAPS all their safety properties, the
three refinements, and what four pure functions compute.
Paths below are relative to the repository.

## Inventory

| Component | State | Operations | Hard because |
|---|---|---|---|
| Idempotent creation (`handler/url_handler.go` 124-498, `repository/idempotency_repository.go`, `service/url_service.go`) | `idempotency_keys`, `urls`, a mutex per user and key in each process | `CreateURL`: lock, Get, Reserve, insert with retries, Complete | instances share only the database; any statement may fail after it took effect; a process may die between two |
| Click pipeline (`worker/click_worker.go`, `Redirect`, `repository/click_event_repository.go`) | channel of 1000, 4 workers, `click_events` | enqueue, take, save, back off, drop | timeouts whose statement commits later; full channel; deletion of the URL |
| Shutdown (`main.go` 325-360) | listeners, handlers, channel, pools | signal, `server.Shutdown` (10 s), close the channel, wait, close Redis and the database | runs concurrently with handlers and workers |
| URL service and cache (`service/cached_url_service.go`, `repository/url_repository.go`, `cache/redis.go`) | `urls`, one Redis entry per code | create, redirect, PATCH, DELETE | read, write and invalidation are separate calls, and calls may fail |
| Sessions (`auth/auth_service.go`, `repository/refresh_token_repository.go`) | `users`, `refresh_tokens` | register, login, refresh (rotation), logout | lookup before the transaction; lost answers |
| Rate limiters (`security/rate_limiter.go`, `main.go` 129-142) | two maps of windows per client address, one for all requests and one for logins | admit or 429 with Retry-After | the time is read before the lock, and again after it |
| Analytics (`click_event_repository.go` 19-103) | none of its own | four queries | no transaction around them |
| Pure algorithms (`generateShortCode`, `isPublicIP`, `validateURL`, `cacheTTL`, `detectDeviceCategory`, `parseURLID`, the backoff) | none | - | boundaries |
| Access tokens, JSON decoding, headers, configuration, dashboard | none shared | - | - |

The handlers call the services, these the repositories and Redis. `Redirect`
hands an event to the pool without waiting for it. The components meet in the
database: creation and deletion feed the cache, deletion erases click events by
`ON DELETE CASCADE`.

What makes each correct: one URL per key and durable answers (creation); no
click counted twice, none accepted lost silently, a shutdown that drains and
ends (clicks); staleness only for known reasons and for a bounded time, writes
by owners only (cache); one exchange per token, one live token per session and
no access after a logout but by tokens already sent (sessions); a bound on bursts
and truthful refusals (rate limiter); sections that differ only by what happened
meanwhile (analytics). The full list of hazards, line by line, is in `PROJECT.json`.

## Modules

A step of a request is one call to PostgreSQL or Redis together with the local
code after it. All modules use this grain: between two calls any other actor may
act. Inputs (keys, users, destinations) are model values.

### `Idempotency`, with `CreateOnce`

A key of the model is the pair (user, header), as in `lockKey` and in the unique
constraint. `pc[r]` is the place in `CreateURL`; `lock[i][k]` the mutex on
instance `i`; `record[k]` the row of `idempotency_keys`; `urls` the inserted
rows, each named by the request and the attempt that inserts it.

| Action | Code |
|---|---|
| `Arrive` | entry of `CreateURL`; without a key straight to `createURL` |
| `Acquire`, `Unlock` | `getIdempotencyLock`, `Lock`, the deferred `Unlock` |
| `Get`, `Reget`, `Replay` | `idempotencyRepo.Get` before and after the reservation; 409, or the stored response |
| `Reserve` | `INSERT ... ON CONFLICT DO NOTHING` |
| `Refuse` | any refusal of `createURLResponse`: invalid body or URL, alias taken, no random bytes |
| `Collide` | unique violation on a generated code, up to ten times |
| `Insert`, `Complete` | the row; then the pending record becomes completed |
| `Fail` | a statement reports an error |
| `LateCommit` | the database commits a statement whose caller gave up or died |
| `Crash` | a process dies and restarts with an empty map of mutexes |

A failed statement goes to `late`: it may commit now, later, or never. This
covers lost connections, cancelled request contexts and database timeouts.
A response body is the row it names and the form of its bytes, marshalled or
read back from JSONB. Deletion of a URL is not part of this module: `urls` are
the rows ever inserted.

`CreateOnce` is the promise a client relies on: a key makes at most one URL
(`Make`), and every successful answer names that URL (`Tell`).
`ImplementsCreateOnce` maps `urls`, `key`, `status` and `body` to it.

### `ClickWorkerPool`, with `ClickDelivery`

Redirects (`LookupFound`, `LookupFailed`, `EnqueueSend`, `EnqueueRefused`,
`EnqueuePanic`), the channel as a sequence, workers (`Take`, `Save`, `Fail`,
`Wake`, `Exit`), the deletion of a URL with its cascade, and `main`
(`Signal`, `Drained` or `DrainTimeout`, `PoolStopped`, `CloseRedis`, `CloseDB`,
`ExitProcess`). `fate[r]` records what became of the event of redirect `r`;
`rows[r]` counts its rows in `click_events`. A URL found in Redis may have been
deleted meanwhile, so `LookupFound` does not need the row while Redis is open.
A `select` on a closed channel whose context is also done may take either
branch; both are modelled. `ClickDelivery` says that a click is counted at most
once, only when it was accepted, and that it is erased only with its URL.

### `URLCache`

`rows` by id with the sequence `nextId`, one `cache` entry per code, and for
each request the row it holds in memory. Two history variables guard no action:
`suspect` are the codes whose last invalidation failed or was skipped, or that
were filled with a row changed since it was read; `shown` is every row, as it
was, that the table ever showed to redirects (`Remember` in the two statements
that can show a new one). `EntriesWereVisible` holds whole entries against
`shown`, destination included: its mutant writes a PATCH through to Redis before
the `UPDATE`, so that Redis has a destination that was never committed.
`expires_at` is left out, because the API
refuses to set it. Creation is one step: the unique code admits or refuses it.
PATCH and DELETE of rows the user does not own end without a change and are no
steps of the model.

### `RefreshTokens`, with `Session`

A token is the random value that `generateRefreshToken` draws, numbered in the
order of the draws; the same number stands for the access token signed just
before it, which is sent in the same answer. `held` are the tokens a client has
received. All refresh tokens live equally long, and so do all access tokens, so
they run out in order: `stale` and `expired` say how far (`Expire`).

| Action | Code |
|---|---|
| `Register`, `Login` | one statement each; the answer of a login may be lost |
| `FindActiveByHash` | the lookup of `Refresh` and `Logout` |
| `FindByID` | `Refresh` reads the user, signs the access token, draws the refresh token |
| `RotateRevoke`, `RotateInsert`, `RotateCommit` | the transaction of `Rotate`: the first takes the row lock (a second `UPDATE` of the row waits and re-evaluates its `WHERE`, as PostgreSQL does at READ COMMITTED), the last makes both changes visible |
| `Abort` | any failure before the commit; the transaction is rolled back |
| `Revoke` | the statement of `Logout` |

The answer to a commit, to `Revoke` and to the login's insertion may be lost.
`RequireAuth` and `parseAccessToken` are predicates: they change nothing and ask
no database. `session[t]` and `out` are history variables. `Session` is the
promise: a token is opened, exchanged or ended, each in one step and for good;
`ImplementsSession` maps its `live` and `used` to the state of the rows.

### `RateLimiter`

The two limiters of `main` in a row: every request passes `global`, a login then
`login`. `Enter` and `EnterLogin` read the time, `Count` is the critical section
(window, count, copies) with the decision, `Refuse` looks at the clock again and
writes the 429. `MaxWait` bounds how long a handler waits for the mutex, which is
held for a map access only. `admitted` is a history variable. A request past its
handler keeps no local state.

The comments of `main.go` (130, 137) allow "up to 60 requests per client IP per
minute" and 10 logins. These are limits per window, and a window begins with the
first request after the last one: a client may use up one window at its end and
the next at its beginning. `BurstBound` says what remains true of any span: twice
the limit. The limit is also per process; instances do not share it.

### `Analytics`, on top of `ClickWorkerPool`

It extends the click pipeline by readers: `Ask`, `CheckOwner`, `Query` (four
times), `Refuse` (not found, not the owner, database error). `AllDrained` and
`ShutdownTimeout` replace `Drained` and `DrainTimeout`, because
`server.Shutdown` waits for handlers of both kinds. A section of a report is a
function from group names to counts; a user agent is the set of words that
`detectDeviceCategory` looks for. `before[a]` is a history variable.

### `Algorithms`

Operators for `generateShortCode`'s rejection of bytes, `cacheTTL`, `isPublicIP`
on IPv4 addresses and `validateURL`, with theorems about all their arguments.
IPv6 addresses and host names are outside: `validateURL` does not resolve names.

## Runs

| Run | Shows |
|---|---|
| `idempotency_safety` | `AtMostOneURLPerKey`, `AnswersAreDurable`, `RecordIsThere`, `RecordsOnlyAdvance`, `LocalDuplicatesWait`, the refinement, and that `IInv` holds, before it is proved |
| `idempotency_liveness` | `EveryRequestAnswered` |
| `clicks_safety` | `OnePlaceAtATime`, `CountedOnce`, `DrainedBeforeClose`, `GracefulShutdownAbortsNothing`, `DropsOnlyAfterRetries`, the refinement |
| `analytics` | `ReportsOnlyGrow`, `ReadersAreAwaited`, and for the composed system `ShutdownCompletes`, `EventsSettle` |
| `cache_safety` | `StalenessHasACause`, `EntriesWereVisible`, `OnlyOwnersWrite`, `DeletedStaysDeleted` |
| `cache_expiry` | `CacheConverges` |
| `sessions` | `ExchangedOnce`, `OneLiveTokenPerSession`, `LogoutIsEffective`, `LockoutNeedsALostAnswer`, `NoNewAccessAfterLogout`, the refinement |
| `rate_limiter` | `BurstBound`, `RefusedOnlyWhenFull`, `RetryAfterFits` |
| `idempotency_conflict` | violated: 409 "is in progress" when nothing is |
| `idempotency_bytes` | violated: a replay has other bytes than the first answer |
| `clicks_redirect` | violated: a redirect past its lookup sends, and panics, after a shutdown timeout |
| `cache_invalidation` | violated: an entry survives the change of its row |

### What the four violated properties say

* **A failed creation wedges its key.** `CreateURL` returns at
  `handler/url_handler.go:381` with the reservation still pending, and nothing
  ever releases it: every retry gets 409. The reservation also stays after a
  crash or a lost answer. In those two cases releasing it would break
  `AtMostOneURLPerKey` (the mutant `FailReleases` shows it); after a refusal
  that preceded any insertion it could be released safely.
* **Replays are equal as JSON, not as bytes**: the first answer is the
  marshalled text, later ones are printed by PostgreSQL from JSONB.
* **Shutdown after a timeout closes the channel under running redirects.**
* **The cache-aside fill races with invalidation**: read row, PATCH commits and
  deletes the entry, then the old row is stored. It stays until its TTL, which
  `cache_expiry` shows to be the limit.

### Bounds

* Idempotency: three requests are an owner, a duplicate on the same instance and
  one on another; two attempts reach both branches of `Collide`; one crash at
  any point. Keys do not interact except through the requests, so one key and
  requests without a key suffice. `MaxAttempts` is 10 in the code.
* Clicks: four redirects fill two workers and a channel of two slots, or leave
  one waiting behind them; two attempts distinguish the last from the others.
  All redirects share one URL, so a deletion meets events in every place.
* Cache: five requests allow create, redirect, PATCH or DELETE, re-creation of
  the code by another user and one more; two ids give one reuse of a code; two
  faults. `cache_expiry` has four requests of one user, two ids and a fault: a
  fill of a deleted row can meet the row that took over its code.
  `cache_invalidation` needs one id and no fault for its counterexample.
* Sessions: four tokens are a login and three refreshes, or several logins; three
  concurrent requests. A live token is one not revoked: tokens run out by `stale`,
  apart from the rows. Once the tokens are used up a further refresh can only
  abort.
* Rate limiter: three requests are one more than twice the login limit of one, so
  a window too many shows; a global limit of two makes the limiters differ. Two
  ticks to a second and three to a window leave half a second to be cut off. Six
  ticks hold two windows and the beginning of a third. Every Retry-After of the
  run is small; larger ones are covered by the theorem `RetryAfterFitsHolds`.
* Analytics: one reader against two clicks that differ in device, referrer and
  day, two workers, two attempts: a click may be stored, or stored late, between
  any two queries.
* Symmetry is used for safety runs only. Models stop when every request is
  answered, so deadlock is not checked; the liveness runs rule out early stops.

### Fairness

* `Idempotency`: weak fairness of a handler's step (a statement returns or
  fails; the driver and the connection see to that), strong fairness of
  `Acquire`: `sync.Mutex` switches to handing itself to a waiter that has waited
  for 1 ms. Arrivals, late commits and crashes are not fair.
* `Analytics` (and the pipeline in it): weak fairness of each worker (every `Create` has a
  five-second context, the backoff is capped) and of `main` (its wait is limited
  to ten seconds, `wg.Wait` follows the workers). Handlers get none: the lookup
  of a redirect and the queries of a report have no time limit.
* `URLCache`: weak fairness of `Expire` only: every `Set` carries a positive TTL.

## Proofs

TLC finds the properties true of the small instances above; TLAPS proves the
safety properties and the refinements for every value of the constants. A
module `M_proofs` holds the theorems about `M`. Its plan is always the same: an
invariant `Inv` that is true initially, that every action keeps (one lemma per
part, one step per action), and that implies the property; the temporal
conclusion combines these. Each strengthening was checked by TLC before it was
proved.

| Module | Theorem | Statement |
|---|---|---|
| `Idempotency_proofs` | `TypeCorrect` | `Spec => []TypeOK` |
| | `Invariance` | `Spec => [](TypeInv /\ IInv)` |
| | `NoDuplicateCreation` | `Spec => []AtMostOneURLPerKey` |
| | `DurableAnswers` | `Spec => []AnswersAreDurable` |
| | `RecordFound` | `Spec => []RecordIsThere` |
| | `AdvancingRecords` | `Spec => RecordsOnlyAdvance` |
| | `LocalDuplicatesWaitHolds` | `Spec => LocalDuplicatesWait` |
| | `Refinement` | `Spec => ImplementsCreateOnce` |
| `ClickWorkerPool_proofs` | `TypeCorrect` | `Spec => []TypeOK` |
| | `OnePlaceAtATimeHolds`, `CountedOnceHolds`, `DrainedBeforeCloseHolds`, `GracefulShutdownAbortsNothingHolds` | `Spec => []...` |
| | `DropsOnlyAfterRetriesHolds` | `Spec => DropsOnlyAfterRetries` |
| | `ClickDeliveryRefined` | `Spec => ImplementsClickDelivery` |
| `Analytics_proofs` | `ReadersAreAwaitedHolds`, `ReportsOnlyGrowHolds` | `AnalyticsSpec => []...` |
| | `PoolIsSafeWithReaders` | the invariants of the pool in the composed system |
| `URLCache_proofs` | `TypeCorrect`, `EntriesWereVisibleHolds`, `StalenessHasACauseHolds` | `Spec => []...` |
| | `OnlyOwnersWriteHolds`, `DeletedStaysDeletedHolds` | action properties |
| `RefreshTokens_proofs` | `TypeCorrect`, `ExchangedOnceHolds`, `OneLiveTokenPerSessionHolds`, `LogoutIsEffectiveHolds`, `LockoutNeedsALostAnswerHolds` | `Spec => []...` |
| | `NoNewAccessAfterLogoutHolds` | action property |
| | `SessionRefined` | `Spec => ImplementsSession` |
| `RateLimiter_proofs` | `TypeCorrect`, `BurstBoundHolds`, `RefusedOnlyWhenFullHolds` | `Spec => []...` |
| | `RetryAfterFitsHolds` | action property |
| `Algorithms` | `NoModuloBias`, `EveryEntryExpires`, `PublicAddresses`, `AcceptedDestinations` | lemmas about functions |

### Assumptions

All are named `ASSUME`s of the models, evaluated by every run. `None` is none of
the values it stands beside. At least one attempt is made (`MaxAttempts`,
`MaxRetries`); the channel has a slot and the pool a finite, positive number of
workers; every redirect has a URL; limits are natural numbers, a window and a
second are positive, and the wait for the mutex ends within a window
(`TimeAssumption`). For `Analytics` the set of clicks is finite, since a report
counts them. The bounds of the models (`MaxTokens`, `MaxIds`, `MaxClock`,
`MaxCrashes`, `MaxFaults`) are any natural numbers.

### Creation

`AtMostOneURLPerKey` is not inductive: a second request might be
about to insert, and an insertion given up earlier may still commit. `IInv` adds

* `ClaimsAreReserved`: a request *claims* its key when it is at the insertion or
  at `Complete`, has a row, or has an insertion in `late`. A claimed key has a
  record, and two requests that claim one key are the same request. `Reserve`
  gives a claim only when the record is absent, so nobody had one before;
* `OneRowPerRequest`: a request has at most one row or late insertion, and none
  while it is still at the insertion (a collision inserted nothing, an error
  ends the request);
* `CompletionsAreInserted`: a `Complete` under way or in `late` names an
  inserted row;
* `RecordsAreMade`: a completed record names a row inserted for its key;
* `AnswersAreFinal`: bodies are given only with a 201;
* the two properties `AnswersAreDurable` and `RecordIsThere`.

The refinement follows from the same invariant: only `Insert` and `LateCommit`
make a URL, each for a key that had none; only answers with 201 tell one.

`LocalDuplicatesWait` rests on `HoldsMutex`: from `Lock` to the deferred `Unlock`
the mutex of the key on the instance belongs to the request. `Unlock` and the
empty map of a restarted process free mutexes of nobody else.

### Clicks and shutdown

`OnePlaceAtATime` counts with `Cardinality`; the invariant says the same with
quantifiers: `Queued` (the channel holds exactly the queued events, each once)
and `Taken` (the same for workers). `Decided` ties the fate of an event to the
answer of its redirect, so a channel or a worker never holds an event that a
handler may still offer. `CountedOnce` needs `LateWasTaken`: a statement that may
still commit is about an event that was taken. For the shutdown,
`ExitsWhenDrained` (a worker leaves its loop only when the channel is closed and
empty), `StopsAfterWorkers` and `ClosesAfterHandlers` follow main's three waits;
that there is a worker at all (`PoolAssumption`) is what makes a drained channel
follow from workers that are gone.

`FateSteps` lists what a step may do to an event. `DropsOnlyAfterRetries` is one of
its cases, and the refinement of `ClickDelivery` maps each case to an offer, a
count, an erasure, a stop or a stutter.

### Analytics

Every step of the composed system is a step of the pool or `ShutdownTimeout`, so
the pool's invariant carries over. `SumOfGroups` shows that whatever a query
groups by, its numbers add up to the clicks of the URL, by a bijection between
pairs of a group and a position in it and the clicks. Then `ReportsOnlyGrow` is
about numbers: `Growing` orders them pairwise, the last being what is stored now,
which grows until the URL is deleted and is zero from then on (`NoOrphans`).
`Progress` bounds the length of a report, so that there is a next query.

### Cache

`HoldsOwnRow` is what a stale read still guarantees: the row in memory has an id
that was given out, and the row of that id, if there still is one, has the
same owner and the same code; `Numbered` says that ids are not reused.
`ActiveWasShown` says that the history has every row that is active now, and
`FillsVisibleRow` that what a redirect is about to store is in the history, under
the code asked for. The history only grows (`ShownGrows`), so an entry stays in
it whatever becomes of its row: this is `EntriesWereVisible`. `StalenessHasACause` is itself inductive beside these.

### Sessions

The property `OneLiveTokenPerSession` depends on who may revoke and insert.
`Locked` identifies the row locks with the open transactions and keeps their rows
active, `Fresh` says that a drawn token is its owner's alone and not yet stored,
`Drawn` that numbers are drawn in order within the session of an earlier login,
`Revoked` that nothing revoked revives. With these `OneLive` is inductive: a
commit revokes the one active token of a session and adds one, and a logout
leaves none for ever. `Undelivered` and `Ended` add what the clients know.

### Rate limiter

`Books` relates an entry to the history of what it admitted: windows of one
client begin a whole window apart (`Spaced`), each has at most the limit
(`Limited`), an admission is timely for its window but for the wait at the mutex
(`Timely`), and the entry counts the last window (`Current`). A span as short as
`BurstBound` says meets at most two windows. `Full` keeps, for a request that
was refused, that the window it saw stays full.

### Algorithms

From the types of the arguments alone (and a configured lifetime of at least a
second): each character of a code is chosen by exactly four bytes; `cacheTTL` is
positive, at most the configured lifetime, at most what the URL has left but for
a second; the octet tests of `isPublicIP` refuse exactly eight blocks of
addresses, and an accepted IPv4 literal lies outside them. Each is arithmetic by
cases: the byte by the multiple of 62 below it, the address by the block its
number falls in.

### Only model-checked

The four liveness properties, `EveryRequestAnswered`, `ShutdownCompletes`,
`EventsSettle` and `CacheConverges`: they need fairness and `ENABLED`, which the
prover does not handle. The four violated properties are counterexamples, not
theorems. Every other property of the runs is proved.

## Not modelled

* Signatures and claims of access tokens, password rules and hashing: stateless,
  and for the greater part a library's. `RequireRole` is used by no route.
* The values of codes and aliases: a code is a name, and a collision is a choice
  of the database. So routing is not modelled either; an alias that is also the
  name of a fixed route (`health`, `hello`, `dashboard`) is listed as a hazard.
* Lengths of time outside the rate limiter. A timeout or a TTL is a step that may
  happen at any moment; fairness says that it happens.
* GET and list handlers, which change nothing and read one row or one query.
* JSON decoding, security headers, configuration, the dashboard: no state that
  two requests share.
* The start of the process: the models begin with a server that listens.
* `PostgresIdempotencyRepository.Create`, which the program never calls.

## Plan

1. Done: creation (`CreateOnce`, `Idempotency`, proofs), clicks and shutdown
   (`ClickDelivery`, `ClickWorkerPool`), analytics on top of them (`Analytics`),
   cache (`URLCache`), sessions (`Session`, `RefreshTokens`), rate limiters
   (`RateLimiter`), pure functions (`Algorithms`).
2. Done: proofs of the safety properties, the action properties and the three
   refinements.
3. Next: state as lemmas what the liveness arguments rest on and the prover can
   reach (the attempts of an event only increase, the order of main's phases, a
   refused window that is over admits again), and prove more of what the pure
   functions compute (`Section` by group, the TTL of a fill).
