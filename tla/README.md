# QuantumBilling: a TLA+ verification project

QuantumBilling collects usage events of LLM applications and bills for them. This directory holds
TLA+ models of the parts of the repository that keep state or run concurrently, the TLC runs that
check them on small instances, and TLAPS proofs of the most important properties for every
instance. `PROJECT.json` lists components, runs, mutants, theorems, hazards and, under `map`, the
source lines behind every definition.

## 1. The system

| Part | State it keeps | Operations | Talks to |
|---|---|---|---|
| Ingest API (`engine/cmd/ingest-api`, `internal/handler`) | none of its own; `idem:*`, `bf:*`, `org:*` in Redis | `POST /v1/events`, `POST /v1/events/batch` | Redis, Postgres, Kafka |
| Authentication (`internal/auth`) | `apikey:{raw_key}` in Redis | `ValidateAPIKey`, before every request | Redis |
| Keys API (`cmd/keys-api`, `internal/keys`, `internal/byok`) | `developer.api_keys`, `apikey:*`, `security.byok_provider_keys`, the master key | create, list, revoke keys; register provider keys | Postgres, Redis |
| Cache daemon (`internal/daemon`) | `org:*`, `org:*:enduser:*` in Redis | `warmAll` at start and every 5 minutes | Postgres, Redis |
| Control plane (`control-plane/src/identity`, `enduser`, `customer`, `redis`) | organizations, end users, customers, audit log | create, update, suspend | Postgres, Redis |
| Analytics worker (`cmd/analytics-worker`, `internal/orchestration`, `consumer`, `clickhouse`) | `currentBatch`, `flushCh`, row counter | consume, buffer, flush, shut down | Kafka, ClickHouse |
| LiteLLM callback (`gateway/custom_logger.py`) | a dead-letter file | build and post an event, retry | Ingest API |
| BFF (`control-plane/src/bff`) | `bff:analytics:*` in Redis | twelve `GET /usage/...` routes | Redis, analytics API |
| Analytics API (`cmd/analytics-api`, `internal/analytics`) | none | eighteen routes | |
| Web console | none | | control plane |

An event travels from a client or the LiteLLM callback through authentication, deduplication
and existence checks to the Kafka topic `usage-events`, and from there through the worker's buffer
to ClickHouse. Postgres holds the truth about organizations, end users and keys; Redis holds copies
of it, written by the control plane, the keys API, the daemon and the lookups, with no common lock.

What is hard here, and why a test hardly reaches it:

- *Deduplication across concurrent requests.* The claim (`SETNX`), its rollback (`DEL`) and the
  publish are separate round trips; a batch has a Bloom filter in front of the claim.
- *Failure half-way.* Most Redis and Kafka errors are logged and ignored; the process may die
  between two calls; a call that failed may have been executed.
- *Retries.* The callback repeats a request whose answer was lost while the first may still be
  running.
- *Two goroutines that flush one buffer*, wake-ups that are dropped when a channel is full, failed
  batches that go back in front of newer events, and a shutdown that waits for nobody.
- *A cache with four writers*, each of which reads Postgres first and writes Redis later, one of them
  from rows that say nothing about what they name.
- *Check, await, write* in the control plane, without a transaction.
- *A response cache keyed by part of the request*, and two routing tables in two languages that must
  agree.
- *Deaths of the keys API* between the table and the cache.
- *Expiry* of an idempotency key while retries are on their way.

The same list, at the lines where it bites, is `hazards` in `PROJECT.json`.

## 2. Modules

| Module | Models | Uses |
|---|---|---|
| `Delivery` | what the worker promises: take, store, store with an error, crash | |
| `AnalyticsWorker` | consumer goroutine, `AddEvents`, flush goroutine, `Flush`, shutdown, restart; the refinement of `Delivery` | `Delivery` |
| `EventRow` | the fields of an event: validation, enrichment, defaults | |
| `AnalyticsWorkerProofs` | theorems about the worker and about the rows it writes | `AnalyticsWorker`, `EventRow` |
| `ClaimLedger` | what deduplication promises: claim, give up, deliver, forget | |
| `IngestSingle` | `HandleSingleEvent`, expiry of its keys; the refinement of the ledger | `ClaimLedger` |
| `IngestSingleProofs` | theorems about it | `IngestSingle` |
| `IngestBatch` | `HandleBatchEvent`, `processBatchEvents` | |
| `IngestBatchProofs` | theorems about it | `IngestBatch` |
| `Ingest` | both kinds of request over one Redis and one topic | `IngestSingle`, `IngestBatch` |
| `GatewayCallback` | `_build_event`, `_post_event` against the ingest API, with batches of others; the ledger again, between callbacks | `Ingest`, `ClaimLedger` |
| `GatewayCallbackProofs` | theorems about it | `GatewayCallback` |
| `ExistenceCache` | the cache of organizations and end users and its writers | |
| `ExistenceCacheProofs` | theorems about it | `ExistenceCache` |
| `ApiKeys` | API keys: creation, revocation, authentication, death of keys-api | |
| `ApiKeysProofs` | theorems about it | `ApiKeys` |
| `AnalyticsRead` | the BFF's routes, response cache and forwarding, the analytics API | |
| `MCAnalyticsRead` | the organization ids of its run | `AnalyticsRead` |
| `AnalyticsReadProofs` | theorems about it | `AnalyticsRead` |
| `CustomerStatus` | the life cycle of a customer | |
| `CustomerStatusProofs` | theorems about it | `CustomerStatus` |

In all of them one atomic step is one round trip to Redis, Postgres, Kafka or ClickHouse, one
section under a mutex, or one channel operation; everything between two of these is local to one
request or goroutine. A program counter per request or goroutine says which call comes next, so
requests interleave at every call. A failing call is an action of its own, counted in `faults` and
bounded by `MaxFaults`; where the caller cannot tell whether the call was executed and that makes a
difference, both outcomes are possible. `Kill` is the death of a handler with its process.

**AnalyticsWorker.** An event is its offset. `fetched` is the position of the reader, `cevents` what
`ConsumeBatch` has returned, `currentBatch` the shared buffer, `batch[f]` what flusher `f` has
swapped out, `flushCh` the channel of capacity one. `Flush` is `FlushSwap`, then `InsertOk` or
`InsertFail`, then after a failure `Requeue`, in the flush goroutine (`"ticker"`) and in `main`.
`Shutdown` cancels the context and enters the final `Flush`; `MainReturn` ends the process whatever
the other goroutines are doing. `Restart` loses everything but ClickHouse and the committed offset,
which is always the first: `CommitMessages` has no caller, and a group without a committed offset
reads from the start (the default of the reader the code's comments name). `ConsumeBatch` and
`InsertEventBatch` are placeholders in this commit; they are modelled as their callers use them.
As `Delivery` the worker has taken the offsets up to `fetched`, and what is in any of its four buffers
is pending: a fetch is a `Take`, `InsertOk` a `Store`, `InsertFail` a `StoreError`, a restart a `Crash`,
and every other step moves events from one buffer to another, or none.

**IngestSingle.** `idem` is the set of idempotency keys, `topic` the set of messages with the request
that sent them, `spc[r]` the place of the handler. `Expire` is the end of a TTL; `age` is a history
variable that counts it, so that a message remembers in which TTL of its key it was sent. A key does
not expire under a handler that still uses it: a request takes seconds, the TTL is 24 hours. As
`ClaimLedger` a request holds its event from `SETNX` to answer, and a message of the current TTL is a
delivery. The lookups are abstracted to their outcome; a Postgres error is an outcome too. The Kafka
producer is a placeholder; its error path is modelled as the handler treats it (logged, 202).

**IngestBatch.** The Redis Bloom filter is the set of keys added to it; `BF.EXISTS` may answer
"maybe seen" for any key and must for an added one. `bloomModule` says whether this Redis has the
`BF.*` commands at all (the compose file uses redis-stack, which has them; a plain Redis answers
every one with an error). `bexists` is the Go variable `exists`, 0 after an error. `blocal` is the
in-process filter, which lives as long as the request.

**ExistenceCache.** `status` is Postgres, `cache` the set of keys in Redis. An end user is created in the
one organization it belongs to (`home`), which may be outside of the model. Control-plane requests,
the daemon and lookups each read in one step and write in a later one. Expiry is an action.
`keyed` is what `developer.api_keys` says of a pair of organization and end user: `InsertKey` and
`RevokeKey` are the statements of keys-api, which check neither status nor membership (the foreign keys
to the two tables are independent), and `warmAll` warms both names of every active key as they are.

**CustomerStatus, GatewayCallback** follow the same pattern; in `GatewayCallback` attempt `n` of
callback `c` is the single request `<<c, n>>` of `Ingest`, a request that was sent may be handled at
any later time, or never, and other clients of the organization send batches that may carry the same
event. `_build_event` may raise (`BuildEventError`), which ends the callback with nothing posted.
`CallbacksKeepLedger` reads the ledger one level up: a client is a callback, with all its attempts.

**ApiKeys.** `row` is the status in `developer.api_keys`, `ctx` what Redis holds under the raw key, `kpc`
where the request that creates the key is. `Crash` ends every creation in flight, with its row or its
context written or not; nothing of it is resumed.

**AnalyticsRead.** A path is the sequence of its segments and a query its `org_id`. The text of an
organization id is a sequence of segments too, because the BFF puts the decoded `:orgId` in the path as
it is: `PathOf` is the string the BFF builds, `UrlPath` the path the HTTP client makes of it, which ends
at the first `?` or `#`. `Routes` is the routing table of the API and `Reply` what its handlers make of a
request: in this commit they read neither the token nor the trusted headers and compute no totals.
`proxyRequest` is `Ask`, `CacheGet`, `ApiAnswers` or `GiveUp`, `CacheSet`, each Redis call with its
swallowed error.

**EventRow** has operators only; what is proved of them is in `AnalyticsWorkerProofs`. Token counts are
`int32`, whose sum wraps; the other modules see of an event what decides its fate.

## 3. Runs

| Run | Instance | States | Shows |
|---|---|---|---|
| `worker` | 4 events, batch size 2, fetches of 1 or 2, one failing insert, one restart | 85 thousand | safety of the buffers, that every event is stored, refinement of `Delivery` |
| `ingest_single` | 3 requests, 2 organizations (one unknown), one id, one fault, one crash, one expiry of each key | 0.3 million | at most once per TTL, what the keys in Redis stand for, refinement of the ledger |
| `ingest_batch` | 2 batches of up to 2 events, 2 ids, with and without the Bloom module, one fault, one crash | 1.2 million | counters, duplicates in and between batches, and that a duplicate has a winner |
| `cache` | one organization, one end user of it or of another, API keys that name them, 2 control-plane requests, one lookup, one fault | 0.45 million | no phantom entry; convergence |
| `keys` | 4 keys, one put in Redis by hand, one fault, any number of crashes | 0.3 million | a usable key has a row; an issued key works |
| `callback` | one callback with 2 attempts, one batch of up to 2 events, one fault, one crash | 0.5 million | retries publish once, whatever batches do to the keys; nothing is dropped; refinement of the ledger by callbacks |
| `customer` | one customer, 2 requests, one failing audit insert | 0.2 million | the stored status is audited |
| `read` | 2 requests over every route, with and without query and claim, 4 organization ids (one segment, one that is a word of the cached paths, two of three segments that end the path), one fault | 0.2 million | an answer is the request's own; the path of a plain id reaches the handler it is meant for; every read ends if its Redis commands do |
| `worker_drain`, `late_batch`, `keys_revoked`, `customer_churn` | the smallest instance that shows the difference | | see section 6 |

*Why the bounds are enough to be interesting.* The worker's instance has two full batches, so a
batch can fail while the next is being filled and while `main` flushes too; a restart loses every
kind of buffer. Three single requests are what a rollback race needs: one that claims and rolls
back, one that is refused in between, one that claims again. Two events per batch are the least that
can hold a duplicate and two batches the least that can overlap. Two attempts are the least with a
late first request; a second callback with the same id is to the ingest API one more request, which
`CallbacksPublishOnce` covers for any number, and the batch takes its place as the other client. Two
reads are the least of which one fills the cache for the other; the set of routes is the real one,
and the long ids lead to another handler, to none, and to an organization route that is cached. The
end user of `cache` is a member of the organization or a stranger to it, from the start. One fault
and one crash are each placed by TLC at every call. The properties that say "unless a call has
failed" are conditional because the code ignores the error in question; the failing paths are still
explored for the other properties.

Every property of a passing run has a mutant: an operator next to the original (`SetNXAlways`,
`RequeueAtBack`, ...) with a plausible mistake, under which TLC reports that property violated.

No run uses symmetry.

Deadlock is checked in every run; the states in which the system may stop for good (`Stopped`,
`Idle`) are explicit stuttering actions.

## 4. Fairness

Three runs check liveness under fairness.

- `AnalyticsWorker!Fairness`: a goroutine that can run does run (weak fairness of its steps). The
  `select` of `Start` chooses among ready cases at random and its ticker keeps firing, so a case that
  is ready again and again is taken (strong fairness of `TickerTick` and `TickerRecv`); the broker
  keeps delivering what the topic holds (strong fairness of a fetch that returns something, because
  a fetch that times out can come in between). Failing inserts, signals and restarts are not fair.
  Since failures are bounded, `EventuallyStored` says: once the writer recovers, everything is stored.
- `ExistenceCache!Fairness`: the daemon goes on for ever, and a key nobody refreshes expires. A key that
  the daemon refreshes is not bound to expire, as its period (5 minutes) is shorter than the TTL (an
  hour). The daemon's Redis client has timeouts (the defaults of go-redis); that its Postgres queries
  return is assumed. Nothing is assumed of control-plane requests and lookups: they may never come,
  and stop at any call.
- `AnalyticsRead!Spec`: only `GiveUp` is fair, because the HTTP client has a timeout of 10 seconds. The
  analytics API need not answer. The Redis client of the control plane has no command timeout, so no
  step of Redis is fair; `EveryReadEnds` has it as its premise that no read stays in a `GET` or `SET`
  for ever.

## 5. Proofs

`tlapm` checks the following for every value of the constants that satisfies the named
assumptions (`ConstantsAssumption`: bounds and sizes are naturals, batch and fetch sizes positive;
`SingleAssumption` and `NoEventAssumption`: known organizations are organizations, bounds are
naturals, the placeholder is not an event; `CallbackAssumption`: at least one attempt, bounds are naturals,
a batch is not a single request; `KeysAssumption`: preset keys are keys, the bound is a natural;
`BatchAssumption`: there is an organization, known ones are organizations, bounds are naturals;
`CacheAssumption`: an organization is not an end user, the placeholder is neither; `CustomerAssumption`:
bounds are naturals; `ReadAssumption`: an organization id is a sequence of segments and not empty, and no
word of the routes has a `?` or `#`).

*AnalyticsWorkerProofs.* `TypeCorrect` is inductive as it stands, because `TypeOK` also says at which
places a goroutine may hold events. `RowsAreAccountedFor` follows from it action by action: each
action moves a number of events from one term of the sum to another. `NoEventIsLost` is the same
argument over the ranges of the buffers, with lemmas on the range of a concatenation and of what a
fetch returns. It covers the events in the buffers after `main` has returned as well, which only a
restart brings back. `BuffersInTopicOrder` needs, besides the types and the accounting, that before the
shutdown `main` holds no batch, so the flush goroutine is alone with the buffer: only then does the
requeued batch fit exactly in front of what came after it. `FullBufferIsSignalled` needs that before
the first failing insert nobody is at the requeue, the one place where a buffer grows without a
signal.

`WorkerImplementsDelivery` is the refinement. `NoEventLost` is not enough for it: an insert that succeeds
must take its events out of the memory altogether, so no other buffer may hold a copy. That is
`HeldOnce`: the four buffers are pairwise disjoint and hold delivered events only. A fetch keeps it
because it delivers offsets above all earlier ones, the swap because it empties what it copies, the
requeue because it empties the batch it puts back. `TwoFlushers` states it from the point of view of one
flusher, so that one proof serves the flush goroutine and `main`.

`RetryKeepsRow`, `TotalIsSumOrNegative` and `KeyDecidesScope` are about `EventRow`. Defaults are idempotent,
so a requeued batch gives the same rows. The default total is the sum exactly when the sum fits; the
proof needs of 2^31 only that it is positive. `KeyDecidesScope` compares two payloads under one key: the
organization, key id and source mode they get are the key's, and they get the same customer exactly
when the key has one or the payloads agree, so a key without a customer leaves it to the client.

*IngestSingleProofs.* The inductive invariant `ClaimInv` says who holds an event: a request holds it
between its `SETNX` and its answer, and for good once its message is in the topic. A request with a
message in the topic has been answered (`AnsweredIfPublished`), the key of a held event is in Redis
(`HeldIsClaimed`), and no event has two holders (`OneHolder`). At-most-once alone is not inductive:
without `HeldIsClaimed` a second request could claim an event in flight, and without `OneHolder` a
rollback could delete the key of a published event. `SinglePathAtMostOnce` and `PublishedKeepsKey`
are read off the invariant. `ClaimsAreBacked` is proved on top of it: a step that ends a holder's
claim without a publish also removes the key, or counts a failure or a crash.

`SingleImplementsLedger` is the refinement: under `ClaimInv` a `SETNX` that succeeds is a `Claim` of a
free event (`HeldIsClaimed` again), an answer after it is a `GiveUp` or a `Deliver`, an expiry is a
`Forget`, and every other step leaves holders and deliveries alone.

*ApiKeysProofs.* `UsableKeysHaveRows` needs that a creation between INSERT and SET has its row,
`IssuedKeysWork` that an issued key that is not preset has its context; both are in `KeyInv` and hold
until the first failing call, also when the process dies in between.

*IngestBatchProofs.* `TypeInv` adds to the types where the loop is (`Place`): inside it an event is at
hand, what is accepted lies behind it, a 202 means it has ended. `CountsAlwaysAddUp` needs `Place` so
that an accepted position is a new element of `baccepted`. `ClaimInv` is about runs without a failing
call: what a batch has accepted is in every filter it uses and in Redis, an event on its way to be
accepted is none of those (`Claimed`) and was not published before the batch arrived (`Fresh`), and
what is in the topic is in filter and Redis and belongs to a batch that is done (`Sent`). Neither
property is inductive alone: the three ways past the filter (`BF.EXISTS` says no, the in-process
filter says no, `SETNX` succeeds) each rest on another part of `Claimed`. The steps of other batches
only add keys (`Grows`), so they disturb none of it; two batches that overlap are outside of it, as in
the code. `DuplicatesHaveWinners` rests on another invariant: every key in Redis has a batch that
accepts its event (`KeysWon`), which a death would break.

*GatewayCallbackProofs.* The ingest API is composed with its clients here, so the invariants of
`IngestSingle` are proved again in the presence of callbacks and batches. `TypeInv` adds to `TypeOK`
the types of the single requests and that a request carries the event of its callback
(`CarriesOwnEvent`). `ClaimInv` is the claim invariant over attempts: batches may add idempotency
keys and never delete one, and their messages are theirs, since a batch is not an attempt
(`BatchEffect`). It gives `CallbacksPublishOnce`. `DropInv` ties an answer to the topic: until a
call fails, an attempt that was answered 202 is published (`AcceptedIsPublished`) and an attempt
that was not yet made has no answer (`NoAnswerYet`), from which `CallbacksDropNothing` follows: the
only answer on which a callback that has built its event stops without the dead-letter file is 202.
A callback whose `_build_event` raised has no event to speak of, and the theorem says nothing about
it. `CallbacksImplementLedger` needs `ClaimInv` too. An attempt that has died with its claim gives
the claim up, with the key still in Redis, so no later attempt claims the event again; an attempt
that claims is the only holder, whichever callback it belongs to.

*ExistenceCacheProofs.* `NoPhantoms` needs that whoever is about to write to Redis (a control-plane
request, the daemon with its rows, a lookup with its backfill) writes what has a row by then or, for
the daemon, what an API key names; rows are never deleted and a revoked key keeps its row, so stale
reads stay true in that respect.

*CustomerStatusProofs.* `StatusesAreAudited`: until an audit insert fails, the status of a customer is
audited or some request that wrote this very status has its insert ahead. The request need not be the
last writer, which is why the property holds although the check of the status is stale.

*AnalyticsReadProofs.* `AnswersAreOwn`: what is cached under a key is the API's reply to every request
with that key, and what a request has fetched is the reply to its own call; this is where it matters
that `Reply` depends on path and query alone. `ForwardedIsAlwaysServed` compares the two routing tables
route by route (`OrgPath`, `AnalyticsPath`): of the API's patterns exactly one matches a path the BFF
builds, whatever plain organization id is in it (one segment, no `?` or `#`), and its handler is the
one the route is meant for. Through
the cache this needs that an entry is the reply to a call with the same path.

*Only model-checked.* Liveness (`EventuallyStored`, `SuspendedOrgForgotten`, `StrangerForgotten`,
`ActiveOrgWarmed`, `EveryReadEnds`): the prover does not handle fairness and `ENABLED`. Every
invariant and every refinement that a passing run checks is also proved. No module uses a
`RECURSIVE` operator.

## 6. Where code and documentation differ

Checked by a run that TLC must refute, each with a finding in `PROJECT.json`:

- `worker_drain`: the final `Flush` does not drain the service (story 10, AC 19). `main` waits for
  neither goroutine: in the trace it flushes an empty buffer, the consumer adds an event, and it
  returns. A restart reads the events again, so `NoEventLost` is not affected.
- `late_batch`: an event published on `/v1/events` is published again by a later batch, because the
  single path never adds to the Bloom filter and the batch ignores the `SETNX` of a "not seen" event
  (story 5, AC 18).
- `keys_revoked`: a revoked key still authenticates (story 12, AC 11, and the comment on `RevokeKey`).
- `customer_churn`: with concurrent updates a customer can leave `CHURNED` (the comment in the transition
  table, and TC-10 of the end-to-end tests). In the trace one update reads `ACTIVE` and asks for
  `ACTIVE`, others suspend and churn the customer, and the first then writes `ACTIVE`.

Recorded by the models' actions as the code has them, without a run of their own:

- Above twice the batch size `AddEvents` writes a warning and goes on; its comment and story 10,
  AC 13 say the consumer pauses.
- A failed publish is answered 202; story 4, AC 28 says 503.
- 409 means "claimed", not "processed" as story 4 has it: the handler that claimed the event may
  have died or may yet roll back.
- Two overlapping batches can both publish an event.
- An event that occurs twice in a batch can be accepted twice: a single request that has claimed it may
  roll its key back between the two `SETNX` calls of the batch. Story 5, TC-19 says only the first
  occurrence is accepted. `NoDuplicateInBatch` is therefore about batches among themselves.
- The daemon caches an end user under an organization it does not belong to, if an active API key names
  the two; `CreateKey` does not look at memberships. Story 3, AC 1 and 2 call the
  entry a membership flag, from `customer.end_users`. Once the key stays revoked the entry goes
  (`StrangerForgotten`).
- An active API key keeps a suspended organization in the cache; a suspended end user is found
  again by the Postgres fallback, which does not look at the status.
- `CreateKey` caches a key whose INSERT failed; story 11, AC 13 has the cache follow the commit.
- The callback treats 409 as a failure and dead-letters the event; story 21, AC 15 says to skip it.
  `NothingDropped` shows the code's way is the safe one when a handler may die after its claim.
- An exception of `_build_event` is logged and the usage is lost: neither posted nor dead-lettered. Story
  21, AC 22 wants missing fields handled gracefully, TC-08 an exception caught and logged, and nothing
  says what becomes of the usage. A `usage` or `completion_tokens_details` that is `None` raises (line
  62), and so do `datetime` times, whose difference is no number for `int` (line 65).
- With a key that has no customer, `EnrichFromKeyContext` keeps the payload's `customer_id`; its comment
  (`models.go:88`) says the payload's ids are never trusted for virtual-key and BYOK modes. The customer of
  a key is optional in `CreateKey` and in the schema.
- The default of `total_tokens` is an `int32` sum, which wraps for large counts
  (`TotalIsSumOrNegative`); `docs/backend/story_9_clickhouse_writer.md` calls the sum safe.
- The batch path enriches its events and does not call `Validate`; the single path does.
- On the batch path an end user whose id has a colon is never found, because `splitPair` cuts the pair
  at the last colon; on the single path it is.
- `GET /v1/keys` always asks for the first 100 keys; story 12 promises `limit` and `offset`.
- `RegisterProviderKey` always fails with a database error: its INSERT gives no `id`, and the schema
  (`control-plane/prisma/schema.prisma:2179`) declares the column as primary key without a default. Story
  13, TC-01 expects 201 and a row.
- The BFF puts `:orgId` in the forwarded path unescaped and unchecked: an id with a `/`, `?` or `#` reaches
  another handler or none. `ForwardedIsServed` is therefore about plain ids.
- A Redis that accepts a command and never answers makes a read of the BFF wait for ever, although the
  response cache is optional: the client has no command timeout.
- `pathParam(r, 3)` of `/v1/orgs/{org_id}/summary` is `summary`, and the answer names that as its
  organization; TC-05 of `engine/internal/analytics/service_test.go` expects the id. `Body` has what
  the code does.
- The BFF signs its service token in base64url; `VerifyServiceToken` of the engine compares a
  hexadecimal signature. Nothing calls it.

## 7. Abstractions

- Ids, organizations, keys and payloads are model values; Bloom filters are sets with false
  positives.
- Idempotency keys expire in `IngestSingle`; `IngestBatch`, `Ingest` and `GatewayCallback` cover one TTL.
- A TTL never ends within a request (see `Expire`).
- Refusals before any shared state is touched (method, content type, size, JSON, validation) are one
  action, `Refuse`, whose status stands for all of them.
- Serialising a decoded event cannot fail, so that branch of the single path is left out.
- Postgres is configured (`PG != nil`); without it the ingest API rejects what the cache misses and
  the daemon does not start.
- `CALLBACK_MAX_RETRIES` is at least 1. The death of the LiteLLM process is not modelled; it loses
  the callbacks it was working on.
- Organization ids with an empty segment, a dot segment or a percent sign are left out of `AnalyticsRead`:
  the HTTP client or the API's mux rewrites or redirects such paths.
- The subscription check of `suspend` is an early return that changes nothing.
- Audit entries are modelled for customers only. Nothing reads the others.

## 8. Not modelled

- `gateway/key_sync.py`, `SyncKey` and `RevokeKey` of the daemon, `CommitMessages`, the token
  verifications on both sides: nothing calls them.
- BYOK credentials (`internal/byok`): registration always fails (section 6), and nothing looks a credential
  up, so there is no state to model.
- `ListKeys`: it reads one page and changes nothing.
- The engine's security audit logger, which nothing calls either, and tracing: they write and format
  what no part reads back.
- The content of analytics answers: the API of this commit returns zero totals, and the ClickHouse
  queries it would run have no caller.
- Guards other than the one in front of the usage routes, schemas, migrations, scripts, fixtures and
  the web console: no state that another part depends on.
- A billing worker exists only in the documentation.

## 9. Plan

Done: the worker and its promise, the ingest paths, their composition with the callback, the ledger
and its refinement by requests and by callbacks, the cache, the API keys, the customers, the reads; the
proofs of section 5.

Next, in this order:

1. Proofs of what the liveness properties rest on: that a key left in the cache after a suspension has a
   writer that read it before, and that a buffer that is not empty always has a step ahead of it.
2. A composition of the ingest topic with `AnalyticsWorker`, once consumer and producer are more than
   placeholders and the format between them is fixed by code.

## 10. Running

    tlc -workers 2 -config Worker.cfg AnalyticsWorker
    tlapm AnalyticsWorkerProofs.tla

and likewise for the other runs of `PROJECT.json` and for `IngestSingleProofs.tla`, `IngestBatchProofs.tla`,
`ApiKeysProofs.tla`, `ExistenceCacheProofs.tla`, `CustomerStatusProofs.tla`, `AnalyticsReadProofs.tla` and
`GatewayCallbackProofs.tla`.
