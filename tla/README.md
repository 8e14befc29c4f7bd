# A TLA+ verification project for kis-auto-trading

kis-auto-trading is a set of Python processes (FastAPI replicas, an outbox
relay, message workers, durable-job workers, Airflow DAGs) around PostgreSQL
shards, RabbitMQ and Redis. Most of its correctness lies between the processes:
what is committed with what, what is delivered twice, who wins a row. This
directory models those parts in TLA+, checks them with TLC on small instances
and proves the central invariants with TLAPS for every size.

Paths below are relative to the repository; `infrastructure/`, `modules/`,
`application/` and `routers/` are under `src/kis_auto_trading/`.

## 1. Inventory

| Component | State | Operations | Hard behaviour | What makes it correct |
|---|---|---|---|---|
| Transactional outbox and relay (`infrastructure/outbox`, `scripts/run_outbox_relay.py`) | `outbox_events`: status, attempts, available_at | `OutboxWriter.add`, `publish_pending` | relays side by side, crash between confirm and commit, backoff, rows that can never be published | nothing published is lost; duplicates come from faults only; every event gets its turn |
| Messaging (`infrastructure/messaging/rabbitmq.py`) | exchange, queues, dead-letter queue, unacked deliveries | publish with confirm and mandatory flag, consume, ack, reject | lost connections, redelivery to a second task while the first still runs | a message is applied, held or parked, never dropped |
| Inbox and message worker (`infrastructure/outbox/inbox.py`, `scripts/run_message_worker.py`) | `processed_messages` | `claim`, four event handlers | up to 32 tasks per worker, lost COMMIT answers | each event has its effect at most once |
| Durable jobs (`infrastructure/durable_jobs`, `routers/durable_jobs.py`, `scripts/run_durable_job_worker.py`) | `durable_jobs`: status, payload | request, transition, trigger, cancel, worker claim and finish | cancel against claim, worker crash, repeated messages, database errors | a job starts once, ends once, and answers given to clients stay true |
| Job handlers and news pipeline (`application/durable_job_handler.py`, `modules/news`) | `news_articles`, search index | collect, index, retry chain | partial bulk indexing, transient errors, retry limit | every stored article has an index job; retries match failures |
| Signal subscriptions (`modules/signal/handlers.py`) and their projection (worker) | `signal_subscriptions` in an account shard, `signal_subscription_projections` in the automation store | subscribe, unsubscribe, apply event | unordered events, read-compare-write without locks | the projection follows the newest revision |
| Signal fan-out and in-app notifications (worker, `modules/notification`) | `signal_delivery_intents`, `in_app_notifications` | materialise intents, create notification, mark read | fan-out limit, expiry, hint after commit | an intent and its event are stored together and once; no event is lost; what was read stays read |
| Realtime backplane and hub (`infrastructure/realtime`) | listener task, publisher client, connected sockets | publish, listen, deliver | reconnects, errors in the listener, sockets that close at any moment | a closing socket takes no hint from another; hints name what can be fetched |
| Identity and sessions (`modules/identity`, `infrastructure/session_store`) | login accounts, audits, Redis session keys and per-user index | signup, login, refresh, revoke, grant operator access | login against grant, SMEMBERS-then-DEL, TTLs | a grant revokes the sessions before it; operators are on record; sessions stay indexed and never come back |
| Request replay (`infrastructure/session_store/request_replay.py`) | Redis record per idempotency key | claim, complete, abort | crash or Redis error after the commit; users who share a key | a key executes its request once, and answers equal requests only |
| KIS token coordinator, lock, cache (`infrastructure/kis_token_coordinator.py`, `distributed_lock`, `key_value_store`) | cached token, refresh lock with TTL | get_access_token, wait, refresh | lock expiry, stale delete, waiters | one refresh at a time; no expired token handed out |
| Provider HTTP client, KIS clients (`external_provider`, `kis_*`) | none | retry loop, pagination, parsing | retry of unsafe calls | bounded attempts, no retry of unsafe requests |
| Portfolio and brokerage (`modules/portfolio`, `modules/brokerage_account`) | snapshots, positions, connections | capture, get, link | concurrent captures with one key | positions match position_count |
| Hybrid search (`modules/search`) | search index | index, search with rank fusion | partial bulk writes, index creation, documents in one list only | stored articles reach the index; fusion respects both rankings |
| Airflow DAGs (`airflow/dags`) | none | trigger a job, poll it | lost answers, polling a job that never ends | a run that succeeded has left an index job |
| Assembly, health, observability, drills, migrations | none of their own | - | - | - |

How they interact: every producer writes its events with `OutboxWriter` in its
own transaction; the relay publishes them; message workers and job workers
consume them from RabbitMQ and write to the stores, producing further events
(retry jobs, index jobs, delivery intents). API replicas share state only
through the databases and Redis. Two operations have no caller outside the tests
yet, `record_signal` and `refresh` of the session store; they are modelled as the
interface offers them.

`PROJECT.json` lists under "hazards" the places where this can go wrong.

## 2. Modules

    EventDelivery                what outbox + broker + inbox promise
       ^ implemented by
    Outbox  <---- OutboxProofs   outbox, relay, RabbitMQ, inbox
       ^ at least once, in any order: assumed, and EventDelivery implemented, by
    SubscriptionProjection <---- SubscriptionProjectionProofs
    SignalDelivery  EXTENDS  Realtime         <---- SignalDeliveryProofs

    JobLifecycle                 what the durable_jobs table promises of a job
       ^ implemented by
    DurableJobs <---- DurableJobsProofs       (assumes Outbox as well)
       ^ assumed, and JobLifecycle implemented, by
    NewsPipeline    EXTENDS  HybridSearch     <---- NewsPipelineProofs

    AccountApi      EXTENDS  RequestReplay, KisReads   <---- AccountApiProofs
       ^ KisReads' GetToken is TokenCoordinator
    TokenCoordinator <---- TokenCoordinatorProofs
    IdentitySessions <---- IdentitySessionsProofs

A module that another one extends (Realtime, HybridSearch, RequestReplay,
KisReads) has the state and the actions of its component and no Next of its
own; the composing module lets them interleave, bounds their failures and adds
what happens between them. The `MC*` modules only give constants and symmetry.

Two modules say what one part promises to the others. `EventDelivery`: an event
is stored once, then applied at most once (its handler may store new events in
the same transaction) and perhaps parked. `JobLifecycle`: a row is requested
once, then cancelled or claimed once, and a claimed job ends at most once.
Outbox and DurableJobs, which have the mechanism, are proved to implement them,
and so are the modules that only assume the mechanism: what they do with
`mail`, `inbox` and `dlq`, or with `status`, is a behaviour of the same promise.

### Outbox

The outbox of one database (a relay serves its databases one after the other,
each in a transaction of its own, so they do not influence each other).

* A row is `status`, `attempts`, `wait`. `wait` is the number of seconds until
  available_at, so time may run for ever on a finite state space; `Tick` is a
  second. `attempts` is counted up to `ExponentCap`, beyond which the code does
  not distinguish it.
* `todo[r]`, `confirmed[r]`, `failed[r]` are the rows relay `r` has locked and not
  tried, marked published, marked for retry. They are changes of an open ORM
  transaction: visible at `CommitBatch`, dropped by `RelayCrash`.
* `Due` is the WHERE clause with SKIP LOCKED, `IsOldestOf` the ORDER BY and LIMIT.
  `PublishConfirmed`, `PublishReturned` (mandatory message without a queue) and
  `PublishFails` (broken connection, message accepted or not) are the outcomes
  of `RabbitMQPublisher.publish`. `asleep` is the one-second sleep after a round
  that published nothing; because other databases may have published in the same
  round, `CommitBatch` may also skip it.
* A consumer is one delivery being processed. `ClaimNew` waits while another
  transaction has claimed the same event, as the unique index makes INSERT ON
  CONFLICT wait. `CommitHandler` may lose the answer to COMMIT. `held` says
  whether the broker still counts the delivery as unacked: after
  `ConnectionLost` the task goes on while the message is back in the queue.
* `effects`, `sends`, `spoiled` are history variables: no action reads them.

Abstracted: payloads (an event is refused or not: `Poison`), the set of bound
routing keys (`Routable`, fixed), what a handler writes.

### DurableJobs

A row is identified by job type and run key; run keys are kept in the structure
the code gives them (`root`, `attempt`; an index job's root is its collection
job). `Request` and `CanTransition`/`SetStatus` are the repository; the endpoint
and worker actions follow the code's transactions one by one: cancel is read,
update, reread; a worker claims, runs, and finishes in three transactions.
`TransientError`, `PermanentError`, `CollectNews`, `IndexNews`, `RunOther` are the
outcomes of the handler. After a transient error the worker is "retrying":
`RequestRetry` is the transaction of `_request_news_retry`, `RetryRequestFails` the
case that it raises, and only then is the attempt marked failed. `DatabaseError`
lets each of the worker's transitions raise, rolled back or durable. The request message comes from Outbox: `mail`
is the number of copies still to be delivered, `Redeliver` adds one.

Assumed of the clients, as the DAGs do: they trigger collections and the job
types without follow-up, with run keys that are not of the form the handler
derives. The status event of each transition is not read by anybody and is left
out here; it is one of the unroutable rows of Outbox.

### SubscriptionProjection

One subscription. `Repository.save` is `Session.merge`: it selects the row again
and COMMIT writes only the columns that differ from that SELECT. So a save is
`Merge` and `Commit`, with `DirtyColumns`, `Conflicts` and `Flushed` for what
SQLAlchemy and PostgreSQL do. `Slots` is the number of deliveries handled at the
same time, `MaxOpen` the number of requests open at the same time.

### SignalDelivery and Realtime

One signal. The ids of a subscription, an intent and a notification are
functions of signal and user, so each is the user's name; an event is a pair of
the `record_signal` call it comes from and the user (0 for `signal.created`).
`rows`, `mail`, `inbox`, `dlq` are what Outbox provides. Every find, merge and
commit of a worker is a step; a claim is in the same transaction as its effect.
`task` is what one delivery is doing, with the users it has still to look at
(`todo`), those its merge will insert and those it will announce. After the
commit of a notification the task still has its hint to publish ("hint") and
its message to ack, and may crash in between.

Realtime is one API process: `topic` is what Redis has sent to the listener's
connection, `sending` the `gather` over the copy of the subscribers. A websocket
goes through accept, subscribe, disconnect and the finally clause, and the
lifespan ends by closing first the backplane and then the hub. `ConnectionLost` is
a RedisError, after which the listener connects again; `ListenerDies` is any other
exception, or one of the aclose calls in the finally clause: the task ends for
good, and at the end of the lifespan `backplane.aclose` raises it, so that the hub
is not closed. `owed` is history: the hints published while a socket could hear
them.

`World` lets the clock, the projection, the readers of notifications and the
process move at the last moment before somebody notices, because nothing else
depends on when. A new websocket is one of a user whose hint is about to be
published. Changes of the projection, new websockets and the end of the process
share the bound `MaxChanges`.

### IdentitySessions

One email address. A signup, a login and a grant are cut where other requests
can run: between lookup and INSERT, between reading the account and creating
the session, between read, commit, SMEMBERS and DEL. Session keys and the index
have times to live; a Redis transaction (MULTI) is one step. `before`,
`racing`, `orphans` are history and name the two windows the code leaves:
grants that all read "user" before the first commit, and sessions created
between the SMEMBERS and the DEL of a revocation. The README of the repository
(README.md:158) says that a grant "writes one audit record" and "revokes the
account's existing sessions"; what holds exactly under concurrency is `AuditTrail`
and `RevokesEarlierSessions`. A login that read its account before a grant and
creates its session after the DEL also lives on, with the level "user".

### TokenCoordinator

Each Redis or HTTP call is a step; times are seconds that are left and `Tick`
is one second for everybody. A token has the life KIS gives it (from the moment
KIS issues it), the `expires_at` the code computes (from the moment the answer
arrives), and the time to live of its cache entry (from the SET). `HoldLimit`
bounds how long a refresh takes; it is smaller than the safety margin, as in the
code's settings, and in the run as long as the lock's life, so that a refresh may
outlast its lock.

### RequestReplay, KisReads, AccountApi

RequestReplay has the routes with an Idempotency-Key: SET NX, the GET after a
failed SET NX, the handler's transaction as find, merge and commit, complete,
and abort after any exception. A row of a table is its user and one value,
because two bodies differ in every column. Key and `Fingerprint` are the code's:
neither names the user, and PUT /connection has no request body at all (what it
links comes from the environment of the process). Only `Owner` may link an
account; another user is refused after the claim (`Forbidden`). `claims` is
history: the calls that got a claim. KisReads has the reads from KIS: cache, token,
pages with retries, cache write. `Book` gives the versions of the holdings, and
KIS may move from one to the next between two pages; a list is the sequence of
the versions its pages were read from. AccountApi adds the routes over both, in
particular the capture of a portfolio with its two looks at the stored snapshot
and `Session.merge`. `World` lets KIS move and cache entries expire only when
somebody is about to look, because nothing else can tell the difference.

### HybridSearch and NewsPipeline

HybridSearch is one index: embed, HEAD, PUT, `_bulk` with rejected documents,
and a search as two queries answered in any order whose rankings are fused.
What the backend finds is any ranking of any of its documents. A score
1/(60 + rank), or a sum of two, is a fraction and compared exactly (`Plus`,
`Exceeds`); `Fused` puts a document at the place that the number of documents
ahead of it says, which is what sorting by score does. NewsPipeline adds the Airflow run (trigger, lost answer, polling,
timeout), the collection with its index job in one transaction, and the retry
chain. An index job without source keys fails at once (`NoSourceKeys`): a
collection that finds only known articles ends so, with a failed job and a dead
letter for an ordinary event. An operator searches when nothing else happens or
when a `_bulk` is about to happen, which are the cases a search can tell apart.

## 3. Runs

| Run | Instance | Result |
|---|---|---|
| outbox_safety | 1 routable and 1 unroutable event, 2 relays, 2 consumers, batch 2, 2 faults | 5 properties hold, about 680 000 states |
| outbox_live | 2 routable (one poison), 2 unroutable events, 1 relay, 1 consumer, batch 1, longest delay 3, 1 fault | `EventuallyHandled` holds |
| outbox_starved | as above with 3 unroutable events, no fault | `EventuallyHandled` violated |
| jobs_safety | 1 run key, 2 workers, 2 cancel requests, 2 attempts, 1 article, 1 fault, symmetry on workers and cancel requests | 6 properties hold, about 740 000 states |
| jobs_live | 2 triggers, 1 worker, 3 attempts, 1 fault | `RequestedJobsEnd` holds |
| projection_serial | 4 requests, 1 slot, 1 open request, 2 faults | 3 properties hold, about 400 000 states |
| projection_race | 3 requests, 2 slots | `ProjectionNeverRegresses` violated |
| tokens | 2 callers, 2 tokens that live 1 or 4 seconds, margin 3, lock 2, wait 1, refresh at most 2, 1 fault | 5 properties hold, about 310 000 states |
| sessions | 2 signups, 2 logins, 2 grants, sessions of 2 seconds, 1 Redis error | 6 properties hold, about 790 000 states |
| account_api | 3 requests of 2 users with 1 key, 2 readers, at most 3 calls, 2 pages, 1 retry, 1 failure | 5 properties hold, about 1 700 000 states |
| signals | 2 users, 2 `record_signal` calls, 2 slots, 2 sockets, 2 changes (subscription, new websocket, end of the process), 1 fault | 5 properties hold, about 1 200 000 states |
| news_search | 2 Airflow runs, 3 articles, feeds {}, {1,2}, {2,3}, 2 attempts, limits 1 and 2, 1 failure | 3 properties hold, about 1 000 000 states |

What the runs of the second half show:

* **tokens.** While no refresh outlasts its lock, refreshes exclude each other
  (`RefreshOwnsLock`) and KIS is asked only when the cache has no usable token
  (`NoNeedlessRefresh`), stale deletes included. The margin of the time to live
  makes up for the late `expires_at` (`TakenAlive`); a token that lives no longer
  than the margin is the exception, since it is cached for one second all the
  same. Waiters end, with an error at worst, when the lock's owner has died
  (`CallsEnd`).
* **sessions.** One account per email, an audit record exactly for operators
  (two only for grants that raced), revocation complete up to `orphans`, and no
  session that comes back after its end.
* **account_api.** As long as Redis keeps the record, a key's request is not
  executed twice at a time nor again after an answer (`KeyExecutesOnce`); every
  success answers what was asked, or, because a record does not say whose it is,
  what another call with the same key and fingerprint asked
  (`AnswersMatchRequest`: with two users both cases happen in the run); a cut or half-read
  list is neither cached nor handed on (`ListsWhole`); captures with one key
  agree unless one commits between another's second look and its merge
  (`SnapshotsConsistent` names that window).
* **signals.** Intents and their events come in pairs, once per announcement of
  the signal (`AnnouncedOnce`: `Announcing` are the `record_signal` calls that did
  so); no crash or rollback loses an event
  (`DeliveryNotLost`); hints name notifications that exist, and a websocket that
  closes, of the same or the other user, takes no hint from the one that stays
  open (`HintsSound`); a read notification turns unread only when two
  calls announced the signal (`ReadStaysRead`).
* **news_search.** Every stored article is indexed, or its job is open, or has
  visibly failed or been cancelled (`ArticlesReachIndex`). The result of a fusion
  is no longer than the limit and never puts a document before one that both
  rankings prefer (`FusionRespectsRankings`).

Why the bounds are enough to be interesting. Two relays and two consumers are
what a race on one row or one event needs; two faults allow a republished copy
to meet a redelivered one. Batch size 2 puts an unroutable row in front of a
routable one in the same transaction. `DelayCap` 3 with `ExponentCap` 2 makes the
cap of the delay take effect (2^2 > 3), as 60 does with 2^6. In the jobs two
attempts give one retry of the collection and of its index job, and a third
makes the retry chain longer than one step for the liveness run. Four requests
are two full subscribe/unsubscribe cycles, so an old event can be two revisions
behind. In tokens one life is below the margin and one above it, a refresh may
last as long as its lock, and a second token lets a stale delete hit a fresh
entry. In sessions two grants and two logins meet in every order, and a session
of 2 seconds can be refreshed, expire, or outlive its index if it were not
extended with it. In account_api `MCBook` has holdings of three pages (one more
than the limit) and two versions in opposite order, so that a stock can be read
on two pages. One key is enough: the records of different keys have nothing in
common, no property relates two keys, and with one key every two requests meet.
In signals two users make a fan-out a transaction of several
intents that a change of a subscription, a second fan-out or a crash can meet in
the middle; two slots handle two copies of one event, or both users' events, at
the same time. Two websockets can be one user's or two users', and one change is
left for the end of the process or for a subscription. The limit of a fan-out is not reached there: it only cuts the
list before the handler starts.
In news_search the second feed repeats an article of the first, so a run can
find articles that another run's open or failed job has to index; three
documents are enough for two rankings to agree on a pair and differ on another.
In these five runs deadlock is not checked, except in tokens, because calls and
requests are used up; the same holds for projection_serial.

What the violations show:

* **outbox_starved.** The relay orders due rows by `occurred_at` and retries for
  ever. Rows no queue takes are always the oldest. While fewer than batch size x
  longest delay (in rounds) exist, some round has room (outbox_live); one more
  and they fill every batch. In the code the threshold is about 100 x 60 rows,
  and every job transition adds one. docs/SCALE_OUT_TESTING.md:148 says delivery
  "remains at-least-once".
* **projection_race.** The revision check reads the projection without a lock.
  With two deliveries in flight (the prefetch is 32) the older event overwrites
  the newer one and the projection stays wrong. The test
  `test_stale_signal_subscription_event_does_not_overwrite_projection` covers
  the sequential case, which projection_serial confirms.

### Fairness

Relay rounds and consumer loops are `while True` loops of processes the
deployment restarts, so `RelayStep(r)`, `ConsumerStep(c)`, `WorkerStep(w)` and
`SlotStep(h)` are weakly fair; a handler ends because each call it makes has a
timeout. Nobody has to make a request, and no fault has to happen. outbox_live
and outbox_starved use `PromptSpec`: a second passes only when no relay has work
to do, i.e. rounds are fast compared with the one-second sleep. This is the
favourable case, so the violation does not rest on it. In TokenCoordinator time
passes and a call's steps are weakly fair: each of its awaits is a sleep, has the
provider's timeout, or is a Redis call. That a Redis call returns, with an error
at worst, is an assumption where Redis stands alone: only the Sentinel clients
have a socket timeout. Nobody has to call.

## 4. Proofs

The `*Proofs` modules hold for all values of the constants. Each has an inductive
invariant, one lemma that every step preserves it (one step per action, one
leaf per conjunct the action can disturb), and short theorems that draw the
properties of the runs from it. Each invariant was also checked by TLC on the
instance of its run.

| Module | Invariant | Theorems, and the property of a run they state |
|---|---|---|
| OutboxProofs | `IInv` | `TypeCorrect`, `NoPublishedEventLost` (`PublishedIsSafe`), `ExactlyOnceEffect` (`EffectOncePerInboxRow`), `DuplicatesExplained` (`DuplicatesNeedFaults`), `Refinement` (`ImplementsDelivery`) |
| DurableJobsProofs | `JInv` | `TypeCorrect`, `AtMostOneStart` (`HandlerStartsOnce`), `NoLostCompletion` (`CompletionNeverLost`), `CancelSound` (`CancelAnswersTruthful`), `RetriesSound` (`RetryFollowsFailure`), `ArticlesIndexed` (`ArticlesHaveIndexJob`), `RunningIsOwned`, `TerminalStable`, `LifecycleKept` |
| TokenCoordinatorProofs | `TInv` | `TypeCorrect`, `LockHeld` (`RefreshOwnsLock`), `OneRefresh`, `RefreshNeeded` (`NoNeedlessRefresh`), `TokensTakenAlive` (`TakenAlive`) |
| IdentitySessionsProofs | `IInv` | `TypeCorrect`, `AccountUnique` (`OneAccountPerEmail`), `AuditComplete` (`AuditTrail`), `GrantRevokes` (`RevokesEarlierSessions`), `SessionsIndexed` (`LiveSessionsIndexed`), `SessionsNotRevived` (`NeverRevived`) |
| AccountApiProofs | `AInv` = `RInv`, `LInv`, `SInv` | `TypeCorrect`, `ExecutedOnce` (`KeyExecutesOnce`), `AnswersRight` (`AnswersMatchRequest`), `ReadsWhole` (`ListsWhole`), `SnapshotAgrees` (`SnapshotsConsistent`) |
| SubscriptionProjectionProofs | `PInv`, `ClaimsExclude`; `OneAtATime` while nothing overlaps (`NoOverlap`) | `TypeCorrect`, `NewestHandled` (`ProjectionIsNewestHandled`), `NeverRegresses` (`ProjectionNeverRegresses`), `HandledOnce`, `Refinement` |
| SignalDeliveryProofs | `SInv` = `HInv`, `DInv`, `HintsNamed` | `TypeCorrect`, `IntentsOnce` (`AnnouncedOnce`), `NothingLost` (`DeliveryNotLost`), `HintsRight` (`HintsSound`), `ReadKept` (`ReadStaysRead`), `Refinement` |
| NewsPipelineProofs | `PInv`, `QInv` | `TypeCorrect`, `ArticlesNotForgotten` (`ArticlesReachIndex`), `FusionCorrect` (`FusionRespectsRankings`), `LifecycleKept` |

Why the properties are not inductive by themselves, and what the invariants add:

* **Outbox.** `RowLocks` (rows of an open batch are pending and belong to one
  relay), `CopiesCounted` (copies sent = copies spoiled + 1 if the row is, or will
  be, published), `ConfirmedIsKept` (safety already holds from the confirm on,
  before the commit), `TasksAgree` (a claim excludes a second claim and a
  committed inbox row) and `TravelsStored`. The step that could break
  `PublishedIsSafe` is the commit of rows confirmed earlier. For `Refinement`,
  every step maps to a Store, Apply or Park of `EventDelivery` or a stutter.
* **DurableJobs.** `OwnersAgree` (a worker past its claim has the row running and
  is alone on it), `StartsCounted`, `RunningKnown`, `CancelsAgree` (what a cancel
  request has read is still true), `RetriesAgree` (once a retry exists the
  attempt's worker can only mark it failed, and it does so only after the
  transaction that requests the retry has committed or raised) and `IndexFollowsCollect` (the index
  job is absent while its collection is still working, so its keys are the ones
  inserted). `RunningIsOwned`, `TerminalStable` and `LifecycleKept` are not part of
  a run. The last needs of `JInv` that a worker past its claim, and a cancel
  request past its first read, name a row.
* **TokenCoordinator.** `LockAgrees` ties the age of a refresh to what is left of
  its lock: whoever refreshes within the lock's lifetime owns it, with exactly
  the lifetime that is left, so no other caller can have taken it.
  `OneRefresh` is the mutual exclusion that follows.
  `DecisionHolds` says that the second look at the cache is still true when the
  request is sent. `FreshWhileHeld` bounds what a token has lost of its life by
  the duration of its refresh; with `HoldLimit < Margin` it gives `CacheLives`
  (the cache forgets a token of ordinary length before KIS does) at the SET.
* **IdentitySessions.** `LevelsOnRecord` (a level above "user", wherever it was
  copied to, has an audit record), `RacersKnown` (once a grant is on the record,
  the others that will still change the account are among `racing`),
  `SessionsCreated` and `VictimsListed` (between SMEMBERS and DEL the list has
  all the sessions to revoke, up to `orphans`).
* **AccountApi.** `RInv`: a request that executes owns its record unless Redis
  dropped it (`ClaimKept`), it is among `claims` (`WorkersClaimed`), the record it
  owns has its fingerprint (`ClaimMatches`), and a completed record has the row of
  a call that claimed the key with the record's fingerprint (`RecordsFaithful`). `LInv`: there is room for the page a reader asks for
  (`RoomForPage`) and what it writes to the cache is whole (`WritesWhole`).
  `SInv`: what a merge chose (`MergeChosen`), that no snapshot exists before the
  first capture is done, and that no more events were stored than captures
  returned (`EventsCounted`).
* **SubscriptionProjection.** `RevisionsCounted` bounds the revisions by the
  requests that have returned, also in rows mixed by two flushes; `RowsStay`.
  `NewestHandled` and `NeverRegresses` hold for any number of slots and of open
  requests as long as `NoOverlap` has held, i.e. no two slots have been between
  their look at the projection and their commit at the same time: many tasks may
  hold events, wait for claims, crash and start again. projection_race refutes the
  second without that hypothesis, so the overlap of look and commit, and neither
  the number of tasks nor concurrent requests, is what breaks the projection. `ClaimsExclude` (a claim
  excludes a second one and comes before the inbox row) holds for any number of
  slots: every event is still handled once, as `Refinement` says, so what the
  race breaks is the order of handling and not the inbox.
* **SignalDelivery.** `HInv`: a hint is owed only to sockets that the hub would
  send to now (`OwedHeard`), so the copy of the subscribers taken at Receive has
  them; the lifespan that ends owes nothing (`ListenerKnown`). `DInv`: a claimed event has no inbox row and one claimant
  (`ClaimsExclude`); the events of a fan-out are stored with the inbox row of its
  signal (`FanOutTogether`), so a second fan-out of that signal does not exist;
  what a fan-out will announce it inserts or has found (`FanOutAgrees`); a
  notification exists exactly when an event of its intent is in the inbox
  (`NotificationsHandled`). A handler about to clear `read_at` has an event that
  is not in the inbox while the notification comes of one that is, so there are
  two: this is `ReadKept`. `FirstFew` (LIMIT returns at most Limit rows) rests on
  `LargestExists`, proved from the well-foundedness of < instead of by induction.
  `Refinement` maps the commit of a fan-out to one Apply that stores the events
  of its intents; that they are new is `FanOutTogether` again.
* **NewsPipeline.** `AttemptsInOrder`: an attempt that has a successor has given
  up. With it, `CollectedOnce` (once an interval has its index job, no attempt of
  its collection will store again) says that the keys of an interval are set
  once, and `KeysPartition` that every stored article is in the keys of exactly
  one interval. `IndexedWhole` follows the batch of an index job from the rows it
  read to the `_bulk` that took all of it.
  `QInv`, that an answered search holds two rankings and the fusion of them, is
  only a lemma. Fusion itself is proved for any two rankings,
  without induction over them: `SortsBefore` is a strict linear order on the
  documents found (`SortsBeforeLinear`); a document that both rankings prefer
  sorts before the other (`AheadSortsBefore`, from `PlusMonotone` on fractions);
  so the numbers of documents ahead are all different, and being n different
  numbers below n they are 0 .. n-1 (`AheadCounts`), which makes `Fused` a
  sequence without gaps or repetitions (`FusedFacts`) in the order of the scores
  (`FusionRight`). `LifecycleKept` shows that the pipeline moves its jobs as
  `JobLifecycle` allows, i.e. assumes no more of DurableJobs than is proved there.

Assumptions on the constants, all named in the modules and evaluated by TLC on
the runs: bounds and times are natural numbers (positive where zero would mean
no batch, no page, no lifetime); null values are outside the sets they complete;
triggers are first attempts; sets that are counted are finite (users, readers,
stock codes, requests of a subscription); logins and grants are different
requests; KIS' lives of a token have a longest one, and a refresh takes less
than the safety margin (the provider's timeout is far below it); the bodies of a
subscription request contain on and off, and the owner of the KIS account is a
user; every version of the holdings has a
page.

The refinements other than Outbox's, `HandledOnce` and `OneRefresh` are not
properties of a run; they were checked by TLC on the instances of the runs (the one of
SignalDelivery without sockets and changes of subscriptions, because the sets
of new events make it slow) before they were proved.

Only model-checked: the liveness properties `EventuallyHandled`,
`RequestedJobsEnd`, `ProjectionConverges` and `CallsEnd`. Fairness and ENABLED are
outside the prover's reach.

## 5. Plan

Modelled and checked: all modules above. Proved: every safety property of the
passing runs, and that each module that relies on the outbox's inbox or on the
durable_jobs table stays within their promises. Left:

1. AccountApi with TokenCoordinator: that a reader's token is one the coordinator
   hands out is now by assumption (`GetToken`).

## 6. Not modelled

* Wiring, logging, metrics, health endpoints, heartbeats, configuration,
  credentials, migrations and the verification drills under `scripts/verify_*`,
  which keep no state of the system and mostly drive containers.
* Which shard a user's rows are in (a function of the user id), engine
  construction, and the declaration of exchanges and queues at start-up
  (constants).
* The indexing of the job history (`_index_durable_job_history`): it writes a
  snapshot of job rows into a second index; two such jobs that overlap may leave
  an older status there. Only its outcome is in DurableJobs.
* The DAG for daily candles, which is the news DAG with another job type.
* A websocket that takes no data without failing: a send ends.
* The content of messages, articles, prices and embeddings, password hashing,
  and the text of answers, beyond what the properties tell apart.
