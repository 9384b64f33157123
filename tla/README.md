# A TLA+ development of go-gallery

This directory holds TLA+ modules that model the concurrent core of the
go-gallery backend, TLC configurations that check them on small instances, and
proofs, checked by TLAPS, of what holds for instances of any size. Paths below
are relative to the repository (`src/`).

## 1. The system

The backend is a set of services that share a few stores: the GraphQL API
(`server`, `graphql`, `publicapi`), `tokenprocessing`, `kafka-streamer`,
`opensea-streamer`, `pushnotifications`, `feed`, `feedbot`, `autosocial`,
`emails`, `activity_stats`, `userpref` and `rasterizer`. Each runs as several
processes. They communicate through Postgres (the core database and the mirror
database), redis, Cloud Tasks queues (at-least-once delivery over HTTP), Pub/Sub
and Kafka. Nothing else is shared, so the interesting state is in the stores and
the interesting interleavings are those of calls to them.

### Inventory

| Component | State it keeps | Operations | Interacts with | What is hard | What makes it correct |
|---|---|---|---|---|---|
| Token processing runs (`service/tokenmanage`, `service/throttle`, `runManagedPipeline`) | redis: `lock:`, `inflight:`, `paused:` keys, the error counter; postgres: a token's media; messages in the queue | submit, start, keep alive, finish, record an error, pause a contract, retry, unlock | API (submits, reads the indicator), queue, redis, postgres | read-then-write lock; a goroutine per run; runs turned away; crashes between any two calls; redelivery; expiry | one run per token; no leaked lock; an indicator that tells the truth; bounded retries; media that is never lost |
| Media handlers (`tokenprocessing/process.go`, `handler.go`) | none of their own | batch, retry, refresh, post preflight, mint, wallet removal, spam | runs, multichain, queue | which errors are answered with which status, hence redelivered or not | every message leads to a record; limits on retries |
| Media pipeline (`tokenprocessing/pipeline.go`) | a job's intermediate results | find metadata, download, cache, save | storage, RPC, postgres | errors that are or are not the token's fault; media made although an error is returned | the save never replaces servable media by none |
| Key rate limiter (`service/limiters`) | redis: token buckets | `ForKey`, `Reset` | error counter, retry delays, mint, push, HTTP clients | its distributed lock; three outcomes besides yes and no | limits hold; its failure does not punish callers |
| kafka-streamer | a batcher per topic; the group's committed offset; mirror rows | add, parse, submit, commit, rebalance, close, restart | Kafka, mirror database | parsing workers beside the loop; callbacks on the loop's goroutine; crash between write and commit; replays; stale errors | nothing usable is skipped; nothing unparsable is passed; rows are current; the topic moves on |
| Batcher (`util/batch`, beneath the data loaders) | current batch id, batches, cache | `Do`, `DoThunk`, `DoAll`, `Prime`, timers | every API request | lock-free id, a mutex per batch, a timer goroutine | each caller gets its own answer; a batch is submitted once; every call returns |
| Highlight mints (`publicapi/mint.go`, `processHighlightMintClaim`) | a claim's status | claim, track the transaction, sync, process media, retry | mint provider, multichain, token runs, queue | status machine over redeliveries; crash between mint and record | one mint per user and collection; every claim reaches a final status that is true |
| Auth sessions (`service/auth`) | session rows, refresh key in redis, nonces | start, continue, end, force refresh, consume nonce | every request | clocks of one second; concurrent refreshes; logout racing a refresh | an invalidated session stays so; a nonce is used once |
| Push notifications (`pushnotifications/expo`) | a batch of messages, tickets | send, check tickets | Expo, postgres | batch timer; errors by position; receipts and backoff | each caller gets the error of its own message; tickets are checked until final |
| OpenSea streamer | states of connections, as manager and connections see them | connect, subscribe, time out, reconnect | OpenSea websocket, queue | two goroutines per connection and one manager with channels both ways | never more subscribers than wanted; some subscriber in the end; no deadlock |
| Notifications (`service/notifications`) | notification rows, channels of users | dispatch, group, publish, subscribe | events, Pub/Sub, push | redis lock with ignored errors; unsynchronised maps | one row per group and window; no lost wake-up |
| Events and feed (`event`, `feed`) | events, feed events | dispatch now, later, as a group | notifications, feed, feedbot | fan-out over channels; exists-then-insert | one feed event per group; no goroutine left behind |
| Retrying client (`util/retry`) | queue of pending requests | do, retry, close | all provider clients | shutdown racing a request | every request is answered once |
| Multichain provider, persistence, GraphQL resolvers, autosocial, emails, rasterizer | rows | mostly one statement or one external call per operation | | merging of provider data | data correctness, out of scope here |

### How the modelled parts interact

    multichain --SubmitNewTokens--> queue --processBatch--> runManagedPipeline
        publicapi --refresh------------------------------->      |       ^
        publicapi --Processing--> redis <--lock, inflight, paused-+--> postgres: media
                                            retry: queue <--------+       |
    ClaimHighlightMint --redis locks, claim row--> queue --processHighlightMintClaim
                                                     ^ retry ----------'

    Kafka --messages, revocations--> streamTopic --Add--> messageBatcher --workers--> entries, errors
                 ^ commit                 \--Submit------------/ --submitF--> mirror database

    connectionManager <--state, unbuffered-- connection <--channel of one listener-- websocket
                      --requests, buffered-->

    queue --task--> sendThunk --appendMessage--> batch --goroutine--> Expo --tickets--> postgres
                        ^ errors by position ------'    checkPushTickets --receipts-----^

    requests --tokens--> ContinueSession --reads--> redis: force refresh time
    EndSession, changes of roles ------- writes --------^

Within `HighlightMint` a run of the pipeline is one step, because `TokenManage`
shows that runs come to an end. Its outcomes are the ones `runManagedPipeline` has
for its caller: media was made, an error, or no error although nothing was done.
The last is what a caller sees of a run that is turned away, be it by another run,
by a lock a crash has left, by a paused contract, or by redis failing within `Lock`
(`service/tokenmanage/tokenmanage.go:139-149`); it cannot tell them apart.

## 2. Plan

Order of work; the first eight are done.

1. `TokenManage`: the core of token processing (done).
2. `KafkaBatch` with the abstract `Mirror`, which it implements (done).
3. `TopicRestarts`: the accounting of errors per topic (done).
4. `Batcher` (done).
5. `HighlightMint`: claims from the request to the media (done).
6. `Sessions`: tokens, their issue and what puts them out of date (done; left:
   nonces, magic links and the other ways to log in).
7. `OpenSeaStreamer`: the connection manager and its connections (done; left:
   the seen-event cache and the dispatch of transfers).
8. `ExpoPush`: batches of messages and the job that checks tickets (done).
9. `Notify` (grouping under a lock whose errors are dropped), `Dispatch`
   (channels of `dispatchImmediate`), `Retryer` (shutdown racing a request).
10. `SharedLimiter`: the limiter's shared lock field, composed with `TokenManage`
    in place of its present nondeterministic answers.

Each module `M` but `Mirror` has a module `MProofs`. Every invariant, action
property and refinement that a run checks is a theorem (section 5); liveness is
left to TLC. Next, for the modules of 9 and 10: their safety properties, first
that a limiter's answer goes to the caller that holds the lock, so that
`PausesAreEarned` need not assume what the limiter does; and abstract
specifications of `HighlightMint` (a claim and the request that owns it) and of
`Batcher` (a function applied to each parameter once), which the invariants
proved here are the means to refine.

## 3. The modules

### TokenManage

One *run* is one call of `runManagedPipeline` in any process; `pc` is where it
is. Each action is one call to redis, postgres or the queue with the code around
it, since another run may be scheduled between any two calls.

| Code | Model |
|---|---|
| `SubmitNewTokens` | `MarkSubmitted` (the key), then `SendSubmitted` (the task) |
| `processBatch`, `processMediaForTokenManaged` | `Deliver`; a batch is represented by one message per token, because its tokens are processed by independent goroutines |
| `processMediaForTokenIdentifiers` | `Refresh`; its manager has no `maxRetries` |
| `StartProcessing` | `CheckPaused`, `IsLocked`, `SetLock`; the goroutine is `beat` and `KeepAlive` |
| a run that is turned away | `SaveTurnedAway` |
| `job.run`, `saveResult` | `RunJob`, `SaveResult` with `Saved`, the conditional update of `InsertTokenPipelineResults` |
| the callback | `StopKeepAlive`, `RecordErrorPaused`, `CountError`, `PauseContract`, `TryRetry`, then `Finish` or `Enqueue` and `SubmitTokenForRetry`, then `Unlock` |
| the answer 200 | `Ack` |
| TTLs | `ExpireLock`, `ExpireInflight`, `ExpirePause`, `Refill` |
| a process or request that ends | `Crash`; the queue redelivers |

`Faults` says which calls may fail and `MaxFaults` how often. `Timely` states that
a run ends before the keys it holds expire: the job has ten minutes and the lock
thirty, the `processing` key is rewritten every ten seconds and lives for a
minute. It is an assumption about the environment, since the save that follows
the job is not bounded by the job's ten minutes. Three history
variables make properties sayable: `badErrors`, `raced` and `orphaned`.

Tasks are a set: two equal messages of a token (same kind and attempt) count as
one, as a second delivery adds no state a redelivery does not already reach.

### Mirror, KafkaBatch

`Mirror` is the promise of a topic streamer: usable messages are written before
the cursor passes them, unparsable ones are never passed. `KafkaBatch` is the
code: consumers (one per process) that share one partition. A consumer's loop,
its rebalance callback and `Close` run on one goroutine, so what happens between
two calls of the broker or the database is one action; `Parse` is a worker.
`caller` remembers who called `Submit`, since an error goes another way for each.

The broker, the client library and the database are external. Assumed of them:
a consumer reads on from the committed offset when it is assigned; a callback
that returns an error leaves the revocation to the library, which completes it;
`Close` delivers one last revocation to a consumer that still has the partition,
or gives up; a commit by a consumer that no longer owns the partition is
refused; a batch of statements is one transaction.

`Implements` is the refinement `KafkaBatch => Mirror`, where `topic`, `written`
and `committed` map to themselves.

### TopicRestarts

`runStreamer`'s count of errors for one topic, over ticks of a clock. The history
`errorsAt` holds the time of each error, in order; `Recent` counts those of the
last interval.

### Batcher

A call is one `DoThunk` and its thunk. Actions are the accesses to shared state:
load of the id and the batch, the atomic counter, the section under the mutex,
the call of the batch function, the closing of `done`, and the
compare-and-swap of the id; `TimeoutBatch`, `TimerSubmit` and
`TimerCloseDone` are `closeAfterTimeout`. Reading the id and loading or creating
the batch is one step, because the id only moves past a batch that exists.
`Prime` is a call of `Prime` by a result subscriber or by the API, at any time;
subscribers themselves are registered when the loaders are made.
`Outcomes` is the batch function: a result per parameter, or an error for some.

### HighlightMint

A *request* is one call of `ClaimHighlightMint`, which makes at most one claim; a
*worker* is one delivery of a message that names a claim and counts attempts.

| Code | Model |
|---|---|
| `guardMinting`, `Lock` for the user and for the wallet | `ReadUserLock`, `SetUserLock`, `ReadWalletLock`, `SetWalletLock`: a read and a write each |
| `alreadyClaimedByUser`, `validateClaimableForWallet`, the limiter | `Check`, with `AlreadyClaimed` for the two SQL conditions |
| `ClaimMint` of the provider | `ClaimMint`: a transaction, a failed one, none, or one whose reply is lost |
| saving the claim, creating the task | `SaveClaim` with what `ClaimMint` returned (`pc` is "save" or "saveFailed"), whatever the chain did since; `QueueClaim` |
| `releaseLock` | `UnlockUser`, `UnlockWallet`; keys expire by `Expire` |
| `processHighlightMintClaim`, `trackMint` | `Take` (with the read of the claim, which may fail), `GiveUp`, `WaitForMinted`, `WaitForSynced`, `RunPipeline`, `Ended` |
| the branches of its error handling | `Calls`: the calls each branch makes, in their order; `Conclude` notes them in the worker's `todo` |
| those calls: `setStatus`, `retryMessage`, the reply to the queue | `WriteStatus`, `CreateTask`, `Reply`, one step each, between any two of which the worker may crash |
| crash and redelivery | `CrashRequest`, `CrashWorker`, `Redeliver` |
| the chain, the user's wallets | `Execute`, `MoveWallet` |

Histories: `overlapped` (conflicting requests that were let in together),
`doubled` (claims that had two messages), `stranded` (claims whose message or
last status was lost to a failure), `disturbed` (claims a handler of which crashed,
was delivered again, or had a call of its own fail), `processed` and `turnedAway`
(claims whose pipeline ran, or was turned away).

### Sessions

Time is counted in seconds, because that is how tokens are dated.

| Code | Model |
|---|---|
| `mustRefreshAuthToken` | `MustRefresh`, in `Accepted` |
| `issueSessionTokens` | `ReadRoles`, `Sign`, `Upsert` |
| `EndSession` | `InvalidateSession`, then `TakeClock`, `SetTime` |
| `AddUserRoles`, `DeleteUserRoles` | `ChangeRoles`, then `TakeClock`, `SetTime` |
| `ForceAuthTokenRefresh`, `setTimeScript` | `TakeClock`; `SetTime` with `SetsKey` and `KeyUntil` |
| the one-time login token | `ReadLoginToken`, `Consume` |

`Wiggle` is the minute the code adds to expiries; the model assumes that the
minute is longer than the way from reading a login token to redis.

### OpenSeaStreamer

Manager, connections and listeners are goroutines; one action is what one of
them does between two operations on a channel. A send on an unbuffered channel
is one action of both sides: `Deliver` is a connection's `setState` together with
the manager's `managerLoop`.

| Code | Model |
|---|---|
| `onConnecting`, `onConnected`, `onSubscribed`, `setRemoteState` | `Deliver` with `Expected`, `PendingAfter` |
| `updateSubscribers`, `requestStateChange` | `UpdateSubscribers` |
| `onTimeout`, `disconnectRandomConnection` | `Timeout`, `Disconnect` |
| `startNewListener`, `openWebsocket` | `StartNewListener`, `Dial` |
| `onManagerRequestedConnecting`, `onManagerRequestedSubscribed`, `subscribe` | `ReadRequest`, `SendJoin` |
| `onListenerRequestedConnecting`, `onListenerSubscribed` | `ReadListener` |
| `checkLastEventTime` | `Silence` |
| the listener, the websocket, OpenSea | `Answer`, `LoseAnswer`, `SocketFails` |

`overtaken` is a history: how often a connection reconnected while a request to
subscribe was still in its queue.

### ExpoPush

| Code | Model |
|---|---|
| `sendThunk`, `appendMessage` | `Receive` |
| `startTimer` | `TimeIsUp` |
| `sendMessageBatch` | `Lookup`, `Send`, `Record`, with `Errors` for the places of errors |
| the thunk and the handler's answer | `Result`, `Respond` |
| `checkPushTicketsRecursive`, `processTicketReceipts` | `BeginJob`, `QueryAgain`, `UpdateAndRecurse` |
| a user who signs a device off, a crash | `SignOff`, `Crash` |

A panic of the batch's goroutine ends the process, so `Lookup` then does what a
crash does (`Restart`).

Every module holds, before the definition each one changes, *mutants*: a
plausible mistake in that piece of code. `PROJECT.json` pairs each property with
a mutant that violates it, which shows that the property depends on the code.

## 4. The runs

| Run | Instance | Shows |
|---|---|---|
| `tokenmanage` | 2 runs, 2 tokens of 1 contract, 1 retry, allowance 1, 2 submissions, 1 failure (crash, redis, database, queue) | types and all safety properties |
| `tokenmanage_live` | 2 runs, 1 token, 1 submission, 1 failure (crash, redis, queue, limiter) | the lock and the indicator are cleared in the end; a queued token gets a media record |
| `kafka` | 2 consumers, 4 messages, usable or poisoned, batches of 2, 2 failures of any kind but an expulsion | refinement of `Mirror`, current rows, what a batcher must hold |
| `kafka_live` | 3 messages, empty ones too, batches of 2, 2 failures of any kind but of a write | only empty messages are skipped; a topic without poison is consumed to its end |
| `restarts` | 3 retries, interval 3, 9 ticks | panics are earned, and not later than twice the allowance |
| `batcher` | 3 calls, 2 parameters of which one may be primed, batches of 2, cache, a failing batch function | answers, batches, single submission, final cache, every call returns |
| `opensea` | 3 connections, 2 subscribers, 3 failures | the manager's picture, the bounds of the excess and of the queues, recovery |
| `mint` | 2 requests that share the user or only the address, 2 workers, 1 attempt and the message that finds it used up, 1 failure | one mint, true statuses, claims that end and stay ended |
| `sessions` | 1 session, 2 issues of tokens, 2 changes, 2 logins, 5 seconds, 1 failure | ended sessions, changed roles and used login tokens let nobody in |
| `expo` | 3 tasks for 2 devices, batches of 2, 2 runs of the job, 1 receipt at a time, 2 recursions, 1 failure | no success made up, no device deleted without a reason, nothing sent twice, tickets stay settled, everything ends |

Why these bounds are enough to be interesting:

* Two runs are needed for every race of the lock; two tokens of one contract for
  the pause and the counter to be shared; an allowance of one is exhausted by
  the second failure. The proofs cover any number of runs and tokens.
* Two consumers hand a partition back and forth; four messages and batches of
  two give a full batch, a second one, and a replay of either.
* Three calls fill a batch of two and are one too many for it; with two
  parameters one is repeated. Nine ticks are three intervals.
* Three connections are one spare for two subscribers; with three failures one
  can lose a subscriber, its replacement, and the answer of either.
* Two requests are enough for a conflict, and the second may be the same user's
  or another's who added the same address; two workers for a message that is
  delivered twice; one attempt for a retry, whose message then finds the attempts
  used up. More attempts add nothing a retry does not begin with, the status it
  reads, and the proofs cover any number. The queue only delivers one of the two
  claims, since claims meet nowhere but in the check.
  `Settles` and `FinalStays` therefore speak of that one.
* Tokens of three seconds, a wiggle of one and a clock that ends at five: a
  forced time outlives the tokens before it and then expires, and a token issued
  after it expires too.
* Three tasks are a full batch and a batch for the timer, in either of which two
  messages may have the same device.

Some properties are conjunctions of named parts (`BatchInv`, `PoolInv`,
`ClaimsInv`, `SessionsInv`, `RepliesInv`, `RetriesInv`, `HandlersAndJobsEnd`), each
part with a comment of its own.

Two more runs are *expected to fail*; each checks one sentence of a comment that
the code does not live up to. They are the `findings` of `PROJECT.json`:

* `kafka_skip`: error indices survive the compaction of the batch; if the write
  then fails, closing the consumer submits again, drops a usable message and
  commits past it. A failing write is the only failure of this run. `kafka_live`
  has every other one, the commit's too, and skips nothing; `kafka` shows that it
  needs an empty message.
* `expo_panic`: the filter for tokens that were not found reads one token too
  many when the last message's was deleted and an earlier one's was not. The
  process panics, its tasks are delivered again, and meet the same rows.

### What else the models make visible

Where the code falls short of what one might expect, the properties say what
holds instead.

* The throttle's read and write are two calls, so two runs can hold one lock:
  `MutexUnlessRaced`. The locks of a mint are the same: `OneMint` excepts
  requests that were let in together.
* Errors of a topic on both sides of a window's end are not added up:
  `TwiceAtMost`, where the comment promises the panic at once.
* A run that is turned away leaves the `enqueued` key, so a token may read as
  enqueued for up to an hour with nothing queued. `IndicatorClears`, which is about
  both values of the key, holds of `enqueued` by the key's expiry. A limiter that
  fails pauses a contract at its first error, which is why `PausesAreEarned`
  assumes it does not.
* The call of `DoThunk` that fills a batch runs the batch function before it
  returns its thunk (`Submit` is a step of a call).
* The lock of a mint's wallet names the row, and a wallet that is removed and
  added again has a new one. A request that finds the wallet locked leaves the
  user's lock to its expiry.
* A claim whose pipeline finds no media URL gets two messages per attempt,
  because that error is also one of a bad token: over twenty attempts they
  multiply. With two messages one may end the claim and the other overwrite
  that: `FinalStays` excepts such claims (`doubled`).
* The status at which a claim ends is written before the message is answered. A
  crash between the two (`process.go:530` and `531`) delivers the message again,
  and its handler, whose attempts are still used up, writes `FAILED_INTERNAL` over
  `MEDIA_FAILED` (`535`). A read of the claim that fails (`516-521`) does so to any
  status. `FinalStays` says that this is all that may happen to a claim with one
  message, and only after a failure (`disturbed`).
* No media while waiting for the transaction is retried, but the status becomes
  `FAILED_INTERNAL` meanwhile. The errors of writing a status and of creating
  the next task are dropped, and nothing looks for a claim that stands still
  (`stranded`). A second failed transaction cannot be saved, because both have
  the empty claim id.
* A run that is turned away ends without an error, so its claim becomes
  `MEDIA_PROCESSED`. That another run processes the token is one reason; a paused
  contract and a failing redis are others, and then a placeholder of unknown type
  is saved (`process.go:811-816`) and nobody processes it. `MediaIsTold` therefore
  says of `MEDIA_PROCESSED` that a run processed the token *or was turned away*. The
  handler's branch for the error of a locked token (`process.go:565-570`), which
  would retry, is never taken, because `runManagedPipeline` does not return that
  error.
* A token issued in the second of a forced refresh is not older than it, and one
  whose roles were read before a change and dated after it is accepted until it
  expires: `EndHolds` and `RolesHold` except exactly these.
* A connection follows a request to subscribe that was left in its queue by a
  reconnection, although the manager has asked another one: there may be more
  subscribers than wanted, one for each such request (`ExcessIsOvertaken`).
* Of two messages of one batch for the same device the earlier one is reported
  as a success whatever becomes of it (`SuccessIsAccepted` excepts it).

Deadlock is not checked: in every module the system may stop, when nothing is
submitted any more, all messages are consumed, the topic has panicked, all
calls have returned, failures are used up or the clock has reached its bound.
That work in progress does not stop is what the liveness
runs show.

### Fairness

* `TokenManage`: weak fairness of each run's own steps (a live process keeps
  executing; `Crash` is the way a process stops), of the first write of the
  keep-alive goroutine, of deliveries (the queue delivers until it is answered)
  and of expiry (redis removes keys at their TTL). No fairness is assumed of
  requests, of refills or of ticks.
* `KafkaBatch`: weak fairness of a consumer's loop and workers, and of a
  revocation the group has already decided. None of rebalances or failures,
  which are bounded.
* `Batcher`: weak fairness of each call and each timer: goroutines are scheduled
  and the batch function returns.
* `OpenSeaStreamer`: weak fairness of what goroutines do on their own (`Start`,
  `Deliver`, `Dial`, reading a channel: `select` is fair to its cases), of an
  answer to a join that is not lost, and of the timeout of a request that was
  lost; an early timeout is a failure and needs not come.
* `HighlightMint`: weak fairness of each request and each worker, which take a
  message when there is one: the queue delivers. None of the chain: a
  transaction may stay pending until the attempts are used up.
* `ExpoPush`: weak fairness of each batch (its timer and its goroutine, hence of
  Expo's answer) and of each job that has begun; none of the queue, of the scheduler or of users.
* `Sessions` and `TopicRestarts`: none, as they have safety properties only.

## 5. The proofs

Eight modules hold the theorems. Each is about any number of processes, requests,
messages and failures, under the assumption about constants that its component
declares (`TokenManageAssumption` and the like, which TLC evaluates in every run):
sizes are naturals, names of states are not names of things, and only the
connections of a pool must be finite. Anything else a result depends on is a
hypothesis of its theorem.

| Module | Theorem | Statement |
|---|---|---|
| `TokenManageProofs` | `TypeCorrect` | `Spec => []TypeOK` |
| | `LockNeverLeaks` | `Spec => []LockHasHolder` |
| | `KeepAliveStops` | `Spec => []ProcessingHasRunner` |
| | `OnlyTheRaceBreaksMutex` | `Timely => (Spec => []MutexUnlessRaced)` |
| | `PausesAreEarned` | `"limiter" \notin Faults => (Spec => []PausedOnlyWhenFlaky)` |
| | `RetriesAreBounded` | `Spec => []RetriesBounded` |
| | `ActiveMediaIsKept` | `Spec => ActiveMediaStays` |
| `KafkaBatchProofs` | `BatchesCorrect` | `Spec => []BatchInv` |
| | `NothingUsableSkipped` | `Clean => (Spec => []OnlyEmptySkipped)` |
| | `OwnersHaveTheirMessages` | `Clean => (Spec => []DeliveredIsBatched)` |
| | `RowsAreCurrent` | `Clean /\ "expel" \notin Faults => (Spec => []RowIsCurrent)` |
| | `ConsumersMirror` | `Clean => (Spec => Implements)` |
| `TopicRestartsProofs` | `PanicsAreEarned` | `Spec => []RetriesInv` |
| | `NeverMoreThanTwice` | `Spec => []TwiceAtMost` |
| `BatcherProofs` | `BatchesCorrect` | `Spec => []BatchInv` |
| | `AnswersCorrect` | `Spec => []AnswersAreOwn` |
| | `CachedIsFinal` | `Spec => CacheIsFinal` |
| `HighlightMintProofs` | `ClaimsAreTrue` | `Spec => []ClaimsInv` |
| | `MediaIsToldTruly` | `Spec => []MediaIsTold` |
| | `OneMintEach` | `Spec => []OneMint` |
| | `FinalIsFinal` | `Spec => FinalStays` |
| `SessionsProofs` | `EndedSessionsAreOut` | `Spec => []SessionsInv` |
| | `ChangedRolesHold` | `Spec => []RolesHold` |
| | `OneTimeToken` | `Spec => []UsedOnce` |
| `OpenSeaStreamerProofs` | `SubscribersHear` | `Spec => []SubscribersReceive` |
| | `PoolCorrect` | `Spec => []PoolInv` |
| | `ExcessBounded` | `Spec => []ExcessIsOvertaken` |
| | `BacklogBounded` | `Spec => []BacklogIsEarned` |
| `ExpoPushProofs` | `DeletionsHaveReasons` | `Spec => []DeletedForReason` |
| | `AcceptedAtMostOnce` | `Spec => []AcceptedOnce` |
| | `RepliesCorrect` | `Spec => []RepliesInv` |
| | `ClosedIsClosed` | `Spec => TicketsStayClosed` |

Type correctness is the first conjunct of each module's inductive invariant. The
properties themselves are hardly ever inductive; what follows says what had to be
added and why.

**TokenManage.** `LockInv` strengthens the lock and indicator properties: a run
that holds the lock has a goroutine exactly until it stops it, and a run without
the lock has none, so that a run that writes `processing` is always one of the
key's `Markers`; and a run that has written the lock over nobody's key is alone.
From an arbitrary state in which an idle run still had its goroutine, the next
tick would break the properties. `FlakyInv` ties the counter to the history: what
has been taken of the allowance is at most what was recorded, and a run that is
about to pause has found it exhausted. Refills only add to the allowance, which
is why the history is not counted beyond the first failure that exceeds it.
`RetryInv` bounds the attempts of what runs work on too, and says that a run on
its way to a retry had one left. `ActiveMediaStays` follows from the shape of
`Saved` and the types.

**KafkaBatch.** `Inv` needs no hypothesis: the owner of the partition has every
poisoned message behind the committed offset still to be parsed or as a fatal
error (`Warned`), and who writes has no fatal error (`Held`); so nothing
unparsable is passed. That nothing usable is skipped takes `SkipInv`: what the
owner holds is *all* that is behind the committed offset, either place by place
with the errors at their places (`Raw`) or, from compaction to commit, with
exactly the places of errors taken out (`Compact`). Between the two stand lemmas
about `Without`: of what is left, the k-th element is the k-th index that was not
taken out. A batch that was compacted keeps its errors until it is committed, and
a second submission would take other elements out. `Clean` excludes that: there
are no empty messages, or neither writes nor commits fail. Something like it is
necessary: the run `kafka_skip` violates `OnlyEmptySkipped` without it. For this
property failing commits could be allowed, as `kafka_live` allows them, since a
batch whose commit failed has been written; `SkipInv` speaks of what a consumer
still holds and not of what was written, so the theorem does not. `RowsAreCurrent` also
excludes expulsions, after which two consumers may write. `ConsumersMirror` is
the step simulation: `WriteBatch` is a step `MWrite`, `Commit` is `MCommit`
with `SkipInv` as the reason why the cursor may move, everything else stutters.

**TopicRestarts.** `TwiceAtMost` speaks of any window and the code of windows that
begin at an error. `Inv` splits the errors at the start of the code's interval:
those since then are what the counter has counted, and of the earlier ones only
those of one interval are within reach, at most the allowance (`Close`), because
an interval begins with the first error after the one before it.

**Batcher.** A batch that was closed but is not done has its timer asleep or
exactly one call that submits it, and never both (`Supervised`); this is what the
mutex, the counter and the timer add up to. A call that holds a batch finds its
parameter at the place it was told (`CallSound`). What the cache holds and calls
return is a result of a batch that has the parameter, or was primed (`Known`).

**HighlightMint.** `ClaimInv` adds what workers hold in memory between two calls
(`WorkersKnow`) and what requests are about to save: a status says that a claim
was minted only after it was, although several workers write it from what each
has read. `Sound` says it of the calls a worker has still to make as well, since
they are made one by one, and `EndsWell` that nothing but the reply follows a
status at which a claim ends. `FinalStays` and `MediaIsTold` rest on `Follower`:
of a claim that never had two messages (`Single`) there is one message or one
worker with more to do than answer, and not both (`Alone`), none before the request
has queued it (`Unqueued`); a worker that finds a final status is one a failure
has brought back (`Back`); a worker that tracks the claim remembers what the
database says (`Agrees`); and without a failure nothing comes between a run and the
status that says so (`Told`). `MintInv` is the induction for `OneMint`: two requests that conflict
and are both between their locks and the end of what they do were let in together, and
one that is about to mint after a conflicting claim was executed is excused for
the same reason, or because that claim was never saved.

**Sessions.** `RefreshInv`: no token, change or time in redis is dated later than
now; tokens of an ended session are not dated later than its end, and tokens
dated later than a change of roles have the new roles or read them before it;
and redis holds the change's time or a later one for as long as a token of that
age may live. The last part is why the key lives as long as a token and a
`Wiggle`.

**OpenSeaStreamer.** `Sound` relates the manager's picture of a connection to what
the connection does, tells, and has been told. `BacklogInv` is an account: what
is in a connection's queue, what the manager may still ask of it and the timeouts
still to come are paid by failures, and each step moves amounts from one side to
the other. `ExcessInv` is one for the whole pool: subscribers, pending requests
and what each connection is overdue add up to no more than is wanted and what was
overtaken. Sums over the pool are sizes of sets of pairs (`Pairs`), since a
recursive sum could not be reasoned about.

**ExpoPush.** Every place of a batch is that of one task that waits for it
(`Placed`). `OnceInv` says that a message Expo accepted is in no batch that is
still to be sent and gets no result that makes its task come again. `ReasonInv`
extends the reasons to what batches and jobs are about to delete. `Numbered` says
that the next ticket of a message is a new one, without which recording it could
overwrite one that was settled.

The runs check the properties and not the inductive invariants, which only the
theorems rest on. Every proof has one step per action, or per group of actions
that touch the same state, and under it one per conjunct the action can disturb.

### Model-checked only

* Liveness: `IndicatorClears`, `LockClears`, `QueuedGetsMedia`, `NothingHeldUp`,
  `EveryCallReturns`, `Recovers`, `Settles` and `HandlersAndJobsEnd`. They rest on
  fairness, hence on `ENABLED`, which the prover does not handle.
* The two violations, which are counterexamples and not theorems.
* Nothing was given up for want of induction over data: where a count or a sum was
  needed, the models and the invariants use cardinalities (`Recent`, `Pairs`,
  `Ranks`), and lemmas about finite sets take the place of the induction.

## 6. Limits of the models

* Metadata is not modelled: that a run which is turned away saves the metadata
  it read earlier over newer metadata is listed as a hazard.
* A token whose save fails in the database after its message is answered is not
  promised a media record, so `tokenmanage_live` has no failures of the database.
* With expulsions a consumer that was expelled may write an older row after the
  one that took over wrote a newer: `RowIsCurrent` is checked without them.
* `KafkaBatch` leaves out `readOnlyMode`, which drops batches without writing or
  committing them. A subscription, assignment or unassignment that fails ends
  `streamTopic` as a failed read does, with what the consumer then holds, and has
  no action of its own.
* `Batcher` ids do not wrap around, and its batches are never deleted, as in the
  code. Batch functions that return one error for everything are represented by
  the error for every parameter; that of a batch of one result list and no
  errors by no errors. There is one result for each parameter, so what the code
  does with result lists of another length (`util/batch/batch.go:125`) is not seen.
* The restart accounting is a module of its own and not composed with
  `KafkaBatch`, whose bounded failures could not exhaust it; the panic appears
  there as a crash.
* `HighlightMint` leaves out the limiter of IP addresses (a request may be refused
  at that point) and the text of errors. When a run is turned away is a choice and
  not derived from the locks of `TokenManage`: the two are not composed.
* A redis call that fails has not changed redis, so a lock whose `Set` was carried
  out although its answer was lost is not modelled. It would be one more lock that
  stands until it expires, as after a crash.
* `Sessions` has one user. Refresh tokens do not expire, nonces, magic links and
  wallets are not modelled, and clocks of servers agree.
* `OpenSeaStreamer` leaves out heartbeats, the filter and the dispatch of
  transfers, and the timeouts of requests that have been settled, which the
  manager ignores. Buffers are unbounded, and `BacklogIsEarned` bounds what is
  in them by the failures since the start. Without failures the code's ten are never
  used up, but the property does not exclude a slow leak: a request left behind by
  each failure satisfies it and fills the buffer after ten. A connection's loop
  starts after its first `startNewListener` instead of beside it
  (`opensea-streamer/main.go:465-468`): until the manager has heard `Connected` the
  loop has nothing to read.
* `ExpoPush` begins jobs when all tasks are through, because tickets are due
  fifteen minutes later; which tickets are due is a choice. After a panic no
  more tasks are delivered. Receipts that say a message was too big do what
  delivered ones do. The queue delivers a task again when it was not answered with
  success or its process ended, and not of its own accord, so `AcceptedOnce` is
  about the code's retries. That handlers and jobs end assumes that Expo answers,
  since the client has no timeout. `SuccessIsAccepted` leaves out exactly the
  messages whose token a later message of the batch has, so it says nothing of that
  flaw but that there is no other. Replies are kept by place, so that a failure of
  one message touches no neighbour holds by construction and no property claims it.
* Some hazards of components that have no module yet, or that a module leaves
  out, are known and not covered: the lock a limiter keeps in a field its callers
  share (`service/limiters/rate.go:141`), the handlers of `dispatchImmediate` that
  stay behind after the first error (`event/event.go:354`), the errors
  `publishToSubscribers` indexes by the places of results
  (`util/batch/batch.go:354`), and the unsynchronised maps of `notifications`.
* Components without a module are listed in `PROJECT.json` with the reason.
