---------------------------- MODULE TokenManage ----------------------------
(***************************************************************************)
(* The life of a token definition in token processing: the tokenmanage     *)
(* Manager and Registry, the throttle Locker they lock with, and the       *)
(* runManagedPipeline function that drives them for every worker.          *)
(*                                                                         *)
(* A run is one call of runManagedPipeline, in any process of the service. *)
(* All the state the runs share is in redis (lock, inflight, paused, the   *)
(* error counter), in postgres (media) and in the task queue (tasks); one  *)
(* action is one call to one of them, because another run may be scheduled *)
(* between any two calls.                                                  *)
(*                                                                         *)
(* Expiry is modelled by actions that remove a key.  Timely says that no   *)
(* run outlives the expiry of the keys it holds: the pipeline's context    *)
(* ends after ten minutes, the lock lives for thirty, and the "processing" *)
(* key lives for a minute and is rewritten every ten seconds.              *)
(***************************************************************************)
EXTENDS Integers, FiniteSets

CONSTANTS
    Tokens,         \* token definitions
    Contracts,      \* contracts the tokens belong to
    ContractOf,     \* the contract of a token definition
    Runs,           \* concurrent calls of runManagedPipeline
    MaxRetries,     \* maxRetriesForTokenSync, per token
    FlakingAmount,  \* failures the error counter admits before it is exhausted
    Timely,         \* no run outlives the expiry of its own keys
    Faults,         \* the kinds of failure that may happen, a subset of FaultKinds
    MaxFaults,      \* bound: how many failures happen
    MaxRequests,    \* bound: how many times a token is submitted or refreshed
    NoJob           \* what an idle run works on

FaultKinds == {"crash", "redis", "db", "limiter", "queue"}

Kinds == {"sync", "retry", "refresh"}

Job == [tok : Tokens, attempts : Nat, kind : Kinds]

ASSUME TokenManageAssumption ==
    /\ ContractOf \in [Tokens -> Contracts]
    /\ MaxRetries \in [Tokens -> Nat]
    /\ FlakingAmount \in Nat \ {0}
    /\ Timely \in BOOLEAN
    /\ Faults \subseteq FaultKinds
    /\ MaxFaults \in Nat
    /\ MaxRequests \in Nat
    /\ NoJob \notin Job

VARIABLES
    lock,       \* redis: the tokens whose "lock:" key exists
    inflight,   \* redis: the value of a token's "inflight:" key, "none" if absent
    paused,     \* redis: the contracts whose "paused:" key exists
    bucket,     \* redis: what is left of a contract's allowance of failures
    tasks,      \* the tasks in the token processing queue
    media,      \* postgres: the media a token definition refers to
    submitting, \* tokens SubmitNewTokens marked and has not yet sent
    pc,         \* where a run is
    job,        \* what a run works on
    result,     \* the error of a run: "ok", "badToken" or "error"
    beat,       \* the goroutine of a run that rewrites the "inflight:" key
    faults,     \* failures so far
    requests,   \* submissions and refreshes so far
    badErrors,  \* history: failures of a contract's tokens recorded so far,
                \* not counted beyond the first that exceeds FlakingAmount
    raced,      \* history: tokens whose lock was once written while it was held
    orphaned    \* history: redis keys left behind, to be removed by their expiry

redis == <<lock, inflight, paused, bucket>>
locals == <<pc, job, result, beat>>
history == <<badErrors, raced, orphaned>>
vars == <<redis, tasks, media, submitting, locals, faults, requests, history>>

\* Where a run can be, in the order it gets there.
Holding == {"run", "save", "stop", "recPaused", "recCount", "recPause",
            "tryRetry", "finish", "enqueue", "submit", "unlock"}
Marking == Holding \ {"submit", "unlock"}
Locations == {"idle", "checkPaused", "isLocked", "setLock", "turnedAway", "ack"}
             \cup Holding

Token(r) == job[r].tok
Contract(r) == ContractOf[job[r].tok]

\* The runs that have taken the lock of t and not released it.
Holders(t) == {r \in Runs : pc[r] \in Holding /\ Token(r) = t}

\* The runs of t that have yet to clear or to rewrite its "inflight:" key.
Markers(t) == {r \in Runs : pc[r] \in Marking /\ Token(r) = t}

TypeOK ==
    /\ lock \in SUBSET Tokens
    /\ inflight \in [Tokens -> {"none", "enqueued", "processing"}]
    /\ paused \in SUBSET Contracts
    /\ bucket \in [Contracts -> 0 .. FlakingAmount]
    /\ tasks \in SUBSET Job
    /\ media \in [Tokens -> {"none", "inactive", "active"}]
    /\ submitting \in SUBSET Tokens
    /\ pc \in [Runs -> Locations]
    /\ job \in [Runs -> Job \cup {NoJob}]
    /\ \A r \in Runs : pc[r] # "idle" => job[r] \in Job
    /\ result \in [Runs -> {"ok", "badToken", "error"}]
    /\ beat \in [Runs -> {"off", "starting", "ticking"}]
    /\ faults \in 0 .. MaxFaults
    /\ requests \in 0 .. MaxRequests
    /\ badErrors \in [Contracts -> 0 .. FlakingAmount + 1]
    /\ raced \in SUBSET Tokens
    /\ orphaned \in SUBSET (Tokens \X {"lock", "inflight"})

Init ==
    /\ lock = {}
    /\ inflight = [t \in Tokens |-> "none"]
    /\ paused = {}
    /\ bucket = [c \in Contracts |-> FlakingAmount]
    /\ tasks = {}
    /\ media = [t \in Tokens |-> "none"]
    /\ submitting = {}
    /\ pc = [r \in Runs |-> "idle"]
    /\ job = [r \in Runs |-> NoJob]
    /\ result = [r \in Runs |-> "ok"]
    /\ beat = [r \in Runs |-> "off"]
    /\ faults = 0
    /\ requests = 0
    /\ badErrors = [c \in Contracts |-> 0]
    /\ raced = {}
    /\ orphaned = {}

-----------------------------------------------------------------------------
Goto(r, l) == pc' = [pc EXCEPT ![r] = l]

\* One of the failures the model allows for; the code runs on after it.
Fault(k) ==
    /\ k \in Faults
    /\ faults < MaxFaults
    /\ faults' = faults + 1

NoFault == UNCHANGED faults

-----------------------------------------------------------------------------
(* Submission.                                                             *)

\* SubmitNewTokens writes the "inflight:" key first.
MarkSubmitted(t) ==
    /\ requests < MaxRequests
    /\ t \notin submitting
    /\ requests' = requests + 1
    /\ submitting' = submitting \cup {t}
    /\ \/ /\ inflight' = [inflight EXCEPT ![t] = "enqueued"]
          /\ NoFault
       \/ /\ Fault("redis")
          /\ UNCHANGED inflight
    /\ UNCHANGED <<lock, paused, bucket, tasks, media, locals, history>>

\* ... and creates the task second.  Its caller only logs an error.
SendSubmitted(t) ==
    /\ t \in submitting
    /\ submitting' = submitting \ {t}
    /\ \/ /\ tasks' = tasks \cup {[tok |-> t, attempts |-> 0, kind |-> "sync"]}
          /\ NoFault
       \/ /\ Fault("queue")
          /\ UNCHANGED tasks
    /\ UNCHANGED <<redis, media, locals, requests, history>>

Begin(r, j) ==
    /\ pc[r] = "idle"
    /\ Goto(r, "checkPaused")
    /\ job' = [job EXCEPT ![r] = j]

\* A worker receives a message of the queue: processBatch for each token of a
\* batch, processMediaForTokenManaged for a retry.
Deliver(r, j) ==
    /\ j \in tasks
    /\ Begin(r, j)
    /\ tasks' = tasks \ {j}
    /\ UNCHANGED <<redis, media, submitting, result, beat, faults, requests, history>>

\* A user asks for a refresh: processMediaForTokenIdentifiers.
Refresh(r, t) ==
    /\ requests < MaxRequests
    /\ requests' = requests + 1
    /\ Begin(r, [tok |-> t, attempts |-> 0, kind |-> "refresh"])
    /\ UNCHANGED <<redis, tasks, media, submitting, result, beat, faults, history>>

-----------------------------------------------------------------------------
(* StartProcessing.                                                        *)

\* Paused: an error of redis reads as not paused.
CheckPaused(r) ==
    /\ pc[r] = "checkPaused"
    /\ \/ /\ Goto(r, IF Contract(r) \in paused THEN "turnedAway" ELSE "isLocked")
          /\ NoFault
       \/ /\ Fault("redis")
          /\ Goto(r, "isLocked")
    /\ UNCHANGED <<redis, tasks, media, submitting, job, result, beat, requests, history>>

\* Locker.Lock reads the key ...
IsLocked(r) ==
    /\ pc[r] = "isLocked"
    /\ \/ /\ Goto(r, IF Token(r) \in lock THEN "turnedAway" ELSE "setLock")
          /\ NoFault
       \/ /\ Fault("redis")
          /\ Goto(r, "turnedAway")
    /\ UNCHANGED <<redis, tasks, media, submitting, job, result, beat, requests, history>>

\* ... and writes it, whatever happened in between.
SetLock(r) ==
    /\ pc[r] = "setLock"
    /\ \/ /\ lock' = lock \cup {Token(r)}
          /\ raced' = IF Token(r) \in lock THEN raced \cup {Token(r)} ELSE raced
          /\ Goto(r, "run")
          /\ beat' = [beat EXCEPT ![r] = "starting"]
          /\ NoFault
       \/ /\ Fault("redis")
          /\ Goto(r, "turnedAway")
          /\ UNCHANGED <<lock, raced, beat>>
    /\ UNCHANGED <<inflight, paused, bucket, tasks, media, submitting, job, result,
                   requests, badErrors, orphaned>>

\* The goroutine writes the key once before it listens for ticks or for stop.
KeepAlive(r) ==
    /\ beat[r] \in {"starting", "ticking"}
    /\ beat' = [beat EXCEPT ![r] = "ticking"]
    /\ \/ /\ inflight' = [inflight EXCEPT ![Token(r)] = "processing"]
          /\ NoFault
       \/ /\ Fault("redis")
          /\ UNCHANGED inflight
    /\ UNCHANGED <<lock, paused, bucket, tasks, media, submitting, pc, job, result,
                   requests, history>>

-----------------------------------------------------------------------------
(* runManagedPipeline, between StartProcessing and its callback.           *)

RunJob(r) ==
    /\ pc[r] = "run"
    /\ \E e \in {"ok", "badToken", "error"} : result' = [result EXCEPT ![r] = e]
    /\ Goto(r, "save")
    /\ UNCHANGED <<redis, tasks, media, submitting, job, beat, faults, requests, history>>

\* Mutant: the newest result always wins.
SavedAlways(t, active) == [media EXCEPT ![t] = IF active THEN "active" ELSE "inactive"]

\* InsertTokenPipelineResults: the token refers to the new media if that is
\* active, or if it had none.
Saved(t, active) ==
    IF active \/ media[t] = "none"
    THEN [media EXCEPT ![t] = IF active THEN "active" ELSE "inactive"]
    ELSE media

\* A job that fails may have made media all the same (of an unsigned token, of an
\* animation without its image).  An error of the save replaces the job's.
SaveResult(r) ==
    /\ pc[r] = "save"
    /\ Goto(r, "stop")
    /\ \/ /\ \E active \in BOOLEAN : media' = Saved(Token(r), active)
          /\ NoFault
          /\ UNCHANGED result
       \/ /\ Fault("db")
          /\ result' = [result EXCEPT ![r] = "error"]
          /\ UNCHANGED media
    /\ UNCHANGED <<redis, tasks, submitting, job, beat, requests, history>>

\* Mutant: a run that did not start calls the callback's unlock.
TurnedAwayUnlocks(r) ==
    /\ pc[r] = "turnedAway"
    /\ Goto(r, "unlock")
    /\ UNCHANGED <<redis, tasks, media, submitting, job, result, beat, faults, requests, history>>

\* Mutant: a run that did not start returns without a result.
TurnedAwayReturns(r) ==
    /\ pc[r] = "turnedAway"
    /\ Goto(r, "ack")
    /\ UNCHANGED <<redis, tasks, media, submitting, job, result, beat, faults, requests, history>>

\* A run that did not start saves media of unknown type and returns.
SaveTurnedAway(r) ==
    /\ pc[r] = "turnedAway"
    /\ Goto(r, "ack")
    /\ \/ /\ media' = Saved(Token(r), FALSE)
          /\ NoFault
       \/ /\ Fault("db")
          /\ UNCHANGED media
    /\ UNCHANGED <<redis, tasks, submitting, job, result, beat, requests, history>>

-----------------------------------------------------------------------------
(* The callback of StartProcessing.                                        *)

\* Mutants: the callback does not wait for the goroutine, or never stops it.
GoroutineIgnored(r) == UNCHANGED beat
GoroutineNeverEnds(r) == beat[r] = "off" /\ UNCHANGED beat

\* close(stop) and <-done: the goroutine has to have started, and has ended.
GoroutineEnds(r) ==
    /\ beat[r] = "ticking"
    /\ beat' = [beat EXCEPT ![r] = "off"]

\* Mutant: the callback returns early when there is nothing to record.
RecordOrReturn(r) == IF result[r] = "badToken" THEN "recPaused" ELSE "ack"

\* Only the errors of a bad token are recorded.
RecordOrRetry(r) == IF result[r] = "badToken" THEN "recPaused" ELSE "tryRetry"

StopKeepAlive(r) ==
    /\ pc[r] = "stop"
    /\ GoroutineEnds(r)
    /\ Goto(r, RecordOrRetry(r))
    /\ UNCHANGED <<redis, tasks, media, submitting, job, result, faults, requests, history>>

RecordErrorPaused(r) ==
    /\ pc[r] = "recPaused"
    /\ \/ /\ Goto(r, IF Contract(r) \in paused THEN "tryRetry" ELSE "recCount")
          /\ NoFault
       \/ /\ Fault("redis")
          /\ Goto(r, "recCount")
    /\ UNCHANGED <<redis, tasks, media, submitting, job, result, beat, requests, history>>

\* Mutant: the failure that takes the last of the allowance pauses.
CountErrorEarly(r) ==
    /\ pc[r] = "recCount"
    /\ badErrors' = [badErrors EXCEPT ![Contract(r)] = IF @ > FlakingAmount THEN @ ELSE @ + 1]
    /\ bucket' = [bucket EXCEPT ![Contract(r)] = IF @ > 0 THEN @ - 1 ELSE 0]
    /\ Goto(r, IF bucket[Contract(r)] <= 1 THEN "recPause" ELSE "tryRetry")
    /\ UNCHANGED <<lock, inflight, paused, tasks, media, submitting, job, result, beat,
                   faults, requests, raced, orphaned>>

\* errorCounter.ForKey takes one of the allowance, or finds it exhausted.  A
\* limiter whose own lock is busy admits without counting; one that fails
\* returns canRetry = false together with its error.
CountError(r) ==
    /\ pc[r] = "recCount"
    /\ badErrors' = [badErrors EXCEPT ![Contract(r)] =
                        IF @ > FlakingAmount THEN @ ELSE @ + 1]
    /\ \/ /\ bucket[Contract(r)] > 0
          /\ bucket' = [bucket EXCEPT ![Contract(r)] = @ - 1]
          /\ Goto(r, "tryRetry")
          /\ NoFault
       \/ /\ bucket[Contract(r)] = 0
          /\ Goto(r, "recPause")
          /\ NoFault
          /\ UNCHANGED bucket
       \/ /\ Goto(r, "tryRetry")
          /\ NoFault
          /\ UNCHANGED bucket
       \/ /\ Fault("limiter")
          /\ Goto(r, "recPause")
          /\ UNCHANGED bucket
    /\ UNCHANGED <<lock, inflight, paused, tasks, media, submitting, job, result, beat,
                   requests, raced, orphaned>>

PauseContract(r) ==
    /\ pc[r] = "recPause"
    /\ Goto(r, "tryRetry")
    /\ \/ /\ paused' = paused \cup {Contract(r)}
          /\ NoFault
       \/ /\ Fault("redis")
          /\ UNCHANGED paused
    /\ UNCHANGED <<lock, inflight, bucket, tasks, media, submitting, job, result, beat,
                   requests, history>>

\* Mutant: one retry too many.
CanRetryOnce(j) == j.kind # "refresh" /\ j.attempts <= MaxRetries[j.tok]

\* maxRetries is nil for the manager that serves refreshes.
CanRetry(j) == j.kind # "refresh" /\ j.attempts < MaxRetries[j.tok]

TryRetry(r) ==
    /\ pc[r] = "tryRetry"
    /\ \/ /\ Goto(r, IF /\ result[r] = "badToken"
                        /\ Contract(r) \notin paused
                        /\ CanRetry(job[r])
                     THEN "enqueue" ELSE "finish")
          /\ NoFault
       \/ \* redis fails: not paused
          /\ result[r] = "badToken" /\ CanRetry(job[r])
          /\ Fault("redis")
          /\ Goto(r, "enqueue")
       \/ \* tickTokenF fails: no delay, no retry
          /\ result[r] = "badToken" /\ Contract(r) \notin paused /\ CanRetry(job[r])
          /\ Fault("limiter")
          /\ Goto(r, "finish")
    /\ UNCHANGED <<redis, tasks, media, submitting, job, result, beat, requests, history>>

\* Writes v to the "inflight:" key of the run's token; an error is ignored.
SetInflight(r, v) ==
    \/ /\ inflight' = [inflight EXCEPT ![Token(r)] = v]
       /\ NoFault
       /\ UNCHANGED orphaned
    \/ /\ Fault("redis")
       /\ orphaned' = orphaned \cup {<<Token(r), "inflight">>}
       /\ UNCHANGED inflight

Finish(r) ==
    /\ pc[r] = "finish"
    /\ SetInflight(r, "none")
    /\ Goto(r, "unlock")
    /\ UNCHANGED <<lock, paused, bucket, tasks, media, submitting, job, result, beat,
                   requests, badErrors, raced>>

Enqueue(r) ==
    /\ pc[r] = "enqueue"
    /\ SetInflight(r, "enqueued")
    /\ Goto(r, "submit")
    /\ UNCHANGED <<lock, paused, bucket, tasks, media, submitting, job, result, beat,
                   requests, badErrors, raced>>

SubmitTokenForRetry(r) ==
    /\ pc[r] = "submit"
    /\ \/ /\ tasks' = tasks \cup {[tok |-> Token(r), attempts |-> job[r].attempts + 1,
                                   kind |-> "retry"]}
          /\ NoFault
       \/ /\ Fault("queue")
          /\ UNCHANGED tasks
    /\ Goto(r, "unlock")
    /\ UNCHANGED <<redis, media, submitting, job, result, beat, requests, history>>

\* The key is deleted whoever wrote it last.
Unlock(r) ==
    /\ pc[r] = "unlock"
    /\ Goto(r, "ack")
    /\ \/ /\ lock' = lock \ {Token(r)}
          /\ NoFault
          /\ UNCHANGED orphaned
       \/ /\ Fault("redis")
          /\ orphaned' = orphaned \cup {<<Token(r), "lock">>}
          /\ UNCHANGED lock
    /\ UNCHANGED <<inflight, paused, bucket, tasks, media, submitting, job, result, beat,
                   requests, badErrors, raced>>

\* The handler answers 200 and the queue forgets the message.
Ack(r) ==
    /\ pc[r] = "ack"
    /\ Goto(r, "idle")
    /\ job' = [job EXCEPT ![r] = NoJob]
    /\ result' = [result EXCEPT ![r] = "ok"]
    /\ UNCHANGED <<redis, tasks, media, submitting, beat, faults, requests, history>>

-----------------------------------------------------------------------------
(* The environment.                                                        *)

\* The process of a run ends, or the request's context does, after which no
\* call has any effect.  The queue delivers the message again.
Crash(r) ==
    /\ pc[r] # "idle"
    /\ Fault("crash")
    /\ Goto(r, "idle")
    /\ job' = [job EXCEPT ![r] = NoJob]
    /\ result' = [result EXCEPT ![r] = "ok"]
    /\ beat' = [beat EXCEPT ![r] = "off"]
    /\ tasks' = IF job[r].kind = "refresh" THEN tasks ELSE tasks \cup {job[r]}
    /\ orphaned' = orphaned \cup
                     (IF pc[r] \in Holding THEN {<<Token(r), "lock">>} ELSE {}) \cup
                     (IF pc[r] \in Marking THEN {<<Token(r), "inflight">>} ELSE {})
    /\ UNCHANGED <<redis, media, submitting, requests, badErrors, raced>>

ExpireLock(t) ==
    /\ t \in lock
    /\ Timely => Holders(t) = {}
    /\ lock' = lock \ {t}
    /\ orphaned' = orphaned \ {<<t, "lock">>}
    /\ UNCHANGED <<inflight, paused, bucket, tasks, media, submitting, locals, faults,
                   requests, badErrors, raced>>

ExpireInflight(t) ==
    /\ inflight[t] # "none"
    /\ (Timely /\ inflight[t] = "processing") => Markers(t) = {}
    /\ inflight' = [inflight EXCEPT ![t] = "none"]
    /\ orphaned' = orphaned \ {<<t, "inflight">>}
    /\ UNCHANGED <<lock, paused, bucket, tasks, media, submitting, locals, faults,
                   requests, badErrors, raced>>

ExpirePause(c) ==
    /\ c \in paused
    /\ paused' = paused \ {c}
    /\ UNCHANGED <<lock, inflight, bucket, tasks, media, submitting, locals, faults,
                   requests, history>>

\* Mutant: the allowance is not capped.
RefillUncapped(c) ==
    /\ bucket' = [bucket EXCEPT ![c] = @ + 1]
    /\ UNCHANGED <<lock, inflight, paused, tasks, media, submitting, locals, faults,
                   requests, history>>

Refill(c) ==
    /\ bucket[c] < FlakingAmount
    /\ bucket' = [bucket EXCEPT ![c] = @ + 1]
    /\ UNCHANGED <<lock, inflight, paused, tasks, media, submitting, locals, faults,
                   requests, history>>

-----------------------------------------------------------------------------
\* The steps a run takes by itself.
Step(r) ==
    \/ CheckPaused(r) \/ IsLocked(r) \/ SetLock(r)
    \/ RunJob(r) \/ SaveResult(r) \/ SaveTurnedAway(r)
    \/ StopKeepAlive(r) \/ RecordErrorPaused(r) \/ CountError(r) \/ PauseContract(r)
    \/ TryRetry(r) \/ Finish(r) \/ Enqueue(r) \/ SubmitTokenForRetry(r)
    \/ Unlock(r) \/ Ack(r)

DeliverAny(r) == \E j \in tasks : Deliver(r, j)

Next ==
    \/ \E t \in Tokens : \/ MarkSubmitted(t)
                         \/ SendSubmitted(t)
                         \/ ExpireLock(t)
                         \/ ExpireInflight(t)
    \/ \E c \in Contracts : ExpirePause(c) \/ Refill(c)
    \/ \E r \in Runs : \/ DeliverAny(r)
                       \/ \E t \in Tokens : Refresh(r, t)
                       \/ Step(r)
                       \/ KeepAlive(r)
                       \/ Crash(r)

Spec == Init /\ [][Next]_vars

\* A live process keeps executing, the queue keeps delivering, keys expire.
Fairness ==
    /\ \A t \in Tokens : /\ WF_vars(SendSubmitted(t))
                         /\ WF_vars(ExpireLock(t))
                         /\ WF_vars(ExpireInflight(t))
    /\ \A r \in Runs : /\ WF_vars(Step(r))
                       /\ WF_vars(beat[r] = "starting" /\ KeepAlive(r))
                       /\ WF_vars(DeliverAny(r))

FairSpec == Spec /\ Fairness

-----------------------------------------------------------------------------
(* Properties.                                                             *)

\* The Locker's promise: a token is never worked on by two runs at a time.
\* The read and the write of Lock are two calls, so the code does not keep it.
Mutex == \A t \in Tokens : Cardinality(Holders(t)) <= 1

\* What Lock does guarantee: two runs of a token work at the same time only if
\* one of them wrote the lock over another's.  Neither an expiry, nor the
\* unconditional delete of Unlock, nor a crash lets a second run in by itself.
MutexUnlessRaced ==
    \A t \in Tokens \ raced :
        /\ \A r, s \in Holders(t) : r = s
        /\ Holders(t) # {} => t \in lock

\* No path through StartProcessing, the pipeline and the callback leaks the
\* lock: while the key exists some run still has to release it, or the key was
\* left by a crash or a failed delete and is about to expire.
LockHasHolder ==
    \A t \in lock : Holders(t) # {} \/ <<t, "lock">> \in orphaned

\* The keep-alive goroutine never outlives its run: as long as the key reads
\* "processing", a run that wrote it has yet to clear or rewrite it.  This is
\* what the callback's wait for <-done is for.
ProcessingHasRunner ==
    \A t \in Tokens :
        inflight[t] = "processing" =>
            Markers(t) # {} \/ <<t, "inflight">> \in orphaned

\* ErrContractFlaking's promise: a contract is paused only once its tokens have
\* failed more often than the error counter admits.
PausedOnlyWhenFlaky ==
    \A c \in paused : badErrors[c] > FlakingAmount

\* tryRetry's limit holds across redeliveries, races and crashes: no message
\* ever asks for more attempts than maxRetries allows, and a refresh, whose
\* manager has no maxRetries, never turns into a message.
RetriesBounded ==
    \A j \in tasks : j.attempts <= MaxRetries[j.tok] /\ j.kind # "refresh"

\* However the runs of a token are turned away, fail or overlap, servable media
\* is never replaced by the result of a run that has none.
ActiveMediaStays ==
    [][\A t \in Tokens : media[t] = "active" => media'[t] = "active"]_media

\* A token with a message in the queue gets a media record, even if its run is
\* turned away by a lock or a pause, or its process crashes.
QueuedGetsMedia ==
    \A t \in Tokens : (\E j \in tasks : j.tok = t) ~> (media[t] # "none")

\* A token does not read as enqueued or processing for ever.
IndicatorClears ==
    \A t \in Tokens : (inflight[t] # "none") ~> (inflight[t] = "none")

\* A token is not locked for ever.
LockClears == \A t \in Tokens : (t \in lock) ~> (t \notin lock)
=============================================================================
