------------------------------ MODULE Batcher ------------------------------
(***************************************************************************)
(* util/batch: concurrent calls are collected into batches, and one call   *)
(* of the batch function answers all the calls of a batch.                 *)
(*                                                                         *)
(* A call is one DoThunk and the thunk it returns.  One action is one use  *)
(* of what the calls share: the atomic currentBatchID, the map of batches, *)
(* the atomic numCallers of a batch, the section under a batch's mutex,    *)
(* its done channel, and the cache of results.  Batch ids do not wrap      *)
(* around here: that takes 2^31 batches.                                   *)
(***************************************************************************)
EXTENDS Integers, Sequences, FiniteSets, Functions

CONSTANTS
    Calls,          \* calls of DoThunk
    Params,         \* parameters
    Primable,       \* bound: parameters with a result that is known from elsewhere
    MaxBatchSize,   \* maxBatchSize
    CacheResults,   \* cacheResults
    MayFail,        \* the batch function may return errors
    None            \* no answer, or no batch

ASSUME BatcherAssumption ==
    /\ MaxBatchSize \in Nat \ {0}
    /\ CacheResults \in BOOLEAN
    /\ MayFail \in BOOLEAN
    /\ None \notin Params
    /\ Primable \subseteq Params

VARIABLES
    currentBatchID,
    batches,        \* the map of batches, a function of their ids
    resultCache,    \* what is cached for a parameter
    param,          \* the parameter of a call
    pc,             \* where a call is
    id,             \* the batch a call is looking at, or is in
    index,          \* the place of its parameter in that batch
    answer          \* what its thunk returned

locals == <<param, pc, id, index, answer>>
vars == <<currentBatchID, batches, resultCache, locals>>

\* A result belongs to a parameter and to an invocation of the batch function.
Result(p, b) == [param |-> p, batch |-> b]

\* A result known from elsewhere.
PrimedResult(p) == [param |-> p, primed |-> TRUE]
Error == [error |-> TRUE]
ZeroResult == [zero |-> TRUE]

NewBatch ==
    [params |-> <<>>, open |-> TRUE, numCallers |-> 0, timer |-> "off",
     results |-> <<>>, invoked |-> 0, done |-> FALSE]

Results ==
    {ZeroResult} \cup {PrimedResult(p) : p \in Params} \cup [param : Params, batch : Nat]

Locations == {"new", "readID", "count", "lock", "bump", "submit", "close", "bumpFull",
              "wait", "returned"}

BatchType ==
    [params : Seq(Params), open : BOOLEAN, numCallers : Nat,
     timer : {"off", "sleeping", "submit", "close"},
     results : Seq({Error} \cup [param : Params, batch : Nat]), invoked : Nat, done : BOOLEAN]

TypeOK ==
    /\ currentBatchID \in Nat
    /\ batches \in [DOMAIN batches -> BatchType]
    /\ DOMAIN batches \subseteq Nat
    /\ resultCache \in [DOMAIN resultCache -> Results]
    /\ DOMAIN resultCache \subseteq Params
    /\ param \in [Calls -> Params]
    /\ pc \in [Calls -> Locations]
    /\ id \in [Calls -> Nat]
    /\ index \in [Calls -> Nat]
    /\ answer \in [Calls -> {None, Error} \cup Results]

Init ==
    /\ currentBatchID = 0
    /\ batches = <<>>
    /\ resultCache = <<>>
    /\ param \in [Calls -> Params]
    /\ pc = [c \in Calls |-> "new"]
    /\ id = [c \in Calls |-> 0]
    /\ index = [c \in Calls |-> 0]
    /\ answer = [c \in Calls |-> None]

-----------------------------------------------------------------------------
\* sync.Map: a value for a key that has none.
LoadOrStore(map, key, value) ==
    [k \in DOMAIN map \cup {key} |-> IF k \in DOMAIN map THEN map[k] ELSE value]

Goto(c, l) == pc' = [pc EXCEPT ![c] = l]

Batch(c) == batches[id[c]]

\* The cache is consulted once, when the call comes in.
DoThunk(c) ==
    /\ pc[c] = "new"
    /\ \/ /\ CacheResults
          /\ param[c] \in DOMAIN resultCache
          /\ answer' = [answer EXCEPT ![c] = resultCache[param[c]]]
          /\ Goto(c, "returned")
       \/ /\ CacheResults => param[c] \notin DOMAIN resultCache
          /\ Goto(c, "readID")
          /\ UNCHANGED answer
    /\ UNCHANGED <<currentBatchID, batches, resultCache, param, id, index>>

-----------------------------------------------------------------------------
(* addParamToBatch.                                                        *)

\* The id is read, and the batch is created if it is not there.
LoadBatch(c) ==
    /\ pc[c] = "readID"
    /\ id' = [id EXCEPT ![c] = currentBatchID]
    /\ batches' = LoadOrStore(batches, currentBatchID, NewBatch)
    /\ Goto(c, "count")
    /\ UNCHANGED <<currentBatchID, resultCache, param, index, answer>>

\* Only the first maxBatchSize callers go on to the lock.
CountCaller(c) ==
    /\ pc[c] = "count"
    /\ batches' = [batches EXCEPT ![id[c]].numCallers = @ + 1]
    /\ Goto(c, IF Batch(c).numCallers + 1 > MaxBatchSize THEN "bump" ELSE "lock")
    /\ UNCHANGED <<currentBatchID, resultCache, param, id, index, answer>>

\* currentBatchID moves on from this call's batch, unless it already has.
CompareAndSwap(c) ==
    currentBatchID' = IF currentBatchID = id[c] THEN id[c] + 1 ELSE currentBatchID

TryNextBatch(c) ==
    /\ pc[c] = "bump"
    /\ CompareAndSwap(c)
    /\ Goto(c, "readID")
    /\ UNCHANGED <<batches, resultCache, param, id, index, answer>>

Places(c) == {i \in DOMAIN Batch(c).params : Batch(c).params[i] = param[c]}

\* Mutant: the place of a parameter is read after it is appended.
AddParamLate(c) ==
    /\ pc[c] = "lock"
    /\ Batch(c).open
    /\ LET n == Len(Batch(c).params) + 1
           full == n = MaxBatchSize
       IN  /\ index' = [index EXCEPT ![c] = n + 1]
           /\ batches' = [batches EXCEPT
                  ![id[c]].params = Append(@, param[c]),
                  ![id[c]].timer = IF n = 1 THEN "sleeping" ELSE @,
                  ![id[c]].open = ~full]
           /\ Goto(c, IF full THEN "submit" ELSE "wait")
    /\ UNCHANGED <<currentBatchID, resultCache, param, id, answer>>

\* The section under the batch's mutex.
AddParam(c) ==
    /\ pc[c] = "lock"
    /\ \/ /\ ~Batch(c).open
          /\ Goto(c, "bump")
          /\ UNCHANGED <<batches, index>>
       \/ /\ Batch(c).open
          /\ \E i \in Places(c) : index' = [index EXCEPT ![c] = i]
          /\ Goto(c, "wait")
          /\ UNCHANGED batches
       \/ /\ Batch(c).open
          /\ Places(c) = {}
          /\ LET n == Len(Batch(c).params) + 1
                 full == n = MaxBatchSize
             IN  /\ index' = [index EXCEPT ![c] = n]
                 /\ batches' = [batches EXCEPT
                        ![id[c]].params = Append(@, param[c]),
                        ![id[c]].timer = IF n = 1 THEN "sleeping" ELSE @,
                        ![id[c]].open = ~full]
                 /\ Goto(c, IF full THEN "submit" ELSE "wait")
    /\ UNCHANGED <<currentBatchID, resultCache, param, id, answer>>

-----------------------------------------------------------------------------
(* submitBatch, called by the call that fills the batch or by its timer.   *)

\* What the batch function may return for the parameters of batch b.
Outcomes(b) ==
    {[i \in DOMAIN batches[b].params |->
        IF i \in failed THEN Error ELSE Result(batches[b].params[i], b)] :
            failed \in IF MayFail THEN SUBSET (DOMAIN batches[b].params) ELSE {{}}}

\* The batch function reads the parameters when it is called ...
Invoked(b, results) == [batches[b] EXCEPT !.results = results, !.invoked = @ + 1]

Submit(c) ==
    /\ pc[c] = "submit"
    /\ \E results \in Outcomes(id[c]) :
          batches' = [batches EXCEPT ![id[c]] = Invoked(id[c], results)]
    /\ Goto(c, "close")
    /\ UNCHANGED <<currentBatchID, resultCache, param, id, index, answer>>

\* Mutant: the done channel is not closed by a call that fills its batch.
CloseDoneForgotten(c) ==
    /\ pc[c] = "close"
    /\ Goto(c, "bumpFull")
    /\ UNCHANGED <<currentBatchID, batches, resultCache, param, id, index, answer>>

\* ... and returns some time later, before the done channel is closed.
CloseDone(c) ==
    /\ pc[c] = "close"
    /\ batches' = [batches EXCEPT ![id[c]].done = TRUE]
    /\ Goto(c, "bumpFull")
    /\ UNCHANGED <<currentBatchID, resultCache, param, id, index, answer>>

LeaveFullBatch(c) ==
    /\ pc[c] = "bumpFull"
    /\ CompareAndSwap(c)
    /\ Goto(c, "wait")
    /\ UNCHANGED <<batches, resultCache, param, id, index, answer>>

\* Mutant: the timer does not look at the batch's status.
TimeoutBatchAnyway(b) ==
    /\ batches[b].timer = "sleeping"
    /\ batches' = [batches EXCEPT ![b].timer = "submit", ![b].open = FALSE]
    /\ UNCHANGED <<currentBatchID, resultCache, locals>>

\* closeAfterTimeout, when it has slept.
TimeoutBatch(b) ==
    /\ batches[b].timer = "sleeping"
    /\ batches' = [batches EXCEPT
           ![b].timer = IF batches[b].open THEN "submit" ELSE "off",
           ![b].open = FALSE]
    /\ UNCHANGED <<currentBatchID, resultCache, locals>>

TimerSubmit(b) ==
    /\ batches[b].timer = "submit"
    /\ \E results \in Outcomes(b) :
          batches' = [batches EXCEPT ![b] = [Invoked(b, results) EXCEPT !.timer = "close"]]
    /\ UNCHANGED <<currentBatchID, resultCache, locals>>

TimerCloseDone(b) ==
    /\ batches[b].timer = "close"
    /\ batches' = [batches EXCEPT ![b].timer = "off", ![b].done = TRUE]
    /\ UNCHANGED <<currentBatchID, resultCache, locals>>

-----------------------------------------------------------------------------
\* The thunk.  A place behind the results yields the zero value.
Returned(c) ==
    IF index[c] \in DOMAIN Batch(c).results THEN Batch(c).results[index[c]] ELSE ZeroResult

\* Mutant: Store in place of LoadOrStore.
StoredLast(p, r) == [k \in DOMAIN resultCache \cup {p} |-> IF k = p THEN r ELSE resultCache[k]]

Stored(p, r) == LoadOrStore(resultCache, p, r)

Thunk(c) ==
    /\ pc[c] = "wait"
    /\ Batch(c).done
    /\ answer' = [answer EXCEPT ![c] = Returned(c)]
    /\ resultCache' = IF CacheResults /\ Returned(c) # Error
                      THEN Stored(param[c], Returned(c))
                      ELSE resultCache
    /\ Goto(c, "returned")
    /\ UNCHANGED <<currentBatchID, batches, param, id, index>>

\* Prime, mostly by a result subscriber of this or of another batcher, which
\* runs before the batch that it hears of is done.
Prime(p) ==
    /\ CacheResults
    /\ resultCache' = Stored(p, PrimedResult(p))
    /\ UNCHANGED <<currentBatchID, batches, locals>>

-----------------------------------------------------------------------------
Step(c) ==
    \/ LoadBatch(c) \/ CountCaller(c) \/ TryNextBatch(c) \/ AddParam(c)
    \/ Submit(c) \/ CloseDone(c) \/ LeaveFullBatch(c) \/ Thunk(c)

TimerStep(b) == TimeoutBatch(b) \/ TimerSubmit(b) \/ TimerCloseDone(b)

Next ==
    \/ \E c \in Calls : DoThunk(c) \/ Step(c)
    \/ \E b \in DOMAIN batches : TimerStep(b)
    \/ \E p \in Primable : Prime(p)

Spec == Init /\ [][Next]_vars

\* Goroutines are scheduled, and the batch function returns.
Fairness ==
    /\ \A c \in Calls : WF_vars(Step(c))
    /\ \A b \in 0 .. Cardinality(Calls) : WF_vars(b \in DOMAIN batches /\ TimerStep(b))

FairSpec == Spec /\ Fairness

-----------------------------------------------------------------------------
(* Properties.                                                             *)

\* Each call is answered with the result, or the error, of an invocation that
\* was given its parameter, or with a primed result for it: never with another
\* parameter's result, and never with the zero value of a missing result.
AnswersAreOwn ==
    \A c \in Calls :
        pc[c] = "returned" =>
            \/ answer[c] \in {Error, PrimedResult(param[c])}
            \/ \E b \in DOMAIN batches :
                  answer[c] = Result(param[c], b) /\ param[c] \in Range(batches[b].params)

\* "The underlying batch function will only receive the parameter once": no
\* batch holds a parameter twice, or more parameters than maxBatchSize.
BatchesAreSets ==
    \A b \in DOMAIN batches :
        /\ Len(batches[b].params) <= MaxBatchSize
        /\ \A i, j \in DOMAIN batches[b].params :
              batches[b].params[i] = batches[b].params[j] => i = j

Submitters(b) ==
    {c \in Calls : id[c] = b /\ pc[c] \in {"submit", "close"}}

\* A batch is submitted by the call that fills it or by its timer, never by
\* both and never by neither: an open batch that holds a parameter has a timer
\* running, and a closed one is being submitted by one of them until it is done.
OneSubmitter ==
    \A b \in DOMAIN batches :
        LET timed == batches[b].timer \in {"submit", "close"}
        IN  /\ batches[b].invoked <= 1
            /\ batches[b].open /\ batches[b].params # <<>> => batches[b].timer = "sleeping"
            /\ ~batches[b].open /\ ~batches[b].done => timed \/ Submitters(b) # {}
            /\ timed => Submitters(b) = {}
            /\ Cardinality(Submitters(b)) <= 1

\* A cached result is final: later calls see what earlier ones were given.
CacheIsFinal ==
    [][\A p \in DOMAIN resultCache :
          p \in DOMAIN resultCache' /\ resultCache'[p] = resultCache[p]]_resultCache

\* Every call returns, whatever the other calls do.
EveryCallReturns ==
    \A c \in Calls : (pc[c] # "new") ~> (pc[c] = "returned")

\* What the batch function is called with: sets of parameters, each once, by
\* one of those who may.
BatchInv ==
    /\ TypeOK
    /\ BatchesAreSets
    /\ OneSubmitter
=============================================================================
