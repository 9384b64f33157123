--------------------------- MODULE HighlightMint ---------------------------
(***************************************************************************)
(* Claims of a free mint of one Highlight collection: the requests that    *)
(* make a claim, guarded by locks in redis and by the claims in the        *)
(* database, and the workers that follow a claim from its transaction to   *)
(* its media.  A worker is a delivery of a message of the queue, which     *)
(* names the claim and counts the attempts.  Redis, the database, the      *)
(* queue and Highlight are modelled from how the code uses them.           *)
(***************************************************************************)
EXTENDS Integers, Sequences, FiniteSets

CONSTANTS
    Requests,     \* calls of ClaimHighlightMint
    Users,
    Wallets,      \* rows of wallets, deleted ones too
    Addresses,
    WalletsFor,   \* the wallets each request may name
    OwnerOf,      \* the user who has added each wallet
    AddressOf,    \* the L1 address of each wallet
    FirstOwned,   \* wallets that are not deleted at first
    Workers,
    MaxAttempts,  \* maxHandlerAttempts
    Tracked,      \* bound: requests whose messages the queue delivers; it is
                  \* slow with the others
    MaxFaults     \* bound: failures, crashes and wallets that change hands

ASSUME HighlightMintAssumption ==
    /\ WalletsFor \in [Requests -> SUBSET Wallets]
    /\ OwnerOf \in [Wallets -> Users]
    /\ AddressOf \in [Wallets -> Addresses]
    /\ FirstOwned \subseteq Wallets
    /\ Users \cap Wallets = {}
    /\ MaxAttempts \in Nat \ {0}
    /\ MaxFaults \in Nat

VARIABLES
    walletOf,    \* the wallet each request names
    owned,       \* database: wallets that are not deleted
    held,        \* redis: locks of users and wallets
    pc,          \* where each request is
    tx,          \* Highlight: the transaction of each request
    status,      \* database: the status of the request's claim
    processed,   \* claims whose token a run of the pipeline has processed
    messages,    \* queue: how many messages there are of a claim and an attempt
    worker,      \* what each worker does
    overlapped,  \* history: requests that were let in with a conflicting one
    doubled,     \* history: claims that had more than one message
    stranded,    \* history: claims that lost their message or last status to a failure
    disturbed,   \* history: claims with a handler that has crashed, was delivered
                 \* twice, or had a call of its own fail
    turnedAway,  \* history: claims whose run was turned away
    faults       \* failures so far

media == <<processed, turnedAway>>
vars == <<walletOf, owned, held, pc, tx, status, media, messages, worker, overlapped, doubled,
          stranded, disturbed, faults>>

UserOf(r) == OwnerOf[walletOf[r]]

InFlight == {"TX_PENDING", "TX_SUCCEEDED", "MEDIA_PROCESSING"}
Final == {"TX_FAILED", "MEDIA_PROCESSED", "MEDIA_FAILED", "FAILED_INTERNAL"}

\* One more than a message should come to have.
Attempts == 0 .. MaxAttempts + 1

\* What a worker works on: the claim, the status it takes it for, and the calls
\* that are left to make once it is known how the handler ends.
NoWork == <<>>
Work(r, a, s, calls) == [claim |-> r, attempt |-> a, local |-> s, todo |-> calls]

WorkOf == [claim : Requests, attempt : 0 .. MaxAttempts, local : InFlight \cup Final,
           todo : Seq(InFlight \cup Final \cup {"retry", "reply"})]

TypeOK ==
    /\ walletOf \in [Requests -> Wallets]
    /\ owned \in SUBSET Wallets
    /\ held \in SUBSET (Users \cup Wallets)
    /\ pc \in [Requests -> {"start", "setUser", "readWallet", "setWallet", "check", "mint",
                            "save", "saveFailed", "queue", "unlockUser", "unlockWallet", "end"}]
    /\ tx \in [Requests -> {"none", "pending", "succeeded", "reverted"}]
    /\ status \in [Requests -> {"none"} \cup InFlight \cup Final]
    /\ processed \in SUBSET Requests
    /\ messages \in [Requests -> [Attempts -> Nat]]
    /\ \A r \in Requests : messages[r][MaxAttempts + 1] = 0
    /\ worker \in [Workers -> {NoWork} \cup WorkOf]
    /\ overlapped \in SUBSET Requests
    /\ doubled \in SUBSET Requests
    /\ stranded \in SUBSET Requests
    /\ disturbed \in SUBSET Requests
    /\ turnedAway \in SUBSET Requests
    /\ faults \in 0 .. MaxFaults

Init ==
    /\ walletOf \in {f \in [Requests -> Wallets] : \A r \in Requests : f[r] \in WalletsFor[r]}
    /\ owned = FirstOwned
    /\ held = {}
    /\ pc = [r \in Requests |-> "start"]
    /\ tx = [r \in Requests |-> "none"]
    /\ status = [r \in Requests |-> "none"]
    /\ processed = {}
    /\ messages = [r \in Requests |-> [a \in Attempts |-> 0]]
    /\ worker = [w \in Workers |-> NoWork]
    /\ overlapped = {}
    /\ doubled = {}
    /\ stranded = {}
    /\ disturbed = {}
    /\ turnedAway = {}
    /\ faults = 0

Fault ==
    /\ faults < MaxFaults
    /\ faults' = faults + 1

NoFault == UNCHANGED faults

Goto(r, l) == pc' = [pc EXCEPT ![r] = l]

Send(r, a) == messages' = [messages EXCEPT ![r][a] = @ + 1]

claimed == <<tx, status, messages, stranded>>
elsewhere == <<walletOf, owned, media, worker, doubled, disturbed>>

-----------------------------------------------------------------------------
(* ClaimHighlightMint: guardMinting.                                       *)

\* Between the locks and their release.
Inside == {r \in Requests : pc[r] \in {"check", "mint", "save", "saveFailed", "queue"}}

\* The claims of the same user, or for the same address.
Conflict(r, s) ==
    /\ r # s
    /\ UserOf(r) = UserOf(s) \/ AddressOf[walletOf[r]] = AddressOf[walletOf[s]]

\* Lock reads the key and sets it afterwards; an error ends the request.
ReadLock(r, key, here, next) ==
    /\ pc[r] = here
    /\ \/ key \notin held /\ Goto(r, next) /\ NoFault
       \/ key \in held /\ Goto(r, "end") /\ NoFault
       \/ Fault /\ Goto(r, "end")
    /\ UNCHANGED <<held, overlapped, claimed, elsewhere>>

ReadUserLock(r) == ReadLock(r, UserOf(r), "start", "setUser")

SetUserLock(r) ==
    /\ pc[r] = "setUser"
    /\ held' = held \cup {UserOf(r)}
    /\ Goto(r, "readWallet")
    /\ UNCHANGED <<overlapped, claimed, elsewhere, faults>>

\* A wallet that is locked leaves the user locked.
ReadWalletLock(r) == ReadLock(r, walletOf[r], "readWallet", "setWallet")

SetWalletLock(r) ==
    /\ pc[r] = "setWallet"
    /\ held' = held \cup {walletOf[r]}
    /\ Goto(r, "check")
    /\ LET others == {s \in Inside : Conflict(r, s)}
       IN  overlapped' = IF others = {} THEN overlapped ELSE overlapped \cup others \cup {r}
    /\ UNCHANGED <<claimed, elsewhere, faults>>

-----------------------------------------------------------------------------
(* ClaimHighlightMint: alreadyClaimedByUser to the task.                   *)

Minted == {"TX_SUCCEEDED", "MEDIA_PROCESSED", "MEDIA_FAILED"}

\* Mutant: a claim that failed for an internal reason may be made again.
PendingButFailed == {"TX_PENDING", "MEDIA_PROCESSING"}

Pending == {"TX_PENDING", "MEDIA_PROCESSING", "FAILED_INTERNAL"}

\* The user or the address has a claim that was minted or may be.
AlreadyClaimed(r) == \E s \in Requests : Conflict(r, s) /\ status[s] \in Minted \cup Pending

\* alreadyClaimedByUser, validateClaimableForWallet and the limiter of the
\* address the request comes from.
Check(r) ==
    /\ pc[r] = "check"
    /\ \/ ~AlreadyClaimed(r) /\ walletOf[r] \in owned /\ Goto(r, "mint")
       \/ Goto(r, "unlockUser")
    /\ UNCHANGED <<held, overlapped, claimed, elsewhere, faults>>

\* ClaimMint: a transaction is made, or one that has failed, or none; a reply
\* that is lost is an internal error.
ClaimMint(r) ==
    /\ pc[r] = "mint"
    /\ \/ tx' = [tx EXCEPT ![r] = "pending"] /\ Goto(r, "save") /\ NoFault
       \/ tx' = [tx EXCEPT ![r] = "reverted"] /\ Goto(r, "saveFailed") /\ NoFault
       \/ Goto(r, "unlockUser") /\ UNCHANGED tx /\ NoFault
       \/ Fault /\ tx' = [tx EXCEPT ![r] = "pending"] /\ Goto(r, "unlockUser")
    /\ UNCHANGED <<held, status, messages, stranded, overlapped, elsewhere>>

\* A failed transaction has no claim id, and ids are unique.
IdIsTaken == \E s \in Requests : status[s] = "TX_FAILED"

Save(r, s) == status' = [status EXCEPT ![r] = s]

\* The status is what ClaimMint has returned, whatever the transaction is by now.
SaveClaim(r) ==
    /\ pc[r] \in {"save", "saveFailed"}
    /\ \/ pc[r] = "save" /\ Save(r, "TX_PENDING") /\ Goto(r, "queue") /\ NoFault
       \/ /\ pc[r] = "saveFailed"
          /\ IF IdIsTaken THEN UNCHANGED status ELSE Save(r, "TX_FAILED")
          /\ Goto(r, "unlockUser")
          /\ NoFault
       \/ Fault /\ Goto(r, "unlockUser") /\ UNCHANGED status
    /\ UNCHANGED <<held, tx, messages, stranded, overlapped, elsewhere>>

QueueClaim(r) ==
    /\ pc[r] = "queue"
    /\ \/ Send(r, 0) /\ NoFault /\ UNCHANGED stranded
       \/ Fault /\ stranded' = stranded \cup {r} /\ UNCHANGED messages
    /\ Goto(r, "unlockUser")
    /\ UNCHANGED <<held, tx, status, overlapped, elsewhere>>

\* releaseLock: Unlock deletes the key, whoever has set it, and its error is
\* not looked at.
Unlock(r, key, here, next) ==
    /\ pc[r] = here
    /\ \/ held' = held \ {key} /\ NoFault
       \/ Fault /\ UNCHANGED held
    /\ Goto(r, next)
    /\ UNCHANGED <<overlapped, claimed, elsewhere>>

UnlockUser(r) == Unlock(r, UserOf(r), "unlockUser", "unlockWallet")
UnlockWallet(r) == Unlock(r, walletOf[r], "unlockWallet", "end")

CrashRequest(r) ==
    /\ pc[r] \notin {"start", "end"}
    /\ Fault
    /\ Goto(r, "end")
    /\ stranded' = IF pc[r] = "queue" THEN stranded \cup {r} ELSE stranded
    /\ UNCHANGED <<held, tx, status, messages, overlapped, elsewhere>>

\* Five minutes are longer than a request.
Expire(key) ==
    /\ key \in held
    /\ \A r \in Requests :
          key \in {UserOf(r), walletOf[r]} => pc[r] \in {"start", "setUser", "end"}
    /\ held' = held \ {key}
    /\ UNCHANGED <<pc, overlapped, claimed, elsewhere, faults>>

RequestStep(r) ==
    \/ ReadUserLock(r) \/ SetUserLock(r) \/ ReadWalletLock(r) \/ SetWalletLock(r)
    \/ Check(r) \/ ClaimMint(r) \/ SaveClaim(r) \/ QueueClaim(r)
    \/ UnlockUser(r) \/ UnlockWallet(r)

-----------------------------------------------------------------------------
(* processHighlightMintClaim.                                              *)

requests == <<walletOf, owned, held, pc, overlapped>>

Do(w, k) == worker' = [worker EXCEPT ![w] = k]

SetStatus(r, s) == status' = [status EXCEPT ![r] = s]

Exhausted(a) == a >= MaxAttempts

\* Mutant: a claim that failed is tracked from its beginning.
StartsOver(r) == IF status[r] = "FAILED_INTERNAL" THEN "TX_PENDING" ELSE status[r]

\* The status from which a claim is tracked.
Resumes(r) == status[r]

\* The calls with which a handler ends, a status standing for the call that
\* writes it.  The branch of missing media does not return: an error of missing
\* media is one of a bad token too, or an unexpected one.
Calls(e) ==
    CASE e = "processed" -> <<"MEDIA_PROCESSED", "reply">>
      [] e = "ended" -> <<"reply">>
      [] e = "stillPending" -> <<"TX_PENDING", "retry", "reply">>
      [] e = "stillSyncing" -> <<"TX_SUCCEEDED", "retry", "reply">>
      [] e = "badToken" -> <<"MEDIA_PROCESSING", "retry", "reply">>
      [] e = "badNoMedia" -> <<"TX_SUCCEEDED", "retry", "MEDIA_PROCESSING", "retry", "reply">>
      [] e = "noMedia" -> <<"TX_SUCCEEDED", "retry", "FAILED_INTERNAL", "reply">>
      [] e = "exhausted" -> <<"MEDIA_FAILED", "reply">>
      [] e = "internal" -> <<"FAILED_INTERNAL", "reply">>

\* The message of claim r and attempt a is delivered, and the claim is read; if
\* that fails the claim does.
Take(w, r, a) ==
    /\ worker[w] = NoWork
    /\ r \in Tracked
    /\ messages[r][a] > 0
    /\ messages' = [messages EXCEPT ![r][a] = @ - 1]
    /\ \/ /\ Do(w, Work(r, a, Resumes(r), <<>>))
          /\ NoFault
          /\ UNCHANGED disturbed
       \/ /\ Fault
          /\ Do(w, Work(r, a, "FAILED_INTERNAL", Calls("internal")))
          /\ disturbed' = disturbed \cup {r}
    /\ UNCHANGED <<requests, tx, status, media, doubled, stranded>>

\* The claim is tracked from status s.
Tracks(w, s) ==
    /\ worker[w] # NoWork
    /\ worker[w].todo = <<>>
    /\ ~Exhausted(worker[w].attempt)
    /\ worker[w].local = s

\* It is known how the handler ends.
Conclude(w, e) ==
    /\ Do(w, [worker[w] EXCEPT !.todo = Calls(e)])
    /\ UNCHANGED <<requests, tx, status, messages, doubled, stranded, disturbed, faults>>

\* The attempts are used up: the claim fails, whatever has become of it.
GiveUp(w) ==
    /\ worker[w] # NoWork
    /\ worker[w].todo = <<>>
    /\ Exhausted(worker[w].attempt)
    /\ Conclude(w, IF worker[w].local = "MEDIA_PROCESSING" THEN "exhausted" ELSE "internal")
    /\ UNCHANGED media

\* There is nothing more to do.
Ended(w) ==
    /\ \E s \in Final : Tracks(w, s)
    /\ Conclude(w, "ended")
    /\ UNCHANGED media

\* trackMint: a step of the claim writes the next status and goes on from it.
Succeed(w, next) ==
    /\ SetStatus(worker[w].claim, next)
    /\ Do(w, [worker[w] EXCEPT !.local = next])
    /\ UNCHANGED <<requests, tx, messages, doubled, stranded, disturbed, faults>>

\* Mutant: waiting for the transaction in vain is no error.
NotMinted(r) == "none"

\* The error of waitForMinted when the transaction has not succeeded.
WhenUnminted(r) == IF tx[r] = "pending" THEN "stillPending" ELSE "internal"

\* waitForMinted.  Highlight may know the transaction and not yet its media.
\* The error of writing the status is one of this step.
WaitForMinted(w) ==
    /\ Tracks(w, "TX_PENDING")
    /\ LET r == worker[w].claim
           unminted == IF tx[r] = "succeeded" THEN "none" ELSE WhenUnminted(r)
       IN  \/ unminted = "none" /\ Succeed(w, "TX_SUCCEEDED")
           \/ unminted = "none" /\ Conclude(w, "noMedia")
           \/ unminted # "none" /\ Conclude(w, unminted)
           \/ Conclude(w, "internal")
    /\ UNCHANGED media

\* waitForSynced.
WaitForSynced(w) ==
    /\ Tracks(w, "TX_SUCCEEDED")
    /\ \/ Succeed(w, "MEDIA_PROCESSING")
       \/ \E e \in {"stillSyncing", "internal"} : Conclude(w, e)
    /\ UNCHANGED media

\* Mutant: runManagedPipeline returns the error of saving, not of the run.
RunErrorSaved(e) == "processed"

RunError(e) == e

\* runManagedPipeline: the run succeeds, or is turned away (by another run, by
\* a paused contract or by redis) without an error, or fails.
RunPipeline(w) ==
    /\ Tracks(w, "MEDIA_PROCESSING")
    /\ \/ /\ Conclude(w, "processed")
          /\ processed' = processed \cup {worker[w].claim}
          /\ UNCHANGED turnedAway
       \/ /\ Conclude(w, "processed")
          /\ turnedAway' = turnedAway \cup {worker[w].claim}
          /\ UNCHANGED processed
       \/ /\ \E e \in {"badToken", "badNoMedia", "internal"} : Conclude(w, RunError(e))
          /\ UNCHANGED media

-----------------------------------------------------------------------------
(* The end of the handler, call by call.                                   *)

Ending(w) == worker[w] # NoWork /\ worker[w].todo # <<>>

Rest(w) == [worker[w] EXCEPT !.todo = Tail(@)]

\* The error of a status that is not written, or of which it is not known, is
\* only looked at when it is that of the end of trackMint.
Failed(w) ==
    IF Head(worker[w].todo) = "MEDIA_PROCESSED"
    THEN [worker[w] EXCEPT !.todo = Calls("internal")]
    ELSE Rest(w)

WriteStatus(w) ==
    /\ Ending(w)
    /\ LET s == Head(worker[w].todo)
           r == worker[w].claim
       IN  /\ s \in InFlight \cup Final
           /\ \/ /\ SetStatus(r, s)
                 /\ Do(w, Rest(w))
                 /\ NoFault
                 /\ UNCHANGED <<stranded, disturbed>>
              \/ /\ Fault
                 /\ Do(w, Failed(w))
                 /\ disturbed' = disturbed \cup {r}
                 /\ \/ SetStatus(r, s) /\ UNCHANGED stranded
                    \/ /\ stranded' = IF s \in {"MEDIA_FAILED", "FAILED_INTERNAL"}
                                      THEN stranded \cup {r}
                                      ELSE stranded
                       /\ UNCHANGED status
    /\ UNCHANGED <<requests, tx, media, messages, doubled>>

\* Mutant: the message is sent again as it was.
SameAttempt(a) == a

NextAttempt(a) == a + 1

\* retryMessage creates the next task and does not look at the error.  If the
\* handler has more to do, two go on with the claim.
CreateTask(w) ==
    /\ Ending(w)
    /\ Head(worker[w].todo) = "retry"
    /\ LET r == worker[w].claim
       IN  \/ /\ Send(r, NextAttempt(worker[w].attempt))
              /\ doubled' = IF Tail(worker[w].todo) = <<"reply">> THEN doubled ELSE doubled \cup {r}
              /\ NoFault
              /\ UNCHANGED <<stranded, disturbed>>
           \/ /\ Fault
              /\ stranded' = stranded \cup {r}
              /\ disturbed' = disturbed \cup {r}
              /\ UNCHANGED <<messages, doubled>>
    /\ Do(w, Rest(w))
    /\ UNCHANGED <<requests, tx, status, media>>

\* The answer removes the message from the queue.
Reply(w) ==
    /\ Ending(w)
    /\ Head(worker[w].todo) = "reply"
    /\ Do(w, NoWork)
    /\ UNCHANGED <<requests, tx, status, media, messages, doubled, stranded, disturbed, faults>>

\* A worker that has more to do than answer.
Active(w, r) == worker[w] # NoWork /\ worker[w].claim = r /\ worker[w].todo # <<"reply">>

\* A worker crashes, and its message is delivered again.
CrashWorker(w) ==
    /\ worker[w] # NoWork
    /\ Fault
    /\ LET r == worker[w].claim
           others == (\E a \in Attempts : messages[r][a] > 0) \/ (\E v \in Workers \ {w} : Active(v, r))
       IN  /\ Send(r, worker[w].attempt)
           /\ doubled' = IF others THEN doubled \cup {r} ELSE doubled
           /\ disturbed' = disturbed \cup {r}
    /\ Do(w, NoWork)
    /\ UNCHANGED <<requests, tx, status, media, stranded>>

\* The queue does not wait for a worker that takes too long.
Redeliver(w) ==
    /\ worker[w] # NoWork
    /\ Fault
    /\ Send(worker[w].claim, worker[w].attempt)
    /\ doubled' = doubled \cup {worker[w].claim}
    /\ disturbed' = disturbed \cup {worker[w].claim}
    /\ UNCHANGED <<requests, tx, status, media, worker, stranded>>

WorkerStep(w) ==
    \/ \E r \in Requests, a \in Attempts : Take(w, r, a)
    \/ GiveUp(w) \/ Ended(w)
    \/ WaitForMinted(w) \/ WaitForSynced(w) \/ RunPipeline(w)
    \/ WriteStatus(w) \/ CreateTask(w) \/ Reply(w)

-----------------------------------------------------------------------------
(* The environment.                                                        *)

\* Highlight executes a transaction.
Execute(r) ==
    /\ tx[r] = "pending"
    /\ \E x \in {"succeeded", "reverted"} : tx' = [tx EXCEPT ![r] = x]
    /\ UNCHANGED <<requests, status, media, messages, worker, doubled, stranded, disturbed, faults>>

\* A wallet is removed and its address is added by someone: a new wallet.
MoveWallet(u, v) ==
    /\ u \in owned
    /\ v \notin owned
    /\ AddressOf[u] = AddressOf[v]
    /\ Fault
    /\ owned' = (owned \ {u}) \cup {v}
    /\ UNCHANGED <<walletOf, held, pc, tx, status, media, messages, worker, overlapped, doubled,
                   stranded, disturbed>>

-----------------------------------------------------------------------------
Next ==
    \/ \E r \in Requests : RequestStep(r) \/ CrashRequest(r) \/ Execute(r)
    \/ \E key \in Users \cup Wallets : Expire(key)
    \/ \E w \in Workers : WorkerStep(w) \/ CrashWorker(w) \/ Redeliver(w)
    \/ \E u, v \in Wallets : MoveWallet(u, v)

Spec == Init /\ [][Next]_vars

\* The queue delivers its messages, and requests and workers run.
Fairness ==
    /\ \A r \in Requests : WF_vars(RequestStep(r))
    /\ \A w \in Workers : WF_vars(WorkerStep(w))

FairSpec == Spec /\ Fairness

-----------------------------------------------------------------------------
(* Properties.                                                             *)

Executed(r) == tx[r] \in {"pending", "succeeded"}

\* A user and an address get one mint of the collection, whatever became of
\* the first one, unless the two requests were let in together (the locks are
\* read before they are set, and a wallet that changes hands has another lock)
\* or a mint was made whose claim was never saved.
OneMint ==
    \A r, s \in Requests :
        Conflict(r, s) /\ Executed(r) /\ Executed(s) =>
            \/ {r, s} \subseteq overlapped
            \/ \E q \in {r, s} : pc[q] \in {"unlockUser", "unlockWallet", "end"} /\ status[q] = "none"

\* A claim that is past its transaction was minted.
MintedWhenSaid ==
    \A r \in Requests :
        status[r] \in {"TX_SUCCEEDED", "MEDIA_PROCESSING", "MEDIA_PROCESSED", "MEDIA_FAILED"} =>
            tx[r] = "succeeded"

\* MEDIA_PROCESSED is said of a claim that a run has processed or that a run of
\* was turned away from, which the handler does not learn.  MEDIA_FAILED is not
\* said of one that was processed, unless a failure came between the run and
\* the status, or two messages of the claim went on with it.
MediaIsTold ==
    \A r \in Requests :
        /\ status[r] = "MEDIA_PROCESSED" => r \in processed \cup turnedAway
        /\ status[r] = "MEDIA_FAILED" /\ r \in processed => r \in doubled \cup disturbed

\* A claim that has come to an end does not begin again, unless it had two
\* messages: then one can end it and the other go on with it.  What it has come
\* to may only turn into an internal failure, and only after a failure has
\* brought its handler back to it.
FinalStays ==
    [][\A r \in Requests \ doubled : status[r] \in Final =>
          \/ status'[r] = status[r]
          \/ status'[r] = "FAILED_INTERNAL" /\ r \in disturbed]_vars

\* Every claim comes to an end, however often its worker crashes or is run
\* twice, unless a failure has taken its message or its last status.
Settles ==
    <>[](\A r \in Tracked : status[r] \in Final \cup {"none"} \/ r \in stranded)

\* Claims say what became of their transactions, and no message of a claim
\* asks for more attempts than there are.
ClaimsInv ==
    /\ TypeOK
    /\ MintedWhenSaid
=============================================================================
