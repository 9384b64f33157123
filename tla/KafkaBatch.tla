----------------------------- MODULE KafkaBatch -----------------------------
(***************************************************************************)
(* The consumers of one partition of a topic of the kafka-streamer: the    *)
(* message batcher, the read loop and rebalance callback of streamTopic,   *)
(* and the restart loop of runStreamer.  The consumers are the instances   *)
(* of the service, and share the group that owns the partition.            *)
(*                                                                         *)
(* A consumer runs on one goroutine, so the steps between two calls of the *)
(* broker or the database are one action; the worker goroutines that parse *)
(* run beside it.  The broker, the client library and the database are     *)
(* modelled from how the code uses them: a revocation that the callback    *)
(* does not complete is completed by the client, Close unsubscribes and so *)
(* delivers a last revocation, a commit stores what was delivered and is   *)
(* refused when the group has given the partition away, and the statements *)
(* of a batch are one transaction.                                         *)
(***************************************************************************)
EXTENDS Integers, Sequences, FiniteSets, Functions

CONSTANTS
    Consumers,  \* instances of the service
    NoConsumer, \* the owner of a partition nobody is assigned
    N,          \* messages in the partition, numbered from 1
    MaxSize,    \* maxSize of the batcher
    Contents,   \* what messages hold: some of "usable", "empty" and "poison"
    Faults,     \* the kinds of failure that may happen, a subset of FaultKinds
    MaxFaults   \* bound: how many failures happen

FaultKinds == {"read", "write", "commit", "crash", "rebalance", "expel"}

ASSUME KafkaBatchAssumption ==
    /\ NoConsumer \notin Consumers
    /\ N \in Nat
    /\ MaxSize \in Nat \ {0}
    /\ Contents \subseteq {"usable", "empty", "poison"}
    /\ Faults \subseteq FaultKinds
    /\ MaxFaults \in Nat

Blank == 0      \* an entry whose message is not parsed, or could not be

VARIABLES
    topic,      \* broker: what each message holds
    committed,  \* broker: the group's committed offset
    owner,      \* broker: the consumer the partition is assigned to
    written,    \* database: messages written
    row,        \* database: the message that was written last
    assigned,   \* consumers that hold the partition as far as they know
    position,   \* messages delivered to a consumer, from the first on
    entries,    \* entries of a consumer's batcher
    errors,     \* errors of a consumer's batcher: indices, with "fatal" or not
    parsing,    \* messages its workers have yet to parse, with their indices
    pc,         \* where a consumer's goroutine is
    caller,     \* what called Submit: the read loop, the callback or Close
    faults      \* failures so far

broker == <<topic, committed, owner>>
database == <<written, row>>
batch == <<entries, errors, parsing>>
vars == <<broker, database, assigned, position, batch, pc, caller, faults>>

Offsets == 1 .. N

TypeOK ==
    /\ topic \in [Offsets -> {"usable", "empty", "poison"}]
    /\ committed \in 0 .. N
    /\ owner \in Consumers \cup {NoConsumer}
    /\ written \in SUBSET Offsets
    /\ row \in 0 .. N
    /\ assigned \in SUBSET Consumers
    /\ position \in [Consumers -> 0 .. N]
    /\ entries \in [Consumers -> Seq(0 .. N)]
    /\ errors \in [Consumers -> SUBSET (Offsets \X BOOLEAN)]
    /\ parsing \in [Consumers -> SUBSET (Offsets \X Offsets)]
    /\ pc \in [Consumers -> {"down", "read", "submit", "write", "commit", "closing",
                             "restart"}]
    /\ caller \in [Consumers -> {"loop", "revoke", "close"}]
    /\ faults \in 0 .. MaxFaults

Init ==
    /\ topic \in [Offsets -> Contents]
    /\ committed = 0
    /\ owner = NoConsumer
    /\ written = {}
    /\ row = 0
    /\ assigned = {}
    /\ position = [c \in Consumers |-> 0]
    /\ entries = [c \in Consumers |-> <<>>]
    /\ errors = [c \in Consumers |-> {}]
    /\ parsing = [c \in Consumers |-> {}]
    /\ pc = [c \in Consumers |-> "down"]
    /\ caller = [c \in Consumers |-> "loop"]
    /\ faults = 0

-----------------------------------------------------------------------------
Goto(c, l) == pc' = [pc EXCEPT ![c] = l]

Fault(k) ==
    /\ k \in Faults
    /\ faults < MaxFaults
    /\ faults' = faults + 1

NoFault == UNCHANGED faults

\* The partition is no longer this consumer's, for itself and for the broker.
GiveUp(c) ==
    /\ assigned' = assigned \ {c}
    /\ owner' = IF owner = c THEN NoConsumer ELSE owner

Reset(c) ==
    /\ entries' = [entries EXCEPT ![c] = <<>>]
    /\ errors' = [errors EXCEPT ![c] = {}]

\* Memory of a process that starts.
Forget(c) ==
    /\ Goto(c, "down")
    /\ Reset(c)
    /\ parsing' = [parsing EXCEPT ![c] = {}]
    /\ GiveUp(c)
    /\ UNCHANGED <<topic, committed, database, position, caller>>

-----------------------------------------------------------------------------
(* streamTopic.                                                            *)

Subscribe(c) ==
    /\ pc[c] = "down"
    /\ Goto(c, "read")
    /\ UNCHANGED <<broker, database, assigned, position, batch, caller, faults>>

\* Mutant: reading resumes where this consumer left off.
ResumeWhereLeft(c) == position[c]

\* The partitions are assigned as the group sent them, without offsets.
ResumeAt(c) == committed

\* AssignedPartitions: reading resumes behind the committed offset.
Assign(c) ==
    /\ pc[c] = "read"
    /\ c \notin assigned
    /\ owner = NoConsumer
    /\ owner' = c
    /\ assigned' = assigned \cup {c}
    /\ position' = [position EXCEPT ![c] = ResumeAt(c)]
    /\ UNCHANGED <<topic, committed, database, batch, pc, caller, faults>>

\* RevokedPartitions: the group rebalances, or has already given the partition
\* to another member.  The callback submits what is batched.
Revoke(c) ==
    /\ pc[c] = "read"
    /\ c \in assigned
    /\ \/ owner # c /\ NoFault
       \/ Fault("rebalance")
    /\ Goto(c, "submit")
    /\ caller' = [caller EXCEPT ![c] = "revoke"]
    /\ UNCHANGED <<broker, database, assigned, position, batch>>

SubmitFromLoop(c) ==
    /\ Goto(c, "submit")
    /\ caller' = [caller EXCEPT ![c] = "loop"]

Full(n) == n >= MaxSize

\* Add, then IsReady: full, or maybe late.
ReceiveMessage(c) ==
    /\ pc[c] = "read"
    /\ c \in assigned
    /\ position[c] < N
    /\ position' = [position EXCEPT ![c] = @ + 1]
    /\ entries' = [entries EXCEPT ![c] = Append(@, Blank)]
    /\ parsing' = [parsing EXCEPT ![c] = @ \cup {<<position[c] + 1, Len(entries[c]) + 1>>}]
    /\ \/ SubmitFromLoop(c)
       \/ /\ ~Full(Len(entries[c]) + 1)
          /\ UNCHANGED <<pc, caller>>
    /\ UNCHANGED <<broker, database, assigned, errors, faults>>

\* ReadMessage timed out, and so did the batch.
ReadTimeout(c) ==
    /\ pc[c] = "read"
    /\ entries[c] # <<>>
    /\ SubmitFromLoop(c)
    /\ UNCHANGED <<broker, database, assigned, position, batch, faults>>

ReadError(c) ==
    /\ pc[c] = "read"
    /\ Fault("read")
    /\ Goto(c, "closing")
    /\ UNCHANGED <<broker, database, assigned, position, batch, caller>>

\* Mutants: no error of the parser is fatal, or every error is.
FatalNever(offset) == FALSE
FatalAlways(offset) == TRUE

\* An empty nft_id is an error that is not fatal.
Fatal(offset) == topic[offset] = "poison"

\* A worker parses a message.
Parse(c) ==
    \E w \in parsing[c] :
        LET offset == w[1]
            index == w[2]
        IN  /\ parsing' = [parsing EXCEPT ![c] = @ \ {w}]
            /\ \/ /\ topic[offset] = "usable"
                  /\ entries' = [entries EXCEPT ![c][index] = offset]
                  /\ UNCHANGED errors
               \/ /\ topic[offset] # "usable"
                  /\ errors' = [errors EXCEPT ![c] = @ \cup {<<index, Fatal(offset)>>}]
                  /\ UNCHANGED entries
            /\ UNCHANGED <<broker, database, assigned, position, pc, caller, faults>>

-----------------------------------------------------------------------------
(* Submit.                                                                 *)

\* Submit returns an error: the loop returns and closes the consumer; after
\* the callback the client gives the partition up and the loop returns; Close
\* ignores it.
SubmitFails(c) ==
    IF caller[c] = "loop"
    THEN Goto(c, "closing") /\ UNCHANGED <<assigned, owner>>
    ELSE Goto(c, IF caller[c] = "revoke" THEN "closing" ELSE "restart") /\ GiveUp(c)

\* Submit returns nil.
SubmitReturns(c) ==
    IF caller[c] = "loop"
    THEN Goto(c, "read") /\ UNCHANGED <<assigned, owner>>
    ELSE Goto(c, IF caller[c] = "revoke" THEN "read" ELSE "restart") /\ GiveUp(c)

\* s without the elements at the indices in I.
Without(s, I) ==
    LET kept == DOMAIN s \ I
    IN  [k \in 1 .. Cardinality(kept) |->
            s[CHOOSE i \in kept : Cardinality({j \in kept : j < i}) = k - 1]]

Failed(c) == {e[1] : e \in errors[c]}

\* The errors stay when the batch is compacted.  make panics if there are more
\* of them than entries.
Submit(c) ==
    /\ pc[c] = "submit"
    /\ \/ /\ entries[c] = <<>>
          /\ SubmitReturns(c)
          /\ UNCHANGED <<topic, committed, database, position, batch, caller, faults>>
       \/ /\ entries[c] # <<>>
          /\ parsing[c] = {}
          /\ \E e \in errors[c] : e[2]
          /\ SubmitFails(c)
          /\ UNCHANGED <<topic, committed, database, position, batch, caller, faults>>
       \/ /\ entries[c] # <<>>
          /\ parsing[c] = {}
          /\ \A e \in errors[c] : ~e[2]
          /\ Cardinality(errors[c]) <= Len(entries[c])
          /\ entries' = [entries EXCEPT ![c] = Without(@, Failed(c))]
          /\ Goto(c, "write")
          /\ UNCHANGED <<broker, database, assigned, position, errors, parsing, caller, faults>>
       \/ /\ entries[c] # <<>>
          /\ parsing[c] = {}
          /\ \A e \in errors[c] : ~e[2]
          /\ Cardinality(errors[c]) > Len(entries[c])
          /\ Forget(c)
          /\ NoFault

Store(c) ==
    /\ written' = written \cup (Range(entries[c]) \ {Blank})
    /\ row' = IF entries[c] = <<>> THEN row ELSE entries[c][Len(entries[c])]

\* submitF.  When it fails the transaction was rolled back, or its result lost.
WriteBatch(c) ==
    /\ pc[c] = "write"
    /\ \/ /\ Store(c)
          /\ Goto(c, "commit")
          /\ NoFault
          /\ UNCHANGED <<assigned, owner>>
       \/ /\ Fault("write")
          /\ SubmitFails(c)
          /\ Store(c) \/ UNCHANGED database
    /\ UNCHANGED <<topic, committed, position, batch, caller>>

\* Commit commits what has been delivered, whether it is in the batch or not.
Commit(c) ==
    /\ pc[c] = "commit"
    /\ \/ /\ owner = c
          /\ committed' = position[c]
          /\ Reset(c)
          /\ SubmitReturns(c)
          /\ NoFault
       \/ /\ \/ owner # c /\ NoFault
             \/ Fault("commit")
          /\ SubmitFails(c)
          /\ UNCHANGED <<committed, entries, errors>>
    /\ UNCHANGED <<topic, database, position, parsing, caller>>

-----------------------------------------------------------------------------
(* The end of streamTopic, and runStreamer.                                *)

\* The deferred Close: a consumer that still has the partition gets a last
\* revocation, unless Close gives up waiting for it.
Close(c) ==
    /\ pc[c] = "closing"
    /\ \/ /\ c \in assigned
          /\ Goto(c, "submit")
          /\ caller' = [caller EXCEPT ![c] = "close"]
          /\ UNCHANGED <<assigned, owner>>
       \/ /\ Goto(c, "restart")
          /\ GiveUp(c)
          /\ UNCHANGED caller
    /\ UNCHANGED <<topic, committed, database, position, batch, faults>>

\* Mutant: the batcher is not reset.
RestartAsIs(c) ==
    /\ pc[c] = "restart"
    /\ Goto(c, "down")
    /\ UNCHANGED <<broker, database, assigned, position, batch, caller, faults>>

\* Batcher.Reset, and streamTopic again.
Restart(c) ==
    /\ pc[c] = "restart"
    /\ entries[c] # <<>> => parsing[c] = {}
    /\ Reset(c)
    /\ Goto(c, "down")
    /\ UNCHANGED <<broker, database, assigned, position, parsing, caller, faults>>

\* The process ends: a deployment, a failure, or the panic of runStreamer.
Crash(c) ==
    /\ Fault("crash")
    /\ pc[c] # "down"
    /\ Forget(c)

\* The group takes a consumer for dead that is not.
Expel(c) ==
    /\ owner = c
    /\ Fault("expel")
    /\ owner' = NoConsumer
    /\ UNCHANGED <<topic, committed, database, assigned, position, batch, pc, caller>>

-----------------------------------------------------------------------------
Step(c) ==
    \/ Subscribe(c) \/ Assign(c) \/ ReceiveMessage(c) \/ ReadTimeout(c)
    \/ Submit(c) \/ WriteBatch(c) \/ Commit(c) \/ Close(c) \/ Restart(c)

Next ==
    \E c \in Consumers :
        Step(c) \/ Parse(c) \/ Revoke(c) \/ ReadError(c) \/ Crash(c) \/ Expel(c)

Spec == Init /\ [][Next]_vars

\* A consumer that runs keeps running, and so do its workers; the group tells
\* a member that its partition is gone.
Fairness ==
    \A c \in Consumers :
        /\ WF_vars(Step(c))
        /\ WF_vars(Parse(c))
        /\ WF_vars(owner # c /\ Revoke(c))

FairSpec == Spec /\ Fairness

-----------------------------------------------------------------------------
(* Properties.                                                             *)

\* "There's nothing we can do with an empty nft_id": those messages are the
\* only ones skipped.  Whatever fails, however the group rebalances, and
\* whichever consumer gets there first, a usable message is in the database
\* before the committed offset passes it.
OnlyEmptySkipped ==
    \A o \in 1 .. committed : topic[o] = "usable" => o \in written

\* A message that cannot be parsed stops the topic: no batch that holds it, or
\* that comes after it, is ever committed.
PoisonIsNotPassed ==
    \A o \in 1 .. committed : topic[o] # "poison"

\* Batches that are replayed after a crash or a rebalance leave the database
\* no older than the committed offset says it is.
RowIsCurrent ==
    \A o \in 1 .. committed : topic[o] = "usable" => row >= o

\* As long as the partition is its own, a consumer's batcher has every usable
\* message that was delivered and not committed, parsed or still to be, so that
\* a commit, which covers all that was delivered, covers nothing else.
DeliveredIsBatched ==
    \A c \in assigned : owner = c =>
        \A o \in committed + 1 .. position[c] :
            \/ o \in Range(entries[c])
            \/ \E w \in parsing[c] : w[1] = o
            \/ topic[o] # "usable"

\* Workers store their results in the slice that Add appends to, so a batch
\* must not outgrow the capacity it was made with while one is at work.
NeverReallocated ==
    \A c \in Consumers : parsing[c] # {} => Len(entries[c]) <= MaxSize

\* The database and the cursor move as the abstract specification allows.
MirrorSpec ==
    INSTANCE Mirror WITH content <- topic, stored <- written, cursor <- committed
Implements == MirrorSpec!MSpec

\* "We can't let it hold up event processing": if every message is usable or
\* has an empty nft_id, the topic is consumed to its end.
NothingHeldUp ==
    (\A o \in Offsets : topic[o] # "poison") ~> (committed = N)

\* What a batch may hold and a commit may cover: a poisoned message is never
\* passed, and workers never lose the slice they write to.
BatchInv ==
    /\ TypeOK
    /\ PoisonIsNotPassed
    /\ NeverReallocated
=============================================================================
