------------------------------ MODULE ExpoPush ------------------------------
(***************************************************************************)
(* The push notifications server: tasks whose messages are collected in    *)
(* batches and sent to Expo, and jobs that later check the tickets Expo    *)
(* gave for them.  A task waits in its handler for the result of its       *)
(* batch, and the queue delivers it again when the handler fails; a batch  *)
(* is sent by a goroutine of its own.  The database, Expo and the queue    *)
(* are modelled from how the code uses them: Expo answers the messages in  *)
(* their order, and a ticket or a receipt may say anything.                *)
(***************************************************************************)
EXTENDS Integers, Sequences, FiniteSets, FiniteSetsExt

CONSTANTS
    Tasks,       \* push notifications that were queued
    Tokens,      \* rows of push_notification_tokens
    TokenOf,     \* the push token of each task
    Batches,     \* identities of batches, used again when all have their answers
    NoBatch,
    MaxBatch,    \* maxBatch
    Jobs,        \* runs of checkPushTicketsHandler, numbered as they begin
    Limit,       \* maxReceiptsPerRequest
    MaxDepth,    \* maxCheckPushTicketsRecursions
    MaxTickets,  \* bound: tickets there may be when a job begins
    MaxFaults    \* bound: failures of Expo, of the database and of the process

ASSUME ExpoPushAssumption ==
    /\ TokenOf \in [Tasks -> Tokens]
    /\ NoBatch \notin Batches
    /\ Batches \cap {"queued", "ended"} = {}
    /\ Jobs \subseteq Nat
    /\ MaxBatch \in Nat \ {0}
    /\ Limit \in Nat \ {0}
    /\ MaxDepth \in Nat
    /\ MaxTickets \in Nat
    /\ MaxFaults \in Nat

VARIABLES
    registered,  \* database: tokens that are not deleted
    tickets,     \* database: push_notification_tickets
    pc,          \* where each task is, or the batch its handler waits for
    current,     \* the handler's batch
    messages,    \* tasks of each batch
    at,          \* how far each batch is
    found,       \* sendableMessages of each batch, by their places
    replies,     \* Expo's tickets for them
    errors,      \* what each batch answers
    job,         \* where each job is, its depth, and its tickets with their receipts
    panicked,    \* history: the process ended with a panic
    accepted,    \* history: how often Expo accepted a task's message, counted
                 \* anew when a crash or a lost answer hides it from the server
    gone,        \* history: tokens there was a reason to delete
    faults       \* failures so far

handler == <<current, messages, at, found, replies, errors>>
history == <<panicked, accepted, gone>>
vars == <<registered, tickets, pc, handler, job, history, faults>>

Replies == {"ok", "notRegistered", "error"}
Results == Replies \cup {"notFound"}
\* "delivered" stands for a message that was too big as well: both close the
\* ticket and nothing else.
Receipts == {"missing", "delivered", "notRegistered", "error"}

Idle == [at |-> "idle", depth |-> 0, receipts |-> <<>>]
Over == [Idle EXCEPT !.at = "over"]

TypeOK ==
    /\ registered \in SUBSET Tokens
    /\ DOMAIN tickets \subseteq Tasks \X Nat
    /\ \A i \in DOMAIN tickets : tickets[i] \in {"open", "closed"}
    /\ pc \in [Tasks -> {"queued", "ended"} \cup Batches]
    /\ current \in Batches \cup {NoBatch}
    /\ messages \in [Batches -> Seq(Tasks)]
    /\ \A b \in Batches :
          Len(messages[b]) <= MaxBatch /\ ((at[b] = "free") = (messages[b] = <<>>))
    /\ at \in [Batches -> {"free", "open", "lookup", "send", "record", "done"}]
    /\ DOMAIN found = Batches /\ DOMAIN replies = Batches
    /\ \A b \in Batches :
          /\ found[b] \in SUBSET DOMAIN messages[b]
          /\ replies[b] \in [found[b] -> Replies] \/ replies[b] = <<>>
    /\ errors \in [Batches -> Seq(Results)]
    /\ DOMAIN job = Jobs
    /\ \A j \in Jobs :
          /\ DOMAIN job[j] = DOMAIN Idle
          /\ job[j].at \in {"idle", "query", "update", "over"}
          /\ job[j].depth \in 0 .. MaxDepth
          /\ DOMAIN job[j].receipts \subseteq DOMAIN tickets
    /\ panicked \in BOOLEAN
    /\ accepted \in [Tasks -> Nat]
    /\ gone \in SUBSET Tokens
    /\ faults \in 0 .. MaxFaults

NoBatches ==
    /\ messages = [b \in Batches |-> <<>>]
    /\ at = [b \in Batches |-> "free"]
    /\ found = [b \in Batches |-> {}]
    /\ replies = [b \in Batches |-> <<>>]
    /\ errors = [b \in Batches |-> <<>>]

Init ==
    /\ registered = Tokens
    /\ tickets = <<>>
    /\ pc = [t \in Tasks |-> "queued"]
    /\ current = NoBatch
    /\ NoBatches
    /\ job = [j \in Jobs |-> Idle]
    /\ panicked = FALSE
    /\ accepted = [t \in Tasks |-> 0]
    /\ gone = {}
    /\ faults = 0

Fault ==
    /\ faults < MaxFaults
    /\ faults' = faults + 1

NoFault == UNCHANGED faults

Goto(b, l) == at' = [at EXCEPT ![b] = l]

\* The tasks whose handlers wait for a batch.
Waiting(b) == {t \in Tasks : pc[t] = b}

\* Nothing of batch b is left.
Clear(b) ==
    /\ messages' = [messages EXCEPT ![b] = <<>>]
    /\ Goto(b, "free")
    /\ found' = [found EXCEPT ![b] = {}]
    /\ replies' = [replies EXCEPT ![b] = <<>>]
    /\ errors' = [errors EXCEPT ![b] = <<>>]

-----------------------------------------------------------------------------
(* sendThunk, appendMessage and startTimer.                                *)

Full(n) == n >= MaxBatch

\* A task is delivered: its message goes to the current batch or a new one,
\* which is closed when it is full.  Bound: none is delivered after a panic,
\* whose restart is that of a crash.
Receive(t) ==
    /\ pc[t] = "queued"
    /\ ~panicked
    /\ current # NoBatch \/ \E b \in Batches : at[b] = "free"
    /\ LET fresh == current = NoBatch
           b == IF fresh THEN CHOOSE c \in Batches : at[c] = "free" ELSE current
           all == Append(messages[b], t)
       IN  /\ messages' = [messages EXCEPT ![b] = all]
           /\ IF Full(Len(all))
              THEN current' = NoBatch /\ Goto(b, "lookup")
              ELSE current' = b /\ Goto(b, "open")
           /\ pc' = [pc EXCEPT ![t] = b]
    /\ UNCHANGED <<found, replies, errors>>
    /\ UNCHANGED <<registered, tickets, job, history, faults>>

\* startTimer, for a batch that is not closing.
TimeIsUp(b) ==
    /\ at[b] = "open"
    /\ current' = NoBatch
    /\ Goto(b, "lookup")
    /\ UNCHANGED <<registered, tickets, pc, messages, found, replies, errors,
                   job, history, faults>>

-----------------------------------------------------------------------------
(* sendMessageBatch.                                                       *)

\* Mutant: a batch without tokens returns before its callers are told.
UnlessNotFound(e) == IF e = <<"notFound">> THEN "free" ELSE "done"

\* Closing "done" lets the callers go on.
AfterAnswer(e) == "done"

Answer(b, e) ==
    /\ errors' = [errors EXCEPT ![b] = e]
    /\ found' = [found EXCEPT ![b] = {}]
    /\ replies' = [replies EXCEPT ![b] = <<>>]
    /\ Goto(b, AfterAnswer(e))

\* A process starts anew: handlers and jobs are lost, and the queue has the
\* tasks again.
Restart ==
    /\ pc' = [t \in Tasks |-> IF pc[t] \in Batches THEN "queued" ELSE pc[t]]
    /\ current' = NoBatch
    /\ messages' = [b \in Batches |-> <<>>]
    /\ at' = [b \in Batches |-> "free"]
    /\ found' = [b \in Batches |-> {}]
    /\ replies' = [b \in Batches |-> <<>>]
    /\ errors' = [b \in Batches |-> <<>>]
    /\ job' = [j \in Jobs |-> IF job[j].at = "idle" THEN Idle ELSE Over]
    /\ accepted' = [t \in Tasks |-> IF pc[t] \in Batches THEN 0 ELSE accepted[t]]

\* The messages of b whose tokens GetPushTokensByIDs returns.
Found(b) == {p \in DOMAIN messages[b] : TokenOf[messages[b][p]] \in registered}

\* Messages are compared with the next token that was returned, until there is
\* none left to compare with: reading it is out of range.
OutOfRange(b) == Found(b) # {} /\ Len(messages[b]) \notin Found(b)

Lookup(b) ==
    /\ at[b] = "lookup"
    /\ \/ /\ Fault
          /\ Answer(b, <<"error">>)
          /\ UNCHANGED <<pc, current, messages, job, history>>
       \/ /\ Found(b) = {}
          /\ Answer(b, <<"notFound">>)
          /\ UNCHANGED <<pc, current, messages, job, history, faults>>
       \/ /\ OutOfRange(b)
          /\ Restart
          /\ panicked' = TRUE
          /\ UNCHANGED <<gone, faults>>
       \/ /\ Found(b) # {}
          /\ ~OutOfRange(b)
          /\ found' = [found EXCEPT ![b] = Found(b)]
          /\ Goto(b, "send")
          /\ UNCHANGED <<pc, current, messages, replies, errors, job, history, faults>>
    /\ UNCHANGED <<registered, tickets>>

Accept(b, P) ==
    accepted' = [t \in Tasks |->
        accepted[t] + Cardinality({p \in P : messages[b][p] = t})]

TasksAt(b, P) == {messages[b][p] : p \in P}

\* SendMessages.  What a request that fails has sent the server does not know.
Send(b) ==
    /\ at[b] = "send"
    /\ \/ /\ Fault
          /\ Answer(b, <<"error">>)
          /\ UNCHANGED <<accepted, gone>>
       \/ \E r \in [found[b] -> Replies] :
             /\ replies' = [replies EXCEPT ![b] = r]
             /\ Accept(b, {p \in found[b] : r[p] = "ok"})
             /\ gone' = gone \cup {TokenOf[messages[b][p]] :
                                      p \in {q \in found[b] : r[q] = "notRegistered"}}
             /\ Goto(b, "record")
             /\ UNCHANGED <<found, errors, faults>>
    /\ UNCHANGED <<registered, tickets, pc, current, messages, job, panicked>>

\* Mutant: any error unregisters the device.
AnyError(e) == e # "ok"

\* e == ErrDeviceNotRegistered.
Unregisters(e) == e = "notRegistered"

\* Mutant: a message that was filtered out has no error.
NoError == "ok"

\* ErrPushTokenNotFound, of a message that is filtered out.
Filtered == "notFound"

\* The place of a token's errors is that of its last message.
LastPlace(b, p) ==
    Max({q \in DOMAIN messages[b] : TokenOf[messages[b][q]] = TokenOf[messages[b][p]]})

Errors(b) ==
    [p \in DOMAIN messages[b] |->
        IF LastPlace(b, p) # p THEN "ok"
        ELSE IF p \notin found[b] THEN Filtered ELSE replies[b][p]]

\* Mutant: the batch fails when its tickets could not be saved.
ErrorsOrNone(b, saved) == IF saved THEN Errors(b) ELSE <<"error">>

ErrorsOf(b, saved) == Errors(b)

Unregister(T) == registered' = registered \ T

\* A ticket is named by its message, and by how many the message had before;
\* it is closed when it is deleted.
CreateTickets(b) ==
    LET new == {<<t, Cardinality({i \in DOMAIN tickets : i[1] = t})>> :
                   t \in TasksAt(b, {p \in found[b] : replies[b][p] = "ok"})}
    IN  tickets' = [i \in DOMAIN tickets \cup new |-> IF i \in new THEN "open" ELSE tickets[i]]

\* DeletePushTokensByIDs and CreatePushTickets, whose failures are logged.
Record(b) ==
    /\ at[b] = "record"
    /\ \E deleted, saved \in BOOLEAN :
          /\ IF deleted /\ saved THEN NoFault ELSE Fault
          /\ IF deleted
             THEN Unregister({TokenOf[messages[b][p]] :
                                 p \in {q \in found[b] : Unregisters(replies[b][q])}})
             ELSE UNCHANGED registered
          /\ IF saved THEN CreateTickets(b) ELSE UNCHANGED tickets
          /\ Answer(b, ErrorsOf(b, saved))
    /\ UNCHANGED <<pc, current, messages, job, history>>

\* What the thunk of the message at place p returns.
Result(b, p) == IF Len(errors[b]) = 1 THEN errors[b][1] ELSE errors[b][p]

\* The thunks return, and with them the handlers: the status is 200 unless the
\* task is to be retried, which the queue does until it has enough of it.
Respond(b) ==
    /\ at[b] = "done"
    /\ LET failed == {messages[b][p] : p \in {q \in DOMAIN messages[b] : Result(b, q) = "error"}}
       IN  \E again \in SUBSET failed :
              pc' = [t \in Tasks |-> IF t \in again THEN "queued"
                                     ELSE IF t \in Waiting(b) THEN "ended" ELSE pc[t]]
    /\ Clear(b)
    /\ UNCHANGED <<registered, tickets, current, job, history, faults>>

-----------------------------------------------------------------------------
(* checkPushTicketsRecursive.                                              *)

Move(j, f) == job' = [job EXCEPT ![j] = f]

DepthAfter(j) == job[j].depth + 1

TokensOf(S) == {TokenOf[i[1]] : i \in S}

\* Any open ticket may be one whose check_after has passed.
Checkable == {i \in DOMAIN tickets : tickets[i] = "open"}

\* GetCheckablePushTickets and GetReceipts; nothing to check ends the job.
QueryAt(j, place) ==
    /\ job[j].at = place
    /\ \/ /\ \E S \in SUBSET Checkable : \E r \in [S -> Receipts] :
                /\ Cardinality(S) <= Limit
                /\ Move(j, IF S = {} THEN Over
                           ELSE [job[j] EXCEPT !.at = "update", !.receipts = r])
                /\ gone' = gone \cup TokensOf({i \in S : r[i] = "notRegistered"})
          /\ NoFault
       \/ Fault /\ Move(j, Over) /\ UNCHANGED gone
    /\ UNCHANGED <<registered, tickets, pc, handler, panicked, accepted>>

\* Bound: jobs begin when the notifications are through, whose tickets are not
\* due before, with at most MaxTickets of them; what a job could delete under a
\* batch SignOff deletes.
BeginJob(j) ==
    /\ Cardinality(DOMAIN tickets) \in 1 .. MaxTickets
    /\ \A t \in Tasks : pc[t] = "ended"
    /\ \A i \in Jobs : i < j => job[i].at # "idle"
    /\ QueryAt(j, "idle")

QueryAgain(j) == QueryAt(j, "query")

\* Mutant: every ticket of the batch is written, deleted meanwhile or not.
UpdatableAlways(i) == TRUE

\* "where t.deleted = false".
Updatable(i) == tickets[i] = "open"

\* processTicketReceipts: a ticket is closed unless its message may be tried
\* again.
UpdateTickets(r) ==
    tickets' = [i \in DOMAIN tickets |->
        IF i \notin DOMAIN r \/ ~Updatable(i) THEN tickets[i]
        ELSE IF r[i] = "error" THEN "open" ELSE "closed"]

\* UpdatePushTickets and DeletePushTokensByIDs, whose failures are logged; as
\* many receipts as were allowed mean that there may be more, unless this was
\* the last recursion.
UpdateAndRecurse(j) ==
    /\ job[j].at = "update"
    /\ LET r == job[j].receipts
       IN  /\ \E updated, deleted \in BOOLEAN :
                 /\ IF updated /\ deleted THEN NoFault ELSE Fault
                 /\ IF updated THEN UpdateTickets(r) ELSE UNCHANGED tickets
                 /\ IF deleted
                    THEN Unregister(TokensOf({i \in DOMAIN r : r[i] = "notRegistered"}))
                    ELSE UNCHANGED registered
           /\ IF Cardinality({i \in DOMAIN r : r[i] # "missing"}) = Limit /\ DepthAfter(j) < MaxDepth
              THEN Move(j, [Idle EXCEPT !.at = "query", !.depth = DepthAfter(j)])
              ELSE Move(j, Over)
    /\ UNCHANGED <<pc, handler, history>>

-----------------------------------------------------------------------------
(* The environment.                                                        *)

\* DeletePushTokenByPushToken: the user signs the device off.
SignOff(k) ==
    /\ k \in registered
    /\ Fault
    /\ Unregister({k})
    /\ gone' = gone \cup {k}
    /\ UNCHANGED <<tickets, pc, handler, job, panicked, accepted>>

Crash ==
    /\ Fault
    /\ Restart
    /\ UNCHANGED <<registered, tickets, panicked, gone>>

-----------------------------------------------------------------------------
BatchStep(b) == TimeIsUp(b) \/ Lookup(b) \/ Send(b) \/ Record(b) \/ Respond(b)
JobStep(j) == QueryAgain(j) \/ UpdateAndRecurse(j)

Next ==
    \/ \E t \in Tasks : Receive(t)
    \/ \E b \in Batches : BatchStep(b)
    \/ \E j \in Jobs : BeginJob(j) \/ JobStep(j)
    \/ \E k \in Tokens : SignOff(k)
    \/ Crash

Spec == Init /\ [][Next]_vars

\* Goroutines and handlers run; the queue and the scheduler of jobs need not.
Fairness ==
    /\ \A b \in Batches : WF_vars(BatchStep(b))
    /\ \A j \in Jobs : WF_vars(JobStep(j))

FairSpec == Spec /\ Fairness

-----------------------------------------------------------------------------
(* Properties.                                                             *)

\* "We need to filter out messages with invalid (not found) tokens": tokens
\* that were deleted meanwhile do not end the process.
NeverPanics == ~panicked

\* A batch whose result is there does not report success for a message Expo
\* did not accept, unless a later message of the batch has the same token and
\* takes its place in the map from tokens to messages.
SuccessIsAccepted ==
    \A b \in Batches : at[b] = "done" /\ Len(errors[b]) = Len(messages[b]) =>
        \A p \in DOMAIN messages[b] :
            errors[b][p] = "ok" => accepted[messages[b][p]] > 0 \/ LastPlace(b, p) # p

\* No other token is deleted than one that Expo, in a ticket or in a receipt,
\* reported as not registered or that its user signed off: not the tokens of
\* messages that were refused for another reason.
DeletedForReason == Tokens \ registered \subseteq gone

\* A message is not sent twice because something behind Expo's acceptance
\* failed; only a crash or an answer that is lost does that.
AcceptedOnce == \A t \in Tasks : accepted[t] <= 1

\* Two runs of the job may hold the same ticket; what one has settled the
\* other does not open again.
TicketsStayClosed ==
    [][\A i \in DOMAIN tickets : tickets[i] = "closed" => tickets'[i] = "closed"]_vars

\* The handlers that wait for a batch return, or their process ends.
HandlersReturn == \A b \in Batches : Waiting(b) # {} ~> Waiting(b) = {}

\* Every run of the job ends, although tickets become due as it goes on.
JobsEnd == []<>(\A j \in Jobs : job[j].at \in {"idle", "over"})

\* Batches are within their limit, and what they answer is what Expo said.
RepliesInv ==
    /\ TypeOK
    /\ SuccessIsAccepted

\* What waits for a batch and what checks tickets comes to an end.
HandlersAndJobsEnd ==
    /\ HandlersReturn
    /\ JobsEnd
=============================================================================
