--------------------------- MODULE ExpoPushProofs ---------------------------
(***************************************************************************)
(* Proofs about ExpoPush, for any number of tasks, tokens, batches and     *)
(* jobs, any limits, and any failures.                                     *)
(***************************************************************************)
EXTENDS ExpoPush, FiniteSetTheorems, TLAPS

-----------------------------------------------------------------------------
(* The inductive invariant.                                                *)

\* Only the current batch is open, and it is not full.  What a batch found and
\* what Expo replied is there as long as it is needed.
Sound(b) ==
    /\ (at[b] = "open") = (b = current)
    /\ at[b] = "open" => Len(messages[b]) < MaxBatch
    /\ at[b] \notin {"send", "record"} => found[b] = {}
    /\ at[b] # "record" => replies[b] = <<>>
    /\ at[b] = "record" => replies[b] \in [found[b] -> Replies]

\* Every place of a batch is that of a task of its own, that waits for it.
Placed(b) ==
    \A p \in DOMAIN messages[b] :
        /\ pc[messages[b][p]] = b
        /\ \A q \in DOMAIN messages[b] : messages[b][q] = messages[b][p] => q = p

Inv ==
    /\ TypeOK
    /\ IsFiniteSet(DOMAIN tickets)
    /\ \A b \in Batches : Sound(b) /\ Placed(b)

\* What Expo accepted of a batch that is recorded, it said it accepted, and
\* the other way round; success that is reported is Expo's.
ReportsTrue(b) ==
    /\ at[b] = "record" => \A p \in DOMAIN messages[b] :
          accepted[messages[b][p]] > 0 <=> p \in found[b] /\ replies[b][p] = "ok"
    /\ at[b] = "done" => \A p \in DOMAIN messages[b] \cap DOMAIN errors[b] :
          errors[b][p] = "ok" => accepted[messages[b][p]] > 0 \/ LastPlace(b, p) # p

\* A task that Expo accepted is not one whose batch is still to be sent, nor
\* one that is going to be tried again.
NotAgain(b) ==
    /\ at[b] \in {"open", "lookup", "send"} =>
          \A p \in DOMAIN messages[b] : accepted[messages[b][p]] = 0
    /\ at[b] = "done" => \A p \in DOMAIN messages[b] :
          accepted[messages[b][p]] > 0 => Result(b, p) # "error"

OnceInv ==
    /\ \A t \in Tasks : accepted[t] <= 1
    /\ \A t \in Tasks : pc[t] = "queued" => accepted[t] = 0
    /\ \A b \in Batches : ReportsTrue(b) /\ NotAgain(b)

\* What batches and jobs are about to delete there was a reason to delete.
ReasonInv ==
    /\ DeletedForReason
    /\ \A b \in Batches : at[b] = "record" =>
          \A p \in found[b] : replies[b][p] = "notRegistered" => TokenOf[messages[b][p]] \in gone
    /\ \A j \in Jobs : job[j].at = "update" =>
          \A i \in DOMAIN job[j].receipts :
              job[j].receipts[i] = "notRegistered" => TokenOf[i[1]] \in gone

TicketsOf(t) == {i \in DOMAIN tickets : i[1] = t}

\* The tickets of a message are numbered from 0 on, so that the next is new.
Numbered == \A i \in DOMAIN tickets : i[2] < Cardinality(TicketsOf(i[1]))

-----------------------------------------------------------------------------
(* What the steps do.                                                      *)

\* The batch that takes a task's message is the current or a free one.
LEMMA Received ==
  ASSUME Inv, NEW t \in Tasks, Receive(t)
  PROVE  \E b \in Batches :
           /\ b = current \/ (current = NoBatch /\ at[b] = "free")
           /\ at[b] \in {"free", "open"} /\ Len(messages[b]) < MaxBatch
           /\ messages' = [messages EXCEPT ![b] = Append(messages[b], t)]
           /\ pc[t] = "queued" /\ pc' = [pc EXCEPT ![t] = b]
           /\ \/ /\ Len(messages[b]) + 1 = MaxBatch
                 /\ current' = NoBatch /\ at' = [at EXCEPT ![b] = "lookup"]
              \/ /\ Len(messages[b]) + 1 < MaxBatch
                 /\ current' = b /\ at' = [at EXCEPT ![b] = "open"]
           /\ UNCHANGED <<found, replies, errors, registered, tickets, job, history, faults>>
<1>1. PICK b : /\ b = IF current = NoBatch THEN CHOOSE c \in Batches : at[c] = "free" ELSE current
               /\ messages' = [messages EXCEPT ![b] = Append(messages[b], t)]
               /\ IF Full(Len(Append(messages[b], t)))
                  THEN current' = NoBatch /\ Goto(b, "lookup")
                  ELSE current' = b /\ Goto(b, "open")
               /\ pc' = [pc EXCEPT ![t] = b]
  BY DEF Receive
<1>2. b \in Batches /\ (b = current \/ (current = NoBatch /\ at[b] = "free"))
  BY <1>1 DEF Receive, Inv, TypeOK
<1>3. at[b] \in {"free", "open"} /\ Len(messages[b]) < MaxBatch /\ messages[b] \in Seq(Tasks)
  <2>1. CASE b = current
    BY <1>2, <2>1 DEF Inv, Sound, TypeOK
  <2>2. CASE at[b] = "free"
    <3>1. messages[b] = <<>> /\ messages[b] \in Seq(Tasks)
      BY <1>2, <2>2 DEF Inv, TypeOK
    <3>2. Len(<<>>) = 0
      OBVIOUS
    <3> QED  BY <2>2, <3>1, <3>2, ExpoPushAssumption
  <2> QED  BY <1>2, <2>1, <2>2
<1>4. Len(Append(messages[b], t)) = Len(messages[b]) + 1 /\ Len(messages[b]) \in Nat
  BY <1>3
<1>5. \/ /\ Len(messages[b]) + 1 = MaxBatch
         /\ current' = NoBatch /\ at' = [at EXCEPT ![b] = "lookup"]
      \/ /\ Len(messages[b]) + 1 < MaxBatch
         /\ current' = b /\ at' = [at EXCEPT ![b] = "open"]
  <2>1. PICK n \in Nat : n = Len(messages[b])
    BY <1>4
  <2>2. Full(Len(Append(messages[b], t))) <=> n + 1 >= MaxBatch
    BY <1>4, <2>1 DEF Full
  <2> QED  BY <1>1, <1>3, <2>1, <2>2, ExpoPushAssumption DEF Goto
<1>6. pc[t] = "queued" /\ UNCHANGED <<found, replies, errors, registered, tickets, job, history, faults>>
  BY DEF Receive
<1> QED  BY <1>1, <1>2, <1>3, <1>5, <1>6

\* What the choice of a batch's step leaves: the batch has its answer.
LEMMA Answered ==
  ASSUME Inv, NEW b \in Batches, at[b] \in {"lookup", "send", "record"},
         NEW e \in Seq(Results), Answer(b, e), TypeOK',
         IsFiniteSet(DOMAIN tickets'), UNCHANGED <<pc, current, messages>>
  PROVE  Inv'
<1> SUFFICES ASSUME NEW c \in Batches PROVE Sound(c)' /\ Placed(c)'
  BY DEF Inv
<1>1. Sound(c)'
  BY DEF Inv, TypeOK, Sound, Answer, AfterAnswer, Goto
<1>2. Placed(c)'
  BY DEF Inv, Placed
<1> QED  BY <1>1, <1>2

\* A process that starts anew has nothing left but what the database has.
LEMMA Restarted ==
  ASSUME Inv, Restart, UNCHANGED <<registered, tickets>>, TypeOK'
  PROVE  Inv'
<1>1. \A b \in Batches : Sound(b)' /\ Placed(b)'
  BY ExpoPushAssumption DEF Restart, Sound, Placed
<1> QED  BY <1>1 DEF Inv

LEMMA RestartType ==
  ASSUME TypeOK, Restart, UNCHANGED <<registered, tickets>>,
         panicked' \in BOOLEAN, gone' \in SUBSET Tokens, faults' \in 0 .. MaxFaults
  PROVE  TypeOK'
<1> USE ExpoPushAssumption
<1>1. /\ pc' \in [Tasks -> {"queued", "ended"} \cup Batches]
      /\ accepted' \in [Tasks -> Nat] /\ current' \in Batches \cup {NoBatch}
  BY DEF TypeOK, Restart
<1>2. /\ messages' \in [Batches -> Seq(Tasks)] /\ errors' \in [Batches -> Seq(Results)]
      /\ at' \in [Batches -> {"free", "open", "lookup", "send", "record", "done"}]
      /\ DOMAIN found' = Batches /\ DOMAIN replies' = Batches
  BY DEF Restart
<1>3. \A b \in Batches : /\ Len(messages'[b]) <= MaxBatch
                         /\ (at'[b] = "free") = (messages'[b] = <<>>)
                         /\ found'[b] = {} /\ replies'[b] = <<>>
  BY DEF Restart
<1>4. DOMAIN job' = Jobs
  BY DEF Restart
<1>5. \A j \in Jobs : /\ DOMAIN job'[j] = DOMAIN Idle
                      /\ job'[j].at \in {"idle", "query", "update", "over"}
                      /\ job'[j].depth \in 0 .. MaxDepth
                      /\ DOMAIN job'[j].receipts \subseteq DOMAIN tickets'
  BY DEF Restart, Idle, Over
<1> QED  BY <1>1, <1>2, <1>3, <1>4, <1>5 DEF TypeOK

\* The places of a batch are finitely many, and hold tasks.
LEMMA Places ==
  ASSUME TypeOK, NEW b \in Batches
  PROVE  /\ \A p \in DOMAIN messages[b] : p \in Nat /\ messages[b][p] \in Tasks
         /\ \A P \in SUBSET DOMAIN messages[b] : IsFiniteSet(P) /\ Cardinality(P) \in Nat
<1>1. messages[b] \in Seq(Tasks) /\ DOMAIN messages[b] = 1 .. Len(messages[b])
  BY DEF TypeOK
<1>2. IsFiniteSet(1 .. Len(messages[b]))
  <2>1. PICK k, n \in Int : k = 1 /\ n = Len(messages[b])
    BY <1>1
  <2>2. IsFiniteSet(k .. n)
    BY FS_Interval
  <2> QED  BY <2>1, <2>2
<1>3. \A P \in SUBSET DOMAIN messages[b] : IsFiniteSet(P)
  BY <1>1, <1>2, FS_Subset
<1> QED  BY <1>1, <1>3, FS_CardinalityType

\* The ticket of a message is named by how many the message had before.
NewTickets(S) == {<<t, Cardinality(TicketsOf(t))>> : t \in S}

\* The messages Expo gave tickets for.
TicketsFor(b) == TasksAt(b, {p \in found[b] : replies[b][p] = "ok"})

LEMMA Created ==
  ASSUME TypeOK, IsFiniteSet(DOMAIN tickets), NEW b \in Batches, CreateTickets(b)
  PROVE  /\ TicketsFor(b) \in SUBSET Tasks
         /\ DOMAIN tickets' = DOMAIN tickets \cup NewTickets(TicketsFor(b))
         /\ \A i \in DOMAIN tickets' :
               tickets'[i] = IF i \in NewTickets(TicketsFor(b)) THEN "open" ELSE tickets[i]
         /\ \A t \in Tasks : IsFiniteSet(TicketsOf(t)) /\ Cardinality(TicketsOf(t)) \in Nat
         /\ NewTickets(TicketsFor(b)) \in SUBSET (Tasks \X Nat)
         /\ IsFiniteSet(DOMAIN tickets')
<1> DEFINE P == {p \in found[b] : replies[b][p] = "ok"}
           New == NewTickets(TicketsFor(b))
           f == [p \in P |-> <<messages[b][p], Cardinality(TicketsOf(messages[b][p]))>>]
<1>1. P \in SUBSET DOMAIN messages[b] /\ \A p \in P : messages[b][p] \in Tasks
  BY Places DEF TypeOK
<1>2. TicketsFor(b) \in SUBSET Tasks
  BY <1>1 DEF TicketsFor, TasksAt
<1>3. /\ DOMAIN tickets' = DOMAIN tickets \cup New
      /\ \A i \in DOMAIN tickets' : tickets'[i] = IF i \in New THEN "open" ELSE tickets[i]
  BY DEF CreateTickets, NewTickets, TicketsOf, TicketsFor
<1>4. \A t \in Tasks : IsFiniteSet(TicketsOf(t)) /\ Cardinality(TicketsOf(t)) \in Nat
  <2>1. \A t \in Tasks : TicketsOf(t) \in SUBSET DOMAIN tickets
    BY DEF TicketsOf
  <2> QED  BY <2>1, FS_Subset, FS_CardinalityType
<1>5. New \in SUBSET (Tasks \X Nat)
  BY <1>2, <1>4 DEF NewTickets
<1>6. IsFiniteSet(New)
  <2>1. f \in Surjection(P, New)
    BY DEF Surjection, NewTickets, TicketsFor, TasksAt
  <2>2. IsFiniteSet(P)
    BY <1>1, Places
  <2> HIDE DEF f, P, New
  <2> QED  BY <2>1, <2>2, FS_Surjection
<1>7. IsFiniteSet(DOMAIN tickets')
  <2> HIDE DEF New
  <2>1. IsFiniteSet(DOMAIN tickets \cup New)
    BY <1>6, FS_Union
  <2> QED  BY <1>3, <2>1
<1> QED  BY <1>2, <1>3, <1>4, <1>5, <1>7

LEMMA Updated ==
  ASSUME TypeOK, NEW r, UpdateTickets(r)
  PROVE  /\ DOMAIN tickets' = DOMAIN tickets
         /\ \A i \in DOMAIN tickets : /\ tickets'[i] \in {"open", "closed"}
                                      /\ tickets[i] = "closed" => tickets'[i] = "closed"
  BY DEF TypeOK, UpdateTickets, Updatable

-----------------------------------------------------------------------------
(* Init and Next keep the invariant.                                       *)

LEMMA InitInv == Init => Inv
<1> SUFFICES ASSUME Init PROVE Inv
  OBVIOUS
<1> USE ExpoPushAssumption
<1>1. DOMAIN tickets = {} /\ IsFiniteSet(DOMAIN tickets)
  <2>1. DOMAIN tickets = {}
    BY DEF Init
  <2> QED  BY <2>1, FS_EmptySet
<1>2. TypeOK
  <2>1. \A b \in Batches : /\ messages[b] = <<>> /\ at[b] = "free"
                           /\ found[b] = {} /\ replies[b] = <<>>
    BY DEF Init, NoBatches
  <2>2. Len(<<>>) = 0 /\ <<>> \in Seq(Tasks) /\ <<>> \in Seq(Results)
    OBVIOUS
  <2>3. /\ messages \in [Batches -> Seq(Tasks)] /\ errors \in [Batches -> Seq(Results)]
        /\ at \in [Batches -> {"free", "open", "lookup", "send", "record", "done"}]
        /\ DOMAIN found = Batches /\ DOMAIN replies = Batches
    BY <2>2 DEF Init, NoBatches
  <2>4. DOMAIN job = Jobs /\ \A j \in Jobs : /\ DOMAIN job[j] = DOMAIN Idle /\ job[j].at = "idle"
                                             /\ job[j].depth = 0 /\ DOMAIN job[j].receipts = {}
    BY DEF Init, Idle
  <2>5. /\ registered \in SUBSET Tokens /\ pc \in [Tasks -> {"queued", "ended"} \cup Batches]
        /\ current \in Batches \cup {NoBatch} /\ panicked \in BOOLEAN
        /\ accepted \in [Tasks -> Nat] /\ gone \in SUBSET Tokens
    BY DEF Init
  <2>6. faults \in 0 .. MaxFaults
    BY DEF Init
  <2> QED  BY <1>1, <2>1, <2>2, <2>3, <2>4, <2>5, <2>6 DEF TypeOK
<1>3. \A b \in Batches : Sound(b) /\ Placed(b)
  BY DEF Init, NoBatches, Sound, Placed
<1> QED  BY <1>1, <1>2, <1>3 DEF Inv

LEMMA ReceiveInv ==
  ASSUME Inv, NEW t \in Tasks, Receive(t)
  PROVE  Inv'
<1> USE ExpoPushAssumption
<1> PICK b \in Batches :
           /\ b = current \/ (current = NoBatch /\ at[b] = "free")
           /\ at[b] \in {"free", "open"} /\ Len(messages[b]) < MaxBatch
           /\ messages' = [messages EXCEPT ![b] = Append(messages[b], t)]
           /\ pc[t] = "queued" /\ pc' = [pc EXCEPT ![t] = b]
           /\ \/ /\ Len(messages[b]) + 1 = MaxBatch
                 /\ current' = NoBatch /\ at' = [at EXCEPT ![b] = "lookup"]
              \/ /\ Len(messages[b]) + 1 < MaxBatch
                 /\ current' = b /\ at' = [at EXCEPT ![b] = "open"]
           /\ UNCHANGED <<found, replies, errors, registered, tickets, job, history, faults>>
  BY Received
<1>1. PICK s \in Seq(Tasks) : s = messages[b]
  BY DEF Inv, TypeOK
<1>2. /\ Append(s, t) \in Seq(Tasks) /\ Len(Append(s, t)) = Len(s) + 1 /\ Len(s) \in Nat
      /\ Append(s, t) # <<>> /\ DOMAIN s = 1 .. Len(s) /\ DOMAIN Append(s, t) = 1 .. Len(s) + 1
      /\ \A p \in 1 .. Len(s) : Append(s, t)[p] = s[p]
      /\ Append(s, t)[Len(s) + 1] = t
  OBVIOUS
<1>3. found[b] = {} /\ replies[b] = <<>>
  BY DEF Inv, Sound
<1>4. messages' \in [Batches -> Seq(Tasks)] /\ messages'[b] = Append(s, t)
      /\ \A c \in Batches \ {b} : messages'[c] = messages[c]
  BY <1>1, <1>2 DEF Inv, TypeOK
<1>5. TypeOK'
  <2>1. \A c \in Batches : /\ Len(messages'[c]) <= MaxBatch
                           /\ (at'[c] = "free") = (messages'[c] = <<>>)
                           /\ found'[c] \in SUBSET DOMAIN messages'[c]
                           /\ replies'[c] \in [found'[c] -> Replies] \/ replies'[c] = <<>>
    <3> SUFFICES ASSUME NEW c \in Batches
                 PROVE  /\ Len(messages'[c]) <= MaxBatch
                        /\ (at'[c] = "free") = (messages'[c] = <<>>)
                        /\ found'[c] \in SUBSET DOMAIN messages'[c]
                        /\ replies'[c] \in [found'[c] -> Replies] \/ replies'[c] = <<>>
      OBVIOUS
    <3>1. CASE c # b
      BY <1>4, <3>1 DEF Inv, TypeOK
    <3>2. CASE c = b
      <4>1. Len(s) < MaxBatch /\ at'[b] # "free"
        BY <1>1 DEF Inv, TypeOK
      <4> QED  BY <1>2, <1>3, <1>4, <3>2, <4>1
    <3> QED  BY <3>1, <3>2
  <2>2. /\ pc' \in [Tasks -> {"queued", "ended"} \cup Batches]
        /\ at' \in [Batches -> {"free", "open", "lookup", "send", "record", "done"}]
        /\ current' \in Batches \cup {NoBatch}
    <3>1. /\ pc \in [Tasks -> {"queued", "ended"} \cup Batches]
          /\ at \in [Batches -> {"free", "open", "lookup", "send", "record", "done"}]
      BY DEF Inv, TypeOK
    <3> QED  BY <3>1
  <2> QED  BY <1>4, <2>1, <2>2 DEF Inv, TypeOK, history
<1>6. ASSUME NEW c \in Batches PROVE Sound(c)' /\ Placed(c)'
  <2>1. CASE c = b
    <3>1. Sound(c)'
      BY <1>1, <1>2, <1>3, <1>4, <2>1 DEF Inv, TypeOK, Sound
    <3>2. \A p \in 1 .. Len(s) : pc[s[p]] = b /\ s[p] # t /\ s[p] \in Tasks
      BY <1>1, <1>2 DEF Inv, TypeOK, Placed
    <3>3. \A p, q \in 1 .. Len(s) : s[p] = s[q] => p = q
      BY <1>1, <1>2 DEF Inv, Placed
    <3>4. \A p \in 1 .. Len(s) + 1 : p \in 1 .. Len(s) \/ p = Len(s) + 1
      BY <1>2
    <3>5. \A p \in 1 .. Len(s) + 1 : pc'[Append(s, t)[p]] = b
      BY <1>2, <3>2, <3>4 DEF Inv, TypeOK
    <3>6. \A p, q \in 1 .. Len(s) + 1 : Append(s, t)[p] = Append(s, t)[q] => p = q
      BY <1>2, <3>2, <3>3, <3>4
    <3>7. Placed(c)'
      BY <1>2, <1>4, <2>1, <3>5, <3>6 DEF Placed
    <3> QED  BY <3>1, <3>7
  <2>2. CASE c # b
    <3>1. at'[c] = at[c] /\ messages'[c] = messages[c] /\ c # current'  /\ c # current
      BY <1>4, <2>2 DEF Inv, TypeOK, Sound
    <3>2. Sound(c)'
      BY <3>1 DEF Inv, Sound
    <3>3. \A p \in DOMAIN messages[c] : messages[c][p] # t /\ messages[c][p] \in Tasks
      BY Places DEF Inv, TypeOK, Placed
    <3>4. Placed(c)'
      BY <3>1, <3>3 DEF Inv, TypeOK, Placed
    <3> QED  BY <3>2, <3>4
  <2> QED  BY <2>1, <2>2
<1>7. IsFiniteSet(DOMAIN tickets')
  BY DEF Inv
<1> QED  BY <1>5, <1>6, <1>7 DEF Inv

LEMMA AnswerType ==
  ASSUME TypeOK, NEW b \in Batches, at[b] \in {"lookup", "send", "record"},
         NEW e \in Seq(Results), Answer(b, e), UNCHANGED <<pc, current, messages, job, history>>,
         registered' \in SUBSET Tokens, DOMAIN tickets' \subseteq Tasks \X Nat,
         DOMAIN tickets \subseteq DOMAIN tickets',
         \A i \in DOMAIN tickets' : tickets'[i] \in {"open", "closed"},
         faults' \in 0 .. MaxFaults
  PROVE  TypeOK'
<1>1. /\ errors' \in [Batches -> Seq(Results)]
      /\ at' \in [Batches -> {"free", "open", "lookup", "send", "record", "done"}]
  <2>1. /\ errors \in [Batches -> Seq(Results)]
        /\ at \in [Batches -> {"free", "open", "lookup", "send", "record", "done"}]
    BY DEF TypeOK
  <2> QED  BY <2>1 DEF Answer, AfterAnswer, Goto
<1>2. /\ DOMAIN found' = Batches /\ DOMAIN replies' = Batches
      /\ \A c \in Batches : /\ (at'[c] = "free") = (messages'[c] = <<>>)
                            /\ found'[c] \in SUBSET DOMAIN messages'[c]
                            /\ replies'[c] \in [found'[c] -> Replies] \/ replies'[c] = <<>>
  BY DEF TypeOK, Answer, AfterAnswer, Goto
<1>3. \A j \in Jobs : DOMAIN job[j].receipts \subseteq DOMAIN tickets'
  BY DEF TypeOK
<1> QED  BY <1>1, <1>2, <1>3 DEF TypeOK, history

LEMMA LookupInv ==
  ASSUME Inv, NEW b \in Batches, Lookup(b)
  PROVE  Inv'
<1> USE ExpoPushAssumption
<1>1. TypeOK /\ Sound(b) /\ at[b] = "lookup" /\ UNCHANGED <<registered, tickets>>
  BY DEF Inv, Lookup
<1>2. IsFiniteSet(DOMAIN tickets') /\ DOMAIN tickets' \subseteq Tasks \X Nat
      /\ DOMAIN tickets \subseteq DOMAIN tickets' /\ registered' \in SUBSET Tokens
      /\ \A i \in DOMAIN tickets' : tickets'[i] \in {"open", "closed"}
  BY <1>1 DEF Inv, TypeOK
<1>3. ASSUME NEW e \in {<<"error">>, <<"notFound">>}, Answer(b, e), faults' \in 0 .. MaxFaults,
             UNCHANGED <<pc, current, messages, job, history>>
      PROVE  Inv'
  <2>1. e \in Seq(Results)
    <3>1. <<"error">> \in Seq(Results) /\ <<"notFound">> \in Seq(Results)
      BY DEF Results, Replies
    <3> QED  BY <3>1
  <2>2. TypeOK'
    BY <1>1, <1>2, <1>3, <2>1, AnswerType
  <2> QED  BY <1>1, <1>2, <1>3, <2>1, <2>2, Answered
<1>4. CASE OutOfRange(b) /\ Restart /\ panicked' = TRUE /\ UNCHANGED <<gone, faults>>
  <2>1. TypeOK'
    <3>1. gone' \in SUBSET Tokens /\ faults' \in 0 .. MaxFaults /\ panicked' \in BOOLEAN
      BY <1>1, <1>4 DEF TypeOK
    <3> QED  BY <1>1, <1>4, <3>1, RestartType
  <2> QED  BY <1>1, <1>4, <2>1, Restarted
<1>5. CASE /\ found' = [found EXCEPT ![b] = Found(b)] /\ Goto(b, "send")
           /\ UNCHANGED <<pc, current, messages, replies, errors, job, history, faults>>
  <2>1. Found(b) \in SUBSET DOMAIN messages[b] /\ replies[b] = <<>>
    BY <1>1 DEF Found, Sound
  <2>2. at' \in [Batches -> {"free", "open", "lookup", "send", "record", "done"}]
    <3>1. at \in [Batches -> {"free", "open", "lookup", "send", "record", "done"}]
      BY <1>1 DEF TypeOK
    <3> QED  BY <1>5, <3>1 DEF Goto
  <2>3. /\ DOMAIN found' = Batches
        /\ \A c \in Batches : /\ (at'[c] = "free") = (messages'[c] = <<>>)
                              /\ found'[c] \in SUBSET DOMAIN messages'[c]
                              /\ replies'[c] \in [found'[c] -> Replies] \/ replies'[c] = <<>>
    BY <1>1, <1>5, <2>1 DEF TypeOK, Goto
  <2>4. TypeOK'
    BY <1>1, <1>5, <2>2, <2>3 DEF TypeOK, history
  <2>5. \A c \in Batches : Sound(c)' /\ Placed(c)'
    <3>1. \A c \in Batches : Sound(c)'
      BY <1>1, <1>5, <2>1 DEF Inv, Sound, TypeOK, Goto
    <3>2. \A c \in Batches : Placed(c)'
      BY <1>5 DEF Inv, Placed
    <3> QED  BY <3>1, <3>2
  <2> QED  BY <1>2, <2>4, <2>5 DEF Inv
<1>6. CASE Fault /\ Answer(b, <<"error">>) /\ UNCHANGED <<pc, current, messages, job, history>>
  <2>1. faults' \in 0 .. MaxFaults
    BY <1>1, <1>6 DEF TypeOK, Fault
  <2> QED  BY <1>3, <1>6, <2>1
<1>7. CASE Answer(b, <<"notFound">>) /\ UNCHANGED <<pc, current, messages, job, history, faults>>
  <2>1. faults' \in 0 .. MaxFaults
    BY <1>1, <1>7 DEF TypeOK
  <2> QED  BY <1>3, <1>7, <2>1
<1> QED  BY <1>4, <1>5, <1>6, <1>7 DEF Lookup

\* What Expo accepted of a batch it counts for its tasks.
LEMMA AcceptedNow ==
  ASSUME Inv, NEW b \in Batches, NEW P \in SUBSET DOMAIN messages[b], Accept(b, P)
  PROVE  /\ accepted' \in [Tasks -> Nat]
         /\ \A t \in Tasks : accepted'[t] = accepted[t] + (IF t \in TasksAt(b, P) THEN 1 ELSE 0)
<1> SUFFICES ASSUME NEW t \in Tasks
             PROVE  /\ accepted'[t] \in Nat
                    /\ accepted'[t] = accepted[t] + (IF t \in TasksAt(b, P) THEN 1 ELSE 0)
  BY DEF Accept
<1>1. PICK Q : Q = {p \in P : messages[b][p] = t}
  OBVIOUS
<1>2. accepted'[t] = accepted[t] + Cardinality(Q) /\ accepted[t] \in Nat
  BY <1>1 DEF Accept, Inv, TypeOK
<1>3. CASE t \in TasksAt(b, P)
  <2>1. PICK p \in P : t = messages[b][p]
    BY <1>3 DEF TasksAt
  <2>2. Q = {p}
    BY <1>1, <2>1 DEF Inv, Placed
  <2>3. Cardinality(Q) = 1
    BY <2>2, FS_Singleton
  <2> QED  BY <1>2, <1>3, <2>3
<1>4. CASE t \notin TasksAt(b, P)
  <2>1. Q = {}
    BY <1>1, <1>4 DEF TasksAt
  <2>2. Cardinality(Q) = 0
    BY <2>1, FS_EmptySet
  <2> QED  BY <1>2, <1>4, <2>2
<1> QED  BY <1>3, <1>4

LEMMA SendInv ==
  ASSUME Inv, NEW b \in Batches, Send(b)
  PROVE  Inv'
<1> USE ExpoPushAssumption
<1>1. TypeOK /\ Sound(b) /\ at[b] = "send"
      /\ UNCHANGED <<registered, tickets, pc, current, messages, job, panicked>>
  BY DEF Inv, Send
<1>2. IsFiniteSet(DOMAIN tickets') /\ DOMAIN tickets' \subseteq Tasks \X Nat
      /\ DOMAIN tickets \subseteq DOMAIN tickets' /\ registered' \in SUBSET Tokens
      /\ \A i \in DOMAIN tickets' : tickets'[i] \in {"open", "closed"}
  BY <1>1 DEF Inv, TypeOK
<1>3. CASE Fault /\ Answer(b, <<"error">>) /\ UNCHANGED <<accepted, gone>>
  <2>1. faults' \in 0 .. MaxFaults
    BY <1>1, <1>3 DEF TypeOK, Fault
  <2>2. <<"error">> \in Seq(Results)
    BY DEF Results, Replies
  <2>3. UNCHANGED <<pc, current, messages, job, history>>
    BY <1>1, <1>3 DEF history
  <2>4. TypeOK'
    BY <1>1, <1>2, <1>3, <2>1, <2>2, <2>3, AnswerType
  <2> QED  BY <1>1, <1>2, <1>3, <2>2, <2>4, Answered
<1>4. ASSUME NEW r \in [found[b] -> Replies],
             replies' = [replies EXCEPT ![b] = r],
             Accept(b, {p \in found[b] : r[p] = "ok"}),
             gone' = gone \cup {TokenOf[messages[b][p]] :
                                   p \in {q \in found[b] : r[q] = "notRegistered"}},
             Goto(b, "record"), UNCHANGED <<found, errors, faults>>
      PROVE  Inv'
  <2>1. found[b] \in SUBSET DOMAIN messages[b] /\ \A p \in found[b] : messages[b][p] \in Tasks
    BY <1>1, Places DEF TypeOK
  <2>2. gone' \in SUBSET Tokens
    BY <1>1, <1>4, <2>1 DEF TypeOK
  <2>3. accepted' \in [Tasks -> Nat]
    BY <1>4, <2>1, AcceptedNow
  <2>4. at' \in [Batches -> {"free", "open", "lookup", "send", "record", "done"}]
    <3>1. at \in [Batches -> {"free", "open", "lookup", "send", "record", "done"}]
      BY <1>1 DEF TypeOK
    <3> QED  BY <1>4, <3>1 DEF Goto
  <2>5. /\ DOMAIN replies' = Batches
        /\ \A c \in Batches : /\ (at'[c] = "free") = (messages'[c] = <<>>)
                              /\ replies'[c] \in [found'[c] -> Replies] \/ replies'[c] = <<>>
    BY <1>1, <1>4, <2>1 DEF TypeOK, Goto
  <2>6. TypeOK'
    BY <1>1, <1>2, <1>4, <2>2, <2>3, <2>4, <2>5 DEF TypeOK
  <2>7. \A c \in Batches : Sound(c)'
    BY <1>1, <1>4, <2>1 DEF Inv, Sound, TypeOK, Goto
  <2>8. \A c \in Batches : Placed(c)'
    BY <1>1 DEF Inv, Placed
  <2> QED  BY <1>2, <2>6, <2>7, <2>8 DEF Inv
<1> QED  BY <1>3, <1>4 DEF Send

LEMMA ErrorsType ==
  ASSUME TypeOK, NEW b \in Batches, replies[b] \in [found[b] -> Replies]
  PROVE  /\ Errors(b) \in Seq(Results) /\ DOMAIN Errors(b) = DOMAIN messages[b]
         /\ \A p \in DOMAIN messages[b] : Errors(b)[p] =
               IF LastPlace(b, p) # p THEN "ok"
               ELSE IF p \notin found[b] THEN "notFound" ELSE replies[b][p]
<1>1. \A p \in DOMAIN messages[b] :
         /\ Errors(b)[p] \in Results
         /\ Errors(b)[p] = IF LastPlace(b, p) # p THEN "ok"
                           ELSE IF p \notin found[b] THEN "notFound" ELSE replies[b][p]
  BY DEF Errors, Filtered, Results, Replies
<1>2. DOMAIN Errors(b) = DOMAIN messages[b]
  BY DEF Errors
<1>3. DOMAIN messages[b] = 1 .. Len(messages[b]) /\ Len(messages[b]) \in Nat
  BY DEF TypeOK
<1>4. Errors(b) \in [1 .. Len(messages[b]) -> Results]
  BY <1>1, <1>2, <1>3 DEF Errors
<1>5. Errors(b) \in Seq(Results)
  BY <1>3, <1>4
<1> QED  BY <1>1, <1>2, <1>5

LEMMA RecordInv ==
  ASSUME Inv, NEW b \in Batches, Record(b)
  PROVE  Inv'
<1> USE ExpoPushAssumption
<1>1. TypeOK /\ Sound(b) /\ at[b] = "record" /\ UNCHANGED <<pc, current, messages, job, history>>
  BY DEF Inv, Record
<1>2. PICK saved \in BOOLEAN : /\ IF saved THEN CreateTickets(b) ELSE UNCHANGED tickets
                               /\ Answer(b, ErrorsOf(b, saved))
  BY DEF Record
<1>3. ErrorsOf(b, saved) \in Seq(Results)
  BY <1>1, ErrorsType DEF ErrorsOf, Sound
<1>4. registered' \in SUBSET Tokens /\ faults' \in 0 .. MaxFaults
  BY <1>1 DEF Record, TypeOK, Unregister, Fault, NoFault
<1>5. /\ IsFiniteSet(DOMAIN tickets') /\ DOMAIN tickets' \subseteq Tasks \X Nat
      /\ DOMAIN tickets \subseteq DOMAIN tickets'
      /\ \A i \in DOMAIN tickets' : tickets'[i] \in {"open", "closed"}
  <2>1. CASE CreateTickets(b)
    <3>1. IsFiniteSet(DOMAIN tickets)
      BY DEF Inv
    <3> QED  BY <1>1, <2>1, <3>1, Created DEF TypeOK
  <2>2. CASE UNCHANGED tickets
    BY <1>1, <2>2 DEF Inv, TypeOK
  <2> QED  BY <1>2, <2>1, <2>2
<1>6. TypeOK'
  BY <1>1, <1>2, <1>3, <1>4, <1>5, AnswerType
<1> QED  BY <1>1, <1>2, <1>3, <1>5, <1>6, Answered

\* Tasks of a batch that is answered are not those of another.
LEMMA Responded ==
  ASSUME Inv, NEW b \in Batches, Respond(b)
  PROVE  /\ at[b] = "done" /\ b # current
         /\ pc' \in [Tasks -> {"queued", "ended"} \cup Batches]
         /\ \A c \in Batches \ {b} : \A p \in DOMAIN messages[c] :
               pc'[messages[c][p]] = pc[messages[c][p]]
         /\ \A t \in Tasks : pc'[t] = "queued" =>
               \/ pc[t] = "queued"
               \/ \E p \in DOMAIN messages[b] : messages[b][p] = t /\ Result(b, p) = "error"
<1> USE ExpoPushAssumption
<1>1. at[b] = "done" /\ b # current
  BY DEF Respond, Inv, Sound
<1> DEFINE failed == {messages[b][p] : p \in {q \in DOMAIN messages[b] : Result(b, q) = "error"}}
<1>2. PICK again \in SUBSET failed :
         pc' = [t \in Tasks |-> IF t \in again THEN "queued"
                                ELSE IF t \in Waiting(b) THEN "ended" ELSE pc[t]]
  BY DEF Respond
<1>3. pc' \in [Tasks -> {"queued", "ended"} \cup Batches]
  BY <1>2 DEF Inv, TypeOK
<1>4. \A t \in again : pc[t] = b /\ \E p \in DOMAIN messages[b] : messages[b][p] = t /\ Result(b, p) = "error"
  BY <1>2 DEF Inv, Placed
<1>5. ASSUME NEW c \in Batches \ {b}, NEW p \in DOMAIN messages[c]
      PROVE  pc'[messages[c][p]] = pc[messages[c][p]]
  <2>1. messages[c][p] \in Tasks /\ pc[messages[c][p]] = c
    BY Places DEF Inv, Placed
  <2> QED  BY <1>2, <1>4, <2>1 DEF Waiting
<1>6. ASSUME NEW t \in Tasks, pc'[t] = "queued"
      PROVE  pc[t] = "queued" \/ t \in again
  BY <1>2, <1>6
<1> QED  BY <1>1, <1>3, <1>4, <1>5, <1>6

LEMMA RespondInv ==
  ASSUME Inv, NEW b \in Batches, Respond(b)
  PROVE  Inv'
<1> USE ExpoPushAssumption
<1>1. TypeOK /\ at[b] = "done" /\ b # current /\ Clear(b)
      /\ UNCHANGED <<registered, tickets, current, job, history, faults>>
  BY Responded DEF Inv, Respond
<1>2. /\ messages' \in [Batches -> Seq(Tasks)] /\ errors' \in [Batches -> Seq(Results)]
      /\ at' \in [Batches -> {"free", "open", "lookup", "send", "record", "done"}]
      /\ DOMAIN found' = Batches /\ DOMAIN replies' = Batches
  <2>1. /\ messages \in [Batches -> Seq(Tasks)] /\ errors \in [Batches -> Seq(Results)]
        /\ at \in [Batches -> {"free", "open", "lookup", "send", "record", "done"}]
        /\ DOMAIN found = Batches /\ DOMAIN replies = Batches
    BY <1>1 DEF TypeOK
  <2>2. <<>> \in Seq(Tasks) /\ <<>> \in Seq(Results)
    OBVIOUS
  <2> QED  BY <1>1, <2>1, <2>2 DEF Clear, Goto
<1>3. /\ messages'[b] = <<>> /\ at'[b] = "free" /\ found'[b] = {} /\ replies'[b] = <<>>
      /\ \A c \in Batches \ {b} : /\ messages'[c] = messages[c] /\ at'[c] = at[c]
                                  /\ found'[c] = found[c] /\ replies'[c] = replies[c]
  BY <1>1 DEF TypeOK, Clear, Goto
<1>4. TypeOK'
  <2>1. Len(<<>>) = 0
    OBVIOUS
  <2>2. \A c \in Batches : /\ Len(messages'[c]) <= MaxBatch
                           /\ (at'[c] = "free") = (messages'[c] = <<>>)
                           /\ found'[c] \in SUBSET DOMAIN messages'[c]
                           /\ replies'[c] \in [found'[c] -> Replies] \/ replies'[c] = <<>>
    <3>1. Len(messages'[b]) <= MaxBatch /\ found'[b] \in SUBSET DOMAIN messages'[b]
      BY <1>3, <2>1
    <3> SUFFICES ASSUME NEW c \in Batches
                 PROVE  /\ Len(messages'[c]) <= MaxBatch
                        /\ (at'[c] = "free") = (messages'[c] = <<>>)
                        /\ found'[c] \in SUBSET DOMAIN messages'[c]
                        /\ replies'[c] \in [found'[c] -> Replies] \/ replies'[c] = <<>>
      OBVIOUS
    <3>3. CASE c = b
      BY <1>3, <3>1, <3>3
    <3>4. CASE c # b
      <4>1. /\ messages'[c] = messages[c] /\ at'[c] = at[c]
            /\ found'[c] = found[c] /\ replies'[c] = replies[c]
        BY <1>3, <3>4
      <4>2. /\ Len(messages[c]) <= MaxBatch /\ (at[c] = "free") = (messages[c] = <<>>)
            /\ found[c] \in SUBSET DOMAIN messages[c]
            /\ replies[c] \in [found[c] -> Replies] \/ replies[c] = <<>>
        BY <1>1 DEF TypeOK
      <4> QED  BY ONLY <4>1, <4>2
    <3> QED  BY <3>3, <3>4
  <2> QED  BY <1>1, <1>2, <2>2, Responded DEF TypeOK, history
<1>5. \A c \in Batches : Sound(c)'
  BY <1>1, <1>3 DEF Inv, Sound
<1>6. \A c \in Batches : Placed(c)'
  BY <1>3, Responded DEF Inv, Placed
<1> QED  BY <1>1, <1>4, <1>5, <1>6 DEF Inv

LEMMA QueryInv ==
  ASSUME Inv, NEW j \in Jobs, NEW place, QueryAt(j, place)
  PROVE  Inv'
<1> USE ExpoPushAssumption
<1>1. TypeOK /\ UNCHANGED <<registered, tickets, pc, handler, panicked, accepted>>
  BY DEF Inv, QueryAt
<1>2. faults' \in 0 .. MaxFaults
  <2>1. faults' = faults \/ (faults < MaxFaults /\ faults' = faults + 1)
    BY DEF QueryAt, Fault, NoFault
  <2> QED  BY <1>1, <2>1 DEF TypeOK
<1>3. gone' \in SUBSET Tokens /\ DOMAIN job' = Jobs
      /\ \A k \in Jobs : /\ DOMAIN job'[k] = DOMAIN Idle
                         /\ job'[k].at \in {"idle", "query", "update", "over"}
                         /\ job'[k].depth \in 0 .. MaxDepth
                         /\ DOMAIN job'[k].receipts \subseteq DOMAIN tickets
  <2>1. /\ DOMAIN Over = DOMAIN Idle /\ Over.at = "over" /\ Over.depth = 0 /\ Over.receipts = <<>>
        /\ DOMAIN Over.receipts = {} /\ DOMAIN Idle = {"at", "depth", "receipts"}
    BY DEF Over, Idle
  <2>2. CASE Move(j, Over) /\ UNCHANGED gone
    BY <1>1, <2>1, <2>2 DEF Move, TypeOK
  <2>3. ASSUME NEW S \in SUBSET Checkable, NEW r \in [S -> Receipts],
               Move(j, IF S = {} THEN Over
                       ELSE [job[j] EXCEPT !.at = "update", !.receipts = r]),
               gone' = gone \cup TokensOf({i \in S : r[i] = "notRegistered"})
        PROVE  /\ gone' \in SUBSET Tokens /\ DOMAIN job' = Jobs
               /\ \A k \in Jobs : /\ DOMAIN job'[k] = DOMAIN Idle
                                  /\ job'[k].at \in {"idle", "query", "update", "over"}
                                  /\ job'[k].depth \in 0 .. MaxDepth
                                  /\ DOMAIN job'[k].receipts \subseteq DOMAIN tickets
    <3>1. S \in SUBSET DOMAIN tickets
      BY DEF Checkable
    <3>2. gone' \in SUBSET Tokens
      BY <1>1, <2>3, <3>1 DEF TypeOK, TokensOf
    <3>3. PICK f : /\ f = [job[j] EXCEPT !.at = "update", !.receipts = r]
                   /\ DOMAIN f = DOMAIN Idle /\ f.at = "update" /\ f.depth = job[j].depth
                   /\ f.receipts = r
      <4>1. DOMAIN job[j] = {"at", "depth", "receipts"}
        BY <1>1, <2>1 DEF TypeOK
      <4>2. PICK g : g = job[j]
        OBVIOUS
      <4>3. PICK f : f = [g EXCEPT !.at = "update", !.receipts = r]
        OBVIOUS
      <4>4. DOMAIN f = DOMAIN g /\ f.at = "update" /\ f.depth = g.depth /\ f.receipts = r
        BY <4>1, <4>2, <4>3
      <4> QED  BY <2>1, <4>1, <4>2, <4>3, <4>4
    <3>4. Move(j, IF S = {} THEN Over ELSE f)
      BY <2>3, <3>3
    <3> QED  BY <1>1, <2>1, <3>1, <3>2, <3>3, <3>4 DEF Move, TypeOK
  <2> QED  BY <2>2, <2>3 DEF QueryAt
<1>4. TypeOK'
  BY <1>1, <1>2, <1>3 DEF TypeOK, handler
<1>5. \A b \in Batches : Sound(b)' /\ Placed(b)'
  BY <1>1 DEF Inv, Sound, Placed, handler
<1> QED  BY <1>1, <1>4, <1>5 DEF Inv

LEMMA UpdateInv ==
  ASSUME Inv, NEW j \in Jobs, UpdateAndRecurse(j)
  PROVE  Inv'
<1> USE ExpoPushAssumption
<1>1. TypeOK /\ UNCHANGED <<pc, handler, history>>
  BY DEF Inv, UpdateAndRecurse
<1>2. registered' \in SUBSET Tokens /\ faults' \in 0 .. MaxFaults
  <2>1. faults' = faults \/ (faults < MaxFaults /\ faults' = faults + 1)
    BY DEF UpdateAndRecurse, Fault, NoFault
  <2>2. registered' \subseteq registered
    BY DEF UpdateAndRecurse, Unregister
  <2> QED  BY <1>1, <2>1, <2>2 DEF TypeOK
<1>3. /\ DOMAIN tickets' = DOMAIN tickets
      /\ \A i \in DOMAIN tickets : tickets'[i] \in {"open", "closed"}
  <2>1. CASE UpdateTickets(job[j].receipts)
    BY <1>1, <2>1, Updated
  <2>2. CASE UNCHANGED tickets
    BY <1>1, <2>2 DEF TypeOK
  <2> QED  BY <2>1, <2>2 DEF UpdateAndRecurse
<1>4. /\ DOMAIN job' = Jobs
      /\ \A k \in Jobs : /\ DOMAIN job'[k] = DOMAIN Idle
                         /\ job'[k].at \in {"idle", "query", "update", "over"}
                         /\ job'[k].depth \in 0 .. MaxDepth
                         /\ DOMAIN job'[k].receipts \subseteq DOMAIN tickets
  <2>1. /\ DOMAIN Over = DOMAIN Idle /\ Over.at = "over" /\ Over.depth = 0
        /\ DOMAIN Over.receipts = {}
    BY DEF Over, Idle
  <2>2. CASE Move(j, Over)
    BY <1>1, <2>1, <2>2 DEF Move, TypeOK
  <2>3. CASE Move(j, [Idle EXCEPT !.at = "query", !.depth = DepthAfter(j)]) /\ DepthAfter(j) < MaxDepth
    <3>1. PICK f : /\ f = [Idle EXCEPT !.at = "query", !.depth = DepthAfter(j)]
                   /\ DOMAIN f = DOMAIN Idle /\ f.at = "query" /\ f.depth = DepthAfter(j)
                   /\ DOMAIN f.receipts = {}
      <4>1. PICK f : f = [Idle EXCEPT !.at = "query", !.depth = DepthAfter(j)]
        OBVIOUS
      <4>2. f = [at |-> "query", depth |-> DepthAfter(j), receipts |-> <<>>]
        BY <4>1 DEF Idle
      <4>3. DOMAIN f = DOMAIN Idle /\ f.at = "query" /\ f.depth = DepthAfter(j) /\ f.receipts = <<>>
        BY <4>2 DEF Idle
      <4>4. DOMAIN f.receipts = {}
        BY <4>3
      <4> QED  BY <4>1, <4>3, <4>4
    <3>2. Move(j, f) /\ DepthAfter(j) \in 0 .. MaxDepth
      BY <1>1, <2>3, <3>1 DEF TypeOK, DepthAfter
    <3> QED  BY <1>1, <3>1, <3>2 DEF Move, TypeOK
  <2> QED  BY <2>2, <2>3 DEF UpdateAndRecurse
<1>5. TypeOK'
  BY <1>1, <1>2, <1>3, <1>4 DEF TypeOK, handler, history
<1>6. \A b \in Batches : Sound(b)' /\ Placed(b)'
  BY <1>1 DEF Inv, Sound, Placed, handler
<1>7. IsFiniteSet(DOMAIN tickets')
  BY <1>3 DEF Inv
<1> QED  BY <1>5, <1>6, <1>7 DEF Inv

LEMMA NextInv == Inv /\ [Next]_vars => Inv'
<1> SUFFICES ASSUME Inv, [Next]_vars PROVE Inv'
  OBVIOUS
<1>1. ASSUME NEW t \in Tasks, Receive(t) PROVE Inv'
  BY <1>1, ReceiveInv
<1>2. ASSUME NEW b \in Batches, TimeIsUp(b) PROVE Inv'
  <2> USE ExpoPushAssumption
  <2>1. TypeOK /\ Sound(b) /\ at[b] = "open"
        /\ UNCHANGED <<registered, tickets, pc, messages, found, replies, errors, job, history, faults>>
    BY <1>2 DEF Inv, TimeIsUp
  <2>2. /\ current' = NoBatch
        /\ at' \in [Batches -> {"free", "open", "lookup", "send", "record", "done"}]
        /\ \A c \in Batches : (at'[c] = "free") = (messages[c] = <<>>)
    BY <1>2, <2>1 DEF TimeIsUp, Goto, TypeOK
  <2>3. TypeOK'
    BY <2>1, <2>2 DEF TypeOK, history
  <2>4. \A c \in Batches : Sound(c)' /\ Placed(c)'
    BY <1>2, <2>1 DEF Inv, Sound, Placed, TimeIsUp, Goto, TypeOK
  <2> QED  BY <2>1, <2>3, <2>4 DEF Inv
<1>3. ASSUME NEW b \in Batches, Lookup(b) PROVE Inv'
  BY <1>3, LookupInv
<1>4. ASSUME NEW b \in Batches, Send(b) PROVE Inv'
  BY <1>4, SendInv
<1>5. ASSUME NEW b \in Batches, Record(b) PROVE Inv'
  BY <1>5, RecordInv
<1>6. ASSUME NEW b \in Batches, Respond(b) PROVE Inv'
  BY <1>6, RespondInv
<1>7. ASSUME NEW j \in Jobs, NEW place, QueryAt(j, place) PROVE Inv'
  BY <1>7, QueryInv
<1>8. ASSUME NEW j \in Jobs, UpdateAndRecurse(j) PROVE Inv'
  BY <1>8, UpdateInv
<1>9. ASSUME NEW k \in Tokens, SignOff(k) PROVE Inv'
  <2>1. TypeOK /\ UNCHANGED <<tickets, pc, handler, job, panicked, accepted>>
    BY <1>9 DEF Inv, SignOff
  <2>2. registered' \in SUBSET Tokens /\ gone' \in SUBSET Tokens /\ faults' \in 0 .. MaxFaults
    BY <1>9, <2>1, ExpoPushAssumption DEF SignOff, TypeOK, Unregister, Fault
  <2>3. TypeOK'
    BY <2>1, <2>2 DEF TypeOK, handler
  <2>4. \A b \in Batches : Sound(b)' /\ Placed(b)'
    BY <2>1 DEF Inv, Sound, Placed, handler
  <2> QED  BY <2>1, <2>3, <2>4 DEF Inv
<1>10. CASE Crash
  <2>1. TypeOK /\ Restart /\ UNCHANGED <<registered, tickets, panicked, gone>>
    BY <1>10 DEF Inv, Crash
  <2>2. panicked' \in BOOLEAN /\ gone' \in SUBSET Tokens /\ faults' \in 0 .. MaxFaults
    BY <1>10, <2>1, ExpoPushAssumption DEF Crash, TypeOK, Fault
  <2>3. TypeOK'
    BY <2>1, <2>2, RestartType
  <2> QED  BY <2>1, <2>3, Restarted
<1>11. CASE UNCHANGED vars
  <2>1. TypeOK'
    BY <1>11 DEF Inv, TypeOK, vars, handler, history
  <2>2. \A b \in Batches : Sound(b)' /\ Placed(b)'
    BY <1>11 DEF Inv, Sound, Placed, vars, handler
  <2> QED  BY <1>11, <2>1, <2>2 DEF Inv, vars
<1> QED
  BY <1>1, <1>2, <1>3, <1>4, <1>5, <1>6, <1>7, <1>8, <1>9, <1>10, <1>11
     DEF Next, BatchStep, JobStep, BeginJob, QueryAgain

LEMMA InvHolds == Spec => []Inv
<1> QED  BY InitInv, NextInv, PTL DEF Spec

-----------------------------------------------------------------------------
(* Tokens are deleted for a reason.                                        *)

LEMMA InitReason == Init => ReasonInv
  BY DEF Init, NoBatches, ReasonInv, DeletedForReason, Idle

\* A step that gives no batch a reply to record and no job a receipt, and
\* deletes no token, keeps it.
LEMMA ReasonKept ==
  ASSUME Inv, ReasonInv, Tokens \ registered' \subseteq gone', gone \subseteq gone',
         \A b \in Batches : at'[b] = "record" =>
            at[b] = "record" /\ messages'[b] = messages[b] /\ found'[b] = found[b]
            /\ replies'[b] = replies[b],
         \A j \in Jobs : job'[j].at = "update" => job'[j] = job[j]
  PROVE  ReasonInv'
  BY DEF ReasonInv, DeletedForReason

LEMMA AnswerReason ==
  ASSUME Inv, ReasonInv, NEW b \in Batches, NEW e, Answer(b, e), UNCHANGED <<messages, job>>,
         Tokens \ registered' \subseteq gone', gone \subseteq gone'
  PROVE  ReasonInv'
<1>1. \A c \in Batches : at'[c] = "record" =>
         at[c] = "record" /\ messages'[c] = messages[c] /\ found'[c] = found[c]
         /\ replies'[c] = replies[c]
  BY DEF Answer, AfterAnswer, Goto, Inv, TypeOK
<1> QED  BY <1>1, ReasonKept

LEMMA RestartReason ==
  ASSUME Inv, ReasonInv, Restart, UNCHANGED <<registered, gone>>
  PROVE  ReasonInv'
<1>1. \A c \in Batches : at'[c] = "free"
  BY DEF Restart
<1>2. \A j \in Jobs : job'[j].at \in {"idle", "over"}
  BY DEF Restart, Idle, Over
<1>3. Tokens \ registered' \subseteq gone' /\ gone \subseteq gone'
  BY DEF ReasonInv, DeletedForReason
<1> QED  BY <1>1, <1>2, <1>3, ReasonKept

LEMMA NextReason == Inv /\ ReasonInv /\ [Next]_vars => ReasonInv'
<1> SUFFICES ASSUME Inv, ReasonInv, [Next]_vars PROVE ReasonInv'
  OBVIOUS
<1>0. Tokens \ registered \subseteq gone
  BY DEF ReasonInv, DeletedForReason
<1>1. ASSUME NEW t \in Tasks, Receive(t) PROVE ReasonInv'
  <2> PICK b \in Batches :
             /\ messages' = [messages EXCEPT ![b] = Append(messages[b], t)]
             /\ at' = [at EXCEPT ![b] = "lookup"] \/ at' = [at EXCEPT ![b] = "open"]
             /\ UNCHANGED <<found, replies, errors, registered, tickets, job, history, faults>>
    BY <1>1, Received
  <2>1. \A c \in Batches : at'[c] = "record" =>
           at[c] = "record" /\ messages'[c] = messages[c] /\ found'[c] = found[c]
           /\ replies'[c] = replies[c]
    BY DEF Inv, TypeOK
  <2>2. gone' = gone
    BY DEF history
  <2> QED  BY <1>0, <2>1, <2>2, ReasonKept
<1>2. ASSUME NEW b \in Batches, TimeIsUp(b) PROVE ReasonInv'
  <2>1. \A c \in Batches : at'[c] = "record" => at[c] = "record"
    BY <1>2 DEF TimeIsUp, Goto, Inv, TypeOK
  <2>2. UNCHANGED <<registered, gone, messages, found, replies, job>>
    BY <1>2 DEF TimeIsUp, history
  <2> QED  BY <1>0, <2>1, <2>2, ReasonKept
<1>3. ASSUME NEW b \in Batches, Lookup(b) PROVE ReasonInv'
  <2>1. CASE Restart /\ UNCHANGED <<gone, faults>>
    BY <1>3, <2>1, RestartReason DEF Lookup
  <2>2. ASSUME NEW e, Answer(b, e), UNCHANGED <<messages, job, history>> PROVE ReasonInv'
    <3>1. UNCHANGED <<registered, gone>>
      BY <1>3, <2>2 DEF Lookup, history
    <3> QED  BY <1>0, <2>2, <3>1, AnswerReason
  <2>3. CASE Goto(b, "send") /\ found' = [found EXCEPT ![b] = Found(b)]
             /\ UNCHANGED <<messages, replies, job, history>>
    <3>1. \A c \in Batches : at'[c] = "record" => at[c] = "record" /\ found'[c] = found[c]
      BY <2>3 DEF Goto, Inv, TypeOK
    <3>2. UNCHANGED <<registered, gone>>
      BY <1>3, <2>3 DEF Lookup, history
    <3> QED  BY <1>0, <2>3, <3>1, <3>2, ReasonKept
  <2> QED  BY <1>3, <2>1, <2>2, <2>3 DEF Lookup
<1>4. ASSUME NEW b \in Batches, Send(b) PROVE ReasonInv'
  <2>1. UNCHANGED <<registered, messages, job>>
    BY <1>4 DEF Send
  <2>2. CASE Answer(b, <<"error">>) /\ UNCHANGED <<accepted, gone>>
    BY <1>0, <2>1, <2>2, AnswerReason
  <2>3. ASSUME NEW r \in [found[b] -> Replies],
               replies' = [replies EXCEPT ![b] = r],
               gone' = gone \cup {TokenOf[messages[b][p]] :
                                     p \in {q \in found[b] : r[q] = "notRegistered"}},
               Goto(b, "record"), UNCHANGED found
        PROVE  ReasonInv'
    <3>1. DeletedForReason'
      BY <1>0, <2>1, <2>3 DEF DeletedForReason
    <3>2. \A c \in Batches : at'[c] = "record" =>
             c = b \/ (at[c] = "record" /\ replies'[c] = replies[c])
      BY <2>3 DEF Goto, Inv, TypeOK
    <3>3. replies'[b] = r
      BY <2>3 DEF Inv, TypeOK
    <3>4. \A c \in Batches : at'[c] = "record" =>
             \A p \in found'[c] :
                replies'[c][p] = "notRegistered" => TokenOf[messages'[c][p]] \in gone'
      BY <2>1, <2>3, <3>2, <3>3 DEF ReasonInv
    <3>5. \A j \in Jobs : job'[j].at = "update" =>
             \A i \in DOMAIN job'[j].receipts :
                job'[j].receipts[i] = "notRegistered" => TokenOf[i[1]] \in gone'
      BY <2>1, <2>3 DEF ReasonInv
    <3> QED  BY <3>1, <3>4, <3>5 DEF ReasonInv
  <2> QED  BY <1>4, <2>2, <2>3 DEF Send
<1>5. ASSUME NEW b \in Batches, Record(b) PROVE ReasonInv'
  <2>1. /\ at[b] = "record" /\ UNCHANGED <<messages, job, gone>>
        /\ \E e : Answer(b, e)
    BY <1>5 DEF Record, history
  <2>2. \/ registered' = registered
        \/ registered' = registered \ {TokenOf[messages[b][p]] :
                                          p \in {q \in found[b] : Unregisters(replies[b][q])}}
    BY <1>5 DEF Record, Unregister
  <2>3. Tokens \ registered' \subseteq gone
    BY <1>0, <2>1, <2>2 DEF ReasonInv, Unregisters
  <2> QED  BY <2>1, <2>3, AnswerReason
<1>6. ASSUME NEW b \in Batches, Respond(b) PROVE ReasonInv'
  <2>1. \A c \in Batches : at'[c] = "record" =>
           at[c] = "record" /\ messages'[c] = messages[c] /\ found'[c] = found[c]
           /\ replies'[c] = replies[c]
    BY <1>6 DEF Respond, Clear, Goto, Inv, TypeOK
  <2>2. UNCHANGED <<registered, gone, job>>
    BY <1>6 DEF Respond, history
  <2> QED  BY <1>0, <2>1, <2>2, ReasonKept
<1>7. ASSUME NEW j \in Jobs, NEW place, QueryAt(j, place) PROVE ReasonInv'
  <2>1. UNCHANGED <<registered, at, messages, found, replies>> /\ DOMAIN job = Jobs
    BY <1>7 DEF QueryAt, handler, Inv, TypeOK
  <2>2. CASE Move(j, Over) /\ UNCHANGED gone
    <3>1. \A k \in Jobs : job'[k].at = "update" => job'[k] = job[k]
      BY <2>1, <2>2 DEF Move, Over, Idle
    <3> QED  BY <1>0, <2>1, <2>2, <3>1, ReasonKept
  <2>3. ASSUME NEW S \in SUBSET Checkable, NEW r \in [S -> Receipts],
               Move(j, IF S = {} THEN Over
                       ELSE [job[j] EXCEPT !.at = "update", !.receipts = r]),
               gone' = gone \cup TokensOf({i \in S : r[i] = "notRegistered"})
        PROVE  ReasonInv'
    <3>1. \A k \in Jobs \ {j} : job'[k] = job[k]
      BY <2>1, <2>3 DEF Move
    <3>2. job'[j].at = "update" => job'[j].receipts = r
      <4>1. PICK g : g = job[j] /\ DOMAIN g = {"at", "depth", "receipts"}
        BY DEF Inv, TypeOK, Idle
      <4>2. PICK f : f = [g EXCEPT !.at = "update", !.receipts = r]
        OBVIOUS
      <4>3. f.receipts = r /\ Over.at = "over"
        BY <4>1, <4>2 DEF Over, Idle
      <4>4. job'[j] = Over \/ job'[j] = f
        BY <2>1, <2>3, <4>1, <4>2 DEF Move
      <4> QED  BY <4>3, <4>4
    <3>3. \A i \in S : r[i] = "notRegistered" => TokenOf[i[1]] \in gone'
      BY <2>3 DEF TokensOf
    <3>4. \A k \in Jobs : job'[k].at = "update" =>
             \A i \in DOMAIN job'[k].receipts :
                job'[k].receipts[i] = "notRegistered" => TokenOf[i[1]] \in gone'
      <4> SUFFICES ASSUME NEW k \in Jobs, job'[k].at = "update",
                          NEW i \in DOMAIN job'[k].receipts,
                          job'[k].receipts[i] = "notRegistered"
                   PROVE  TokenOf[i[1]] \in gone'
        OBVIOUS
      <4>1. CASE k = j
        BY <3>2, <3>3, <4>1
      <4>2. CASE k # j
        BY <2>3, <3>1, <4>2 DEF ReasonInv
      <4> QED  BY <4>1, <4>2
    <3>5. \A c \in Batches : at'[c] = "record" =>
             \A p \in found'[c] :
                replies'[c][p] = "notRegistered" => TokenOf[messages'[c][p]] \in gone'
      BY <2>1, <2>3 DEF ReasonInv
    <3>6. DeletedForReason'
      BY <1>0, <2>1, <2>3 DEF DeletedForReason
    <3> QED  BY <3>4, <3>5, <3>6 DEF ReasonInv
  <2> QED  BY <1>7, <2>2, <2>3 DEF QueryAt
<1>8. ASSUME NEW j \in Jobs, UpdateAndRecurse(j) PROVE ReasonInv'
  <2>1. job[j].at = "update" /\ UNCHANGED <<gone, at, messages, found, replies>>
    BY <1>8 DEF UpdateAndRecurse, handler, history
  <2>2. \/ registered' = registered
        \/ registered' = registered \ TokensOf({i \in DOMAIN job[j].receipts :
                                                   job[j].receipts[i] = "notRegistered"})
    BY <1>8 DEF UpdateAndRecurse, Unregister
  <2>3. Tokens \ registered' \subseteq gone
    BY <1>0, <2>1, <2>2 DEF ReasonInv, TokensOf
  <2>4. \E f : Move(j, f) /\ f.at # "update"
    <3>1. Over.at = "over"
      BY DEF Over, Idle
    <3>2. PICK f : f = [Idle EXCEPT !.at = "query", !.depth = DepthAfter(j)]
      OBVIOUS
    <3>3. f.at = "query"
      BY <3>2 DEF Idle
    <3>4. Move(j, f) \/ Move(j, Over)
      BY <1>8, <3>2 DEF UpdateAndRecurse
    <3> QED  BY <3>1, <3>3, <3>4
  <2>5. \A k \in Jobs : job'[k].at = "update" => job'[k] = job[k]
    BY <2>4 DEF Move, Inv, TypeOK
  <2> QED  BY <2>1, <2>3, <2>5, ReasonKept
<1>9. ASSUME NEW k \in Tokens, SignOff(k) PROVE ReasonInv'
  <2>1. Tokens \ registered' \subseteq gone' /\ gone \subseteq gone'
    BY <1>0, <1>9 DEF SignOff, Unregister
  <2>2. UNCHANGED <<at, messages, found, replies, job>>
    BY <1>9 DEF SignOff, handler
  <2> QED  BY <2>1, <2>2, ReasonKept
<1>10. CASE Crash
  BY <1>10, RestartReason DEF Crash
<1>11. CASE UNCHANGED vars
  BY <1>0, <1>11, ReasonKept DEF vars, handler, history
<1> QED
  BY <1>1, <1>2, <1>3, <1>4, <1>5, <1>6, <1>7, <1>8, <1>9, <1>10, <1>11
     DEF Next, BatchStep, JobStep, BeginJob, QueryAgain

\* A push token that is deleted is one that Expo reported as not registered,
\* in a ticket or a receipt, or that its user signed off, however batches and
\* jobs interleave and whatever fails.
THEOREM DeletionsHaveReasons == Spec => []DeletedForReason
<1>1. ReasonInv => DeletedForReason
  BY DEF ReasonInv
<1> QED  BY <1>1, InvHolds, InitReason, NextReason, PTL DEF Spec

-----------------------------------------------------------------------------
(* What is accepted is reported, and is not sent again.                    *)

LEMMA InitOnce == Init => OnceInv
  BY DEF Init, NoBatches, OnceInv, ReportsTrue, NotAgain

\* The place of the last message for a token depends on the messages only.
LEMMA SamePlaces ==
  ASSUME NEW b \in Batches, messages'[b] = messages[b]
  PROVE  \A p : LastPlace(b, p)' = LastPlace(b, p)
<1> SUFFICES ASSUME NEW p PROVE LastPlace(b, p)' = LastPlace(b, p)
  OBVIOUS
<1>1. {q \in DOMAIN messages'[b] : TokenOf[messages'[b][q]] = TokenOf[messages'[b][p]]}
        = {q \in DOMAIN messages[b] : TokenOf[messages[b][q]] = TokenOf[messages[b][p]]}
  OBVIOUS
<1> QED  BY <1>1 DEF LastPlace

\* A batch of which nothing changes.
LEMMA BatchKept ==
  ASSUME OnceInv, NEW c \in Batches,
         at'[c] = at[c], messages'[c] = messages[c], found'[c] = found[c],
         replies'[c] = replies[c], errors'[c] = errors[c],
         \A p \in DOMAIN messages[c] : accepted'[messages[c][p]] = accepted[messages[c][p]]
  PROVE  ReportsTrue(c)' /\ NotAgain(c)'
<1>1. ReportsTrue(c) /\ NotAgain(c)
  BY DEF OnceInv
<1>2. ReportsTrue(c)'
  BY <1>1, SamePlaces DEF ReportsTrue
<1>3. NotAgain(c)'
  BY <1>1 DEF NotAgain, Result
<1> QED  BY <1>2, <1>3

\* A step that is none of a batch's or a task's.
LEMMA OnceKept ==
  ASSUME OnceInv, UNCHANGED <<pc, handler, accepted>>
  PROVE  OnceInv'
<1>1. \A c \in Batches : ReportsTrue(c)' /\ NotAgain(c)'
  BY BatchKept DEF handler
<1>2. /\ \A t \in Tasks : accepted'[t] <= 1
      /\ \A t \in Tasks : pc'[t] = "queued" => accepted'[t] = 0
  BY DEF OnceInv
<1> QED  BY <1>1, <1>2 DEF OnceInv

LEMMA AnswerOnce ==
  ASSUME Inv, OnceInv, NEW b \in Batches, at[b] \in {"lookup", "send"},
         NEW e \in {<<"error">>, <<"notFound">>}, Answer(b, e),
         UNCHANGED <<pc, messages, accepted>>
  PROVE  OnceInv'
<1>1. /\ at'[b] = "done" /\ errors'[b] = e
      /\ \A c \in Batches \ {b} : /\ at'[c] = at[c] /\ found'[c] = found[c]
                                  /\ replies'[c] = replies[c] /\ errors'[c] = errors[c]
  BY DEF Answer, AfterAnswer, Goto, Inv, TypeOK
<1>2. ReportsTrue(b)' /\ NotAgain(b)'
  <2>1. \A p \in DOMAIN messages[b] : accepted[messages[b][p]] = 0
    BY DEF OnceInv, NotAgain
  <2>2. NotAgain(b)'
    BY <1>1, <2>1 DEF NotAgain
  <2>3. \A p \in DOMAIN e : e[p] # "ok"
    OBVIOUS
  <2>4. ReportsTrue(b)'
    BY <1>1, <2>3 DEF ReportsTrue
  <2> QED  BY <2>2, <2>4
<1>3. \A c \in Batches \ {b} : ReportsTrue(c)' /\ NotAgain(c)'
  BY <1>1, BatchKept
<1>4. /\ \A t \in Tasks : accepted'[t] <= 1
      /\ \A t \in Tasks : pc'[t] = "queued" => accepted'[t] = 0
  BY DEF OnceInv
<1> QED  BY <1>2, <1>3, <1>4 DEF OnceInv

LEMMA RestartOnce ==
  ASSUME Inv, OnceInv, Restart
  PROVE  OnceInv'
<1>1. \A c \in Batches : at'[c] = "free"
  BY DEF Restart
<1>2. \A c \in Batches : ReportsTrue(c)' /\ NotAgain(c)'
  BY <1>1 DEF ReportsTrue, NotAgain
<1>3. \A t \in Tasks : /\ accepted'[t] = IF pc[t] \in Batches THEN 0 ELSE accepted[t]
                       /\ pc'[t] = IF pc[t] \in Batches THEN "queued" ELSE pc[t]
  BY DEF Restart
<1> QED  BY <1>2, <1>3 DEF OnceInv

LEMMA ReceiveOnce ==
  ASSUME Inv, OnceInv, NEW t \in Tasks, Receive(t)
  PROVE  OnceInv'
<1> PICK b \in Batches :
           /\ at[b] \in {"free", "open"} /\ pc[t] = "queued" /\ pc' = [pc EXCEPT ![t] = b]
           /\ messages' = [messages EXCEPT ![b] = Append(messages[b], t)]
           /\ at' = [at EXCEPT ![b] = "lookup"] \/ at' = [at EXCEPT ![b] = "open"]
           /\ UNCHANGED <<found, replies, errors, registered, tickets, job, history, faults>>
  BY Received
<1>1. accepted' = accepted /\ accepted[t] = 0
  BY DEF history, OnceInv
<1>2. /\ at'[b] \in {"lookup", "open"} /\ messages'[b] = Append(messages[b], t)
      /\ \A c \in Batches \ {b} : at'[c] = at[c] /\ messages'[c] = messages[c]
  BY DEF Inv, TypeOK
<1>3. \A p \in DOMAIN messages'[b] : accepted[messages'[b][p]] = 0
  <2> SUFFICES ASSUME NEW p \in DOMAIN messages'[b] PROVE accepted[messages'[b][p]] = 0
    OBVIOUS
  <2>1. PICK s \in Seq(Tasks) : s = messages[b]
    BY DEF Inv, TypeOK
  <2>2. (p \in DOMAIN s /\ Append(s, t)[p] = s[p]) \/ Append(s, t)[p] = t
    BY <1>2, <2>1
  <2>3. CASE Append(s, t)[p] = t
    BY <1>1, <1>2, <2>1, <2>3
  <2>4. CASE p \in DOMAIN s /\ Append(s, t)[p] = s[p]
    <3>1. at[b] = "open"
      <4>1. at[b] = "free" => s = <<>>
        BY <2>1 DEF Inv, TypeOK
      <4>2. s # <<>>
        BY <2>4
      <4> QED  BY <4>1, <4>2
    <3> QED  BY <1>2, <2>1, <2>4, <3>1 DEF OnceInv, NotAgain
  <2> QED  BY <2>2, <2>3, <2>4
<1>4. ReportsTrue(b)' /\ NotAgain(b)'
  BY <1>1, <1>2, <1>3 DEF ReportsTrue, NotAgain
<1>5. \A c \in Batches \ {b} : ReportsTrue(c)' /\ NotAgain(c)'
  BY <1>1, <1>2, BatchKept
<1>6. \A k \in Tasks : pc'[k] = "queued" => pc[k] = "queued" \/ k = t
  BY DEF Inv, TypeOK
<1> QED  BY <1>1, <1>4, <1>5, <1>6 DEF OnceInv

LEMMA SendOnce ==
  ASSUME Inv, OnceInv, NEW b \in Batches, Send(b)
  PROVE  OnceInv'
<1>1. at[b] = "send" /\ UNCHANGED <<pc, messages>>
  BY DEF Send
<1>2. CASE Answer(b, <<"error">>) /\ UNCHANGED <<accepted, gone>>
  BY <1>1, <1>2, AnswerOnce
<1>3. ASSUME NEW r \in [found[b] -> Replies],
             replies' = [replies EXCEPT ![b] = r],
             Accept(b, {p \in found[b] : r[p] = "ok"}),
             Goto(b, "record"), UNCHANGED <<found, errors>>
      PROVE  OnceInv'
  <2> DEFINE P == {p \in found[b] : r[p] = "ok"}
  <2>1. P \in SUBSET DOMAIN messages[b]
    BY DEF Inv, TypeOK
  <2>2. \A t \in Tasks : accepted'[t] = accepted[t] + (IF t \in TasksAt(b, P) THEN 1 ELSE 0)
    BY <1>3, <2>1, AcceptedNow
  <2>3. \A p \in DOMAIN messages[b] : /\ messages[b][p] \in Tasks
                                      /\ accepted[messages[b][p]] = 0
                                      /\ pc[messages[b][p]] = b
                                      /\ messages[b][p] \in TasksAt(b, P) <=> p \in P
    BY <1>1, <2>1, Places DEF OnceInv, NotAgain, TasksAt, Inv, Placed
  <2>4. \A t \in TasksAt(b, P) : t \in Tasks /\ accepted[t] = 0 /\ pc[t] = b
    BY <2>1, <2>3 DEF TasksAt
  <2>5. /\ at'[b] = "record" /\ replies'[b] = r
        /\ \A c \in Batches \ {b} : at'[c] = at[c] /\ replies'[c] = replies[c]
    BY <1>3 DEF Goto, Inv, TypeOK
  <2>6. ReportsTrue(b)' /\ NotAgain(b)'
    BY <1>1, <1>3, <2>2, <2>3, <2>5 DEF ReportsTrue, NotAgain
  <2>7. ASSUME NEW c \in Batches \ {b} PROVE ReportsTrue(c)' /\ NotAgain(c)'
    <3>1. \A p \in DOMAIN messages[c] : messages[c][p] \in Tasks /\ pc[messages[c][p]] = c
      BY Places DEF Inv, Placed
    <3>2. \A p \in DOMAIN messages[c] : accepted'[messages[c][p]] = accepted[messages[c][p]]
      <4> SUFFICES ASSUME NEW p \in DOMAIN messages[c]
                   PROVE  accepted'[messages[c][p]] = accepted[messages[c][p]]
        OBVIOUS
      <4>1. messages[c][p] \in Tasks /\ messages[c][p] \notin TasksAt(b, P)
        BY <2>4, <3>1
      <4>2. accepted[messages[c][p]] \in Nat
        BY <4>1 DEF Inv, TypeOK
      <4> QED  BY <2>2, <4>1, <4>2
    <3> QED  BY <1>1, <1>3, <2>5, <3>2, BatchKept
  <2>8. \A t \in Tasks : accepted'[t] <= 1 /\ (pc'[t] = "queued" => accepted'[t] = 0)
    <3>1. \A t \in Tasks : accepted[t] \in Nat
      BY DEF Inv, TypeOK
    <3> SUFFICES ASSUME NEW t \in Tasks
                 PROVE  accepted'[t] <= 1 /\ (pc'[t] = "queued" => accepted'[t] = 0)
      OBVIOUS
    <3>2. accepted[t] <= 1 /\ (pc[t] = "queued" => accepted[t] = 0)
      BY DEF OnceInv
    <3>3. CASE t \in TasksAt(b, P)
      <4>1. accepted'[t] = 1
        BY <2>2, <2>4, <3>3
      <4>2. pc'[t] # "queued"
        BY <1>1, <2>4, <3>3, ExpoPushAssumption
      <4> QED  BY <4>1, <4>2
    <3>4. CASE t \notin TasksAt(b, P)
      <4>1. accepted'[t] = accepted[t]
        BY <2>2, <3>1, <3>4
      <4> QED  BY <1>1, <3>2, <4>1
    <3> QED  BY <3>3, <3>4
  <2> QED  BY <2>6, <2>7, <2>8 DEF OnceInv
<1> QED  BY <1>2, <1>3 DEF Send

LEMMA RecordOnce ==
  ASSUME Inv, OnceInv, NEW b \in Batches, Record(b)
  PROVE  OnceInv'
<1>1. at[b] = "record" /\ UNCHANGED <<pc, messages, accepted>> /\ TypeOK
      /\ replies[b] \in [found[b] -> Replies]
  BY DEF Record, history, Inv, Sound
<1>2. /\ at'[b] = "done" /\ errors'[b] = Errors(b)
      /\ \A c \in Batches \ {b} : /\ at'[c] = at[c] /\ found'[c] = found[c]
                                  /\ replies'[c] = replies[c] /\ errors'[c] = errors[c]
  BY DEF Record, Answer, AfterAnswer, ErrorsOf, Goto, Inv, TypeOK
<1>3. /\ Errors(b) \in Seq(Results) /\ DOMAIN Errors(b) = DOMAIN messages[b]
      /\ \A p \in DOMAIN messages[b] : Errors(b)[p] =
            IF LastPlace(b, p) # p THEN "ok"
            ELSE IF p \notin found[b] THEN "notFound" ELSE replies[b][p]
  BY <1>1, ErrorsType
<1>4. \A p \in DOMAIN messages[b] :
         accepted[messages[b][p]] > 0 <=> p \in found[b] /\ replies[b][p] = "ok"
  BY <1>1 DEF OnceInv, ReportsTrue
<1>5. ReportsTrue(b)'
  <2>1. \A p \in DOMAIN messages[b] :
           Errors(b)[p] = "ok" => accepted[messages[b][p]] > 0 \/ LastPlace(b, p) # p
    BY <1>3, <1>4
  <2> QED  BY <1>1, <1>2, <1>3, <2>1, SamePlaces DEF ReportsTrue
<1>6. NotAgain(b)'
  <2>1. \A p \in DOMAIN messages[b] : accepted[messages[b][p]] > 0 => Errors(b)[p] = "ok"
    BY <1>3, <1>4
  <2>2. \A p \in DOMAIN Errors(b) : Len(Errors(b)) = 1 => p = 1
    BY <1>3
  <2>3. \A p \in DOMAIN messages[b] : Result(b, p)' = Errors(b)[p]
    BY <1>2, <1>3, <2>2 DEF Result
  <2> QED  BY <1>1, <1>2, <2>1, <2>3 DEF NotAgain
<1>7. \A c \in Batches \ {b} : ReportsTrue(c)' /\ NotAgain(c)'
  BY <1>1, <1>2, BatchKept
<1>8. /\ \A t \in Tasks : accepted'[t] <= 1
      /\ \A t \in Tasks : pc'[t] = "queued" => accepted'[t] = 0
  BY <1>1 DEF OnceInv
<1> QED  BY <1>5, <1>6, <1>7, <1>8 DEF OnceInv

LEMMA NextOnce == Inv /\ OnceInv /\ [Next]_vars => OnceInv'
<1> SUFFICES ASSUME Inv, OnceInv, [Next]_vars PROVE OnceInv'
  OBVIOUS
<1>1. ASSUME NEW t \in Tasks, Receive(t) PROVE OnceInv'
  BY <1>1, ReceiveOnce
<1>2. ASSUME NEW b \in Batches, TimeIsUp(b) PROVE OnceInv'
  <2>1. UNCHANGED <<pc, messages, found, replies, errors, accepted>>
    BY <1>2 DEF TimeIsUp, history
  <2>2. at[b] = "open" /\ at'[b] = "lookup" /\ \A c \in Batches \ {b} : at'[c] = at[c]
    BY <1>2 DEF TimeIsUp, Goto, Inv, TypeOK
  <2>3. ReportsTrue(b)' /\ NotAgain(b)'
    BY <2>1, <2>2 DEF ReportsTrue, NotAgain, OnceInv
  <2>4. \A c \in Batches \ {b} : ReportsTrue(c)' /\ NotAgain(c)'
    BY <2>1, <2>2, BatchKept
  <2> QED  BY <2>1, <2>3, <2>4 DEF OnceInv
<1>3. ASSUME NEW b \in Batches, Lookup(b) PROVE OnceInv'
  <2>1. CASE Restart
    BY <2>1, RestartOnce
  <2>2. ASSUME NEW e \in {<<"error">>, <<"notFound">>}, Answer(b, e),
               UNCHANGED <<pc, messages, history>>
        PROVE  OnceInv'
    BY <1>3, <2>2, AnswerOnce DEF Lookup, history
  <2>3. CASE /\ found' = [found EXCEPT ![b] = Found(b)] /\ Goto(b, "send")
             /\ UNCHANGED <<pc, messages, replies, errors, history>>
    <3>1. /\ at[b] = "lookup" /\ at'[b] = "send"
          /\ \A c \in Batches \ {b} : at'[c] = at[c] /\ found'[c] = found[c]
      BY <1>3, <2>3 DEF Lookup, Goto, Inv, TypeOK
    <3>2. UNCHANGED <<pc, messages, replies, errors, accepted>>
      BY <2>3 DEF history
    <3>3. ReportsTrue(b)' /\ NotAgain(b)'
      BY <3>1, <3>2 DEF ReportsTrue, NotAgain, OnceInv
    <3>4. \A c \in Batches \ {b} : ReportsTrue(c)' /\ NotAgain(c)'
      BY <3>1, <3>2, BatchKept
    <3> QED  BY <3>2, <3>3, <3>4 DEF OnceInv
  <2> QED  BY <1>3, <2>1, <2>2, <2>3 DEF Lookup
<1>4. ASSUME NEW b \in Batches, Send(b) PROVE OnceInv'
  BY <1>4, SendOnce
<1>5. ASSUME NEW b \in Batches, Record(b) PROVE OnceInv'
  BY <1>5, RecordOnce
<1>6. ASSUME NEW b \in Batches, Respond(b) PROVE OnceInv'
  <2>1. /\ at[b] = "done" /\ accepted' = accepted
        /\ at'[b] = "free"
        /\ \A c \in Batches \ {b} : /\ at'[c] = at[c] /\ messages'[c] = messages[c]
                                    /\ found'[c] = found[c] /\ replies'[c] = replies[c]
                                    /\ errors'[c] = errors[c]
    BY <1>6 DEF Respond, Clear, Goto, history, Inv, TypeOK
  <2>2. ReportsTrue(b)' /\ NotAgain(b)'
    BY <2>1 DEF ReportsTrue, NotAgain
  <2>3. \A c \in Batches \ {b} : ReportsTrue(c)' /\ NotAgain(c)'
    BY <2>1, BatchKept
  <2>4. ASSUME NEW t \in Tasks, pc'[t] = "queued" PROVE accepted'[t] = 0
    <3>1. CASE pc[t] = "queued"
      BY <2>1, <3>1 DEF OnceInv
    <3>2. CASE \E p \in DOMAIN messages[b] : messages[b][p] = t /\ Result(b, p) = "error"
      <4>1. ~(accepted[t] > 0) /\ accepted[t] \in Nat
        BY <2>1, <3>2 DEF OnceInv, NotAgain, Inv, TypeOK
      <4> QED  BY <2>1, <4>1
    <3> QED  BY <1>6, <2>4, <3>1, <3>2, Responded
  <2> QED  BY <2>1, <2>2, <2>3, <2>4 DEF OnceInv
<1>7. ASSUME NEW j \in Jobs, NEW place, QueryAt(j, place) PROVE OnceInv'
  BY <1>7, OnceKept DEF QueryAt
<1>8. ASSUME NEW j \in Jobs, UpdateAndRecurse(j) PROVE OnceInv'
  BY <1>8, OnceKept DEF UpdateAndRecurse, history
<1>9. ASSUME NEW k \in Tokens, SignOff(k) PROVE OnceInv'
  BY <1>9, OnceKept DEF SignOff
<1>10. CASE Crash
  BY <1>10, RestartOnce DEF Crash
<1>11. CASE UNCHANGED vars
  BY <1>11, OnceKept DEF vars, history
<1> QED
  BY <1>1, <1>2, <1>3, <1>4, <1>5, <1>6, <1>7, <1>8, <1>9, <1>10, <1>11
     DEF Next, BatchStep, JobStep, BeginJob, QueryAgain

\* Expo accepts no message twice: what fails behind its acceptance does not
\* send the message again, unless a crash or a lost answer hides it.
THEOREM AcceptedAtMostOnce == Spec => []AcceptedOnce
<1>1. OnceInv => AcceptedOnce
  BY DEF OnceInv, AcceptedOnce
<1> QED  BY <1>1, InvHolds, InitOnce, NextOnce, PTL DEF Spec

\* A batch is within its limit, and reports success for the messages that Expo
\* accepted only, or whose place another message of the same token took.
THEOREM RepliesCorrect == Spec => []RepliesInv
<1>1. ASSUME Inv, OnceInv PROVE RepliesInv
  <2>1. ASSUME NEW b \in Batches, at[b] = "done", Len(errors[b]) = Len(messages[b]),
               NEW p \in DOMAIN messages[b], errors[b][p] = "ok"
        PROVE  accepted[messages[b][p]] > 0 \/ LastPlace(b, p) # p
    <3>1. errors[b] \in Seq(Results) /\ messages[b] \in Seq(Tasks)
      BY <1>1 DEF Inv, TypeOK
    <3>2. p \in DOMAIN errors[b]
      BY <2>1, <3>1
    <3> QED  BY <1>1, <2>1, <3>2 DEF OnceInv, ReportsTrue
  <2> QED  BY <1>1, <2>1 DEF Inv, RepliesInv, SuccessIsAccepted
<1> QED  BY <1>1, InvHolds, InitOnce, NextOnce, PTL DEF Spec

-----------------------------------------------------------------------------
(* Tickets are settled once.                                               *)

LEMMA InitNumbered == Init => Numbered
  BY DEF Init, Numbered

\* No ticket that is created has the name of another.
LEMMA CreatedNew ==
  ASSUME Inv, Numbered, NEW b \in Batches, CreateTickets(b)
  PROVE  /\ Numbered'
         /\ \A i \in DOMAIN tickets : tickets'[i] = tickets[i]
<1> DEFINE S == TicketsFor(b)
<1>1. /\ S \in SUBSET Tasks
      /\ DOMAIN tickets' = DOMAIN tickets \cup NewTickets(S)
      /\ \A i \in DOMAIN tickets' :
            tickets'[i] = IF i \in NewTickets(S) THEN "open" ELSE tickets[i]
      /\ \A t \in Tasks : IsFiniteSet(TicketsOf(t)) /\ Cardinality(TicketsOf(t)) \in Nat
      /\ NewTickets(S) \in SUBSET (Tasks \X Nat)
  BY Created DEF Inv
<1> HIDE DEF S
<1>2. \A i \in DOMAIN tickets : /\ i[1] \in Tasks /\ i[2] \in Nat
                                /\ i[2] < Cardinality(TicketsOf(i[1]))
  BY DEF Inv, TypeOK, Numbered
<1>3. \A i \in NewTickets(S) : i[1] \in S /\ i[2] = Cardinality(TicketsOf(i[1]))
  BY DEF NewTickets
<1>4. \A i \in DOMAIN tickets : i \notin NewTickets(S)
  BY <1>1, <1>2, <1>3
<1>5. ASSUME NEW t \in Tasks
      PROVE  /\ Cardinality(TicketsOf(t))' \in Nat
             /\ Cardinality(TicketsOf(t))' >= Cardinality(TicketsOf(t))
             /\ t \in S => Cardinality(TicketsOf(t))' = Cardinality(TicketsOf(t)) + 1
  <2>1. PICK T, U, n : T = TicketsOf(t) /\ U = TicketsOf(t)' /\ n = Cardinality(T)
    OBVIOUS
  <2>2. IsFiniteSet(T) /\ n \in Nat
    BY <1>1, <2>1
  <2>3. CASE t \in S
    <3>1. U = T \cup {<<t, n>>}
      <4>1. <<t, n>> \in NewTickets(S) /\ <<t, n>>[1] = t
        BY <2>1, <2>3 DEF NewTickets
      <4>2. \A i \in NewTickets(S) : i[1] = t => i = <<t, n>>
        BY <2>1 DEF NewTickets
      <4>3. U = {i \in DOMAIN tickets \cup NewTickets(S) : i[1] = t}
        BY <1>1, <2>1 DEF TicketsOf
      <4>4. T = {i \in DOMAIN tickets : i[1] = t}
        BY <2>1 DEF TicketsOf
      <4> QED  BY ONLY <4>1, <4>2, <4>3, <4>4
    <3>2. <<t, n>> \notin T
      BY <1>2, <2>1, <2>2 DEF TicketsOf
    <3>3. Cardinality(U) = n + 1
      BY <2>1, <2>2, <3>1, <3>2, FS_AddElement
    <3> QED  BY <2>1, <2>2, <3>3
  <2>4. CASE t \notin S
    <3>1. U = T
      <4>1. \A i \in NewTickets(S) : i[1] # t
        BY <1>3, <2>4
      <4>2. U = {i \in DOMAIN tickets \cup NewTickets(S) : i[1] = t}
        BY <1>1, <2>1 DEF TicketsOf
      <4>3. T = {i \in DOMAIN tickets : i[1] = t}
        BY <2>1 DEF TicketsOf
      <4> QED  BY ONLY <4>1, <4>2, <4>3
    <3> QED  BY <2>1, <2>2, <2>4, <3>1
  <2> QED  BY <2>3, <2>4
<1>6. ASSUME NEW i \in DOMAIN tickets' PROVE i[2] < Cardinality(TicketsOf(i[1]))'
  <2>1. CASE i \in DOMAIN tickets
    <3>1. PICK t \in Tasks : t = i[1]
      BY <1>2, <2>1
    <3>2. i[2] \in Nat /\ i[2] < Cardinality(TicketsOf(t)) /\ Cardinality(TicketsOf(t)) \in Nat
      BY <1>1, <1>2, <2>1, <3>1
    <3>3. i[2] < Cardinality(TicketsOf(t))'
      BY <1>5, <3>2
    <3> QED  BY <3>1, <3>3
  <2>2. CASE i \in NewTickets(S)
    <3>1. PICK t \in Tasks : t = i[1] /\ t \in S
      BY <1>1, <1>3, <2>2
    <3>2. i[2] = Cardinality(TicketsOf(t)) /\ Cardinality(TicketsOf(t)) \in Nat
      BY <1>1, <1>3, <2>2, <3>1
    <3>3. i[2] < Cardinality(TicketsOf(t))'
      BY <1>5, <3>1, <3>2
    <3> QED  BY <3>1, <3>3
  <2> QED  BY <1>1, <2>1, <2>2
<1>7. Numbered'
  BY <1>6 DEF Numbered
<1>8. \A i \in DOMAIN tickets : tickets'[i] = tickets[i]
  BY <1>1, <1>4
<1> QED  BY <1>7, <1>8

\* A step creates tickets, updates them, or leaves them alone.
LEMMA TicketSteps ==
  ASSUME Inv, Numbered, [Next]_vars
  PROVE  /\ Numbered'
         /\ \A i \in DOMAIN tickets : tickets[i] = "closed" => tickets'[i] = "closed"
<1>1. \/ \E b \in Batches : CreateTickets(b)
      \/ \E r : UpdateTickets(r)
      \/ UNCHANGED tickets
  BY DEF Next, BatchStep, JobStep, BeginJob, QueryAgain, QueryAt, Receive, TimeIsUp, Lookup,
         Send, Record, Respond, UpdateAndRecurse, SignOff, Crash, vars
<1>2. CASE \E b \in Batches : CreateTickets(b)
  BY <1>2, CreatedNew
<1>3. CASE \E r : UpdateTickets(r)
  <2>1. /\ DOMAIN tickets' = DOMAIN tickets
        /\ \A i \in DOMAIN tickets : tickets[i] = "closed" => tickets'[i] = "closed"
    BY <1>3, Updated DEF Inv
  <2> QED  BY <2>1 DEF Numbered, TicketsOf
<1>4. CASE UNCHANGED tickets
  BY <1>4 DEF Numbered, TicketsOf
<1> QED  BY <1>1, <1>2, <1>3, <1>4

\* A ticket that is closed stays closed, whichever jobs hold it, however late
\* they write it, and whatever tickets are created meanwhile.
THEOREM ClosedIsClosed == Spec => TicketsStayClosed
<1>1. Inv /\ Numbered /\ [Next]_vars => Numbered'
  BY TicketSteps
<1>2. Inv /\ Numbered /\ [Next]_vars =>
        [\A i \in DOMAIN tickets : tickets[i] = "closed" => tickets'[i] = "closed"]_vars
  BY TicketSteps
<1> QED  BY <1>1, <1>2, InvHolds, InitNumbered, PTL DEF Spec, TicketsStayClosed

=============================================================================
