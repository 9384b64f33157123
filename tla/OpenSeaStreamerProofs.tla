----------------------- MODULE OpenSeaStreamerProofs -----------------------
(***************************************************************************)
(* Proofs about OpenSeaStreamer, for any finite pool, any number of        *)
(* subscribers and any number of failures.                                 *)
(***************************************************************************)
EXTENDS OpenSeaStreamer, FiniteSetTheorems, SequenceTheorems, TLAPS

-----------------------------------------------------------------------------
(* Manager and connection.                                                 *)

\* What a connection is doing agrees with what it last told the manager, and
\* with what its websocket and its listener do.
Sound(c) ==
    /\ at[c] \in {"new", "dialing"} => state[c] = "Connecting" /\ remote[c] = "Connecting"
    /\ at[c] = "loop" => state[c] # "Connecting" /\ remote[c] = state[c]
    /\ at[c] = "telling" /\ state[c] = "Connected" => remote[c] = "Connecting"
    /\ at[c] = "telling" /\ state[c] = "Subscribed" => remote[c] \in {"Connected", "Subscribed"}
    /\ joins[c] > 0 \/ heard[c] # "nothing" \/ joined[c] =>
          at[c] = "loop" \/ (at[c] = "telling" /\ state[c] = "Subscribed")
    /\ heard[c] = "Subscribed" => joined[c]
    /\ state[c] = "Subscribed" => joined[c] \/ heard[c] = "Connecting"
    /\ c \in pending => remote[c] = "Connected"
    /\ c \in pending => c \in timers \/ Queued(c, "Connecting") \/ at[c] \in {"telling", "dialing"}

Inv ==
    /\ TypeOK
    /\ \A c \in Connections : Sound(c)

LEMMA InitInv == Init => Inv
  BY OpenSeaStreamerAssumption DEF Init, Inv, TypeOK, Sound, States

\* What a connection does by itself leaves the other ones as they are.
LEMMA OtherConnections ==
  ASSUME Inv, NEW c \in Connections, UNCHANGED manager, TypeOK', Sound(c)',
         \A k \in Connections \ {c} :
            /\ requests'[k] = requests[k] /\ state'[k] = state[k] /\ at'[k] = at[k]
            /\ heard'[k] = heard[k] /\ joins'[k] = joins[k] /\ joined'[k] = joined[k]
  PROVE  Inv'
<1> SUFFICES ASSUME NEW k \in Connections \ {c} PROVE Sound(k)'
  BY DEF Inv
<1> QED  BY DEF Inv, Sound, Queued, manager

\* A new listener starts, whatever the reason.
LEMMA NewListener ==
  ASSUME Inv, NEW c \in Connections, NEW queue \in Seq({"Connecting", "Subscribed"}),
         StartNewListener(c, queue), UNCHANGED manager, failures' \in 0 .. MaxFailures
  PROVE  Inv'
<1>1. TypeOK
  BY DEF Inv
<1>2. TypeOK'
  <2>1. requests' \in [Connections -> Seq({"Connecting", "Subscribed"})]
    BY <1>1 DEF TypeOK, StartNewListener
  <2>2. /\ state' \in [Connections -> States]
        /\ at' \in [Connections -> {"new", "telling", "dialing", "loop"}]
    BY <1>1 DEF TypeOK, StartNewListener, SetState, States
  <2>3. /\ heard' \in [Connections -> {"nothing", "Connecting", "Subscribed"}]
        /\ joins' \in [Connections -> Nat]
        /\ joined' \in [Connections -> BOOLEAN]
    BY <1>1 DEF TypeOK, StartNewListener, HeardAnew
  <2> QED  BY <1>1, <2>1, <2>2, <2>3 DEF TypeOK, StartNewListener, manager
<1>3. /\ state'[c] = "Connecting" /\ at'[c] = "telling" /\ heard'[c] = "nothing"
      /\ joins'[c] = 0 /\ ~joined'[c]
  BY <1>1 DEF TypeOK, StartNewListener, HeardAnew, SetState
<1>4. Sound(c)'
  BY <1>3 DEF Inv, Sound, manager
<1>5. \A k \in Connections \ {c} :
         /\ requests'[k] = requests[k] /\ state'[k] = state[k] /\ at'[k] = at[k]
         /\ heard'[k] = heard[k] /\ joins'[k] = joins[k] /\ joined'[k] = joined[k]
  BY <1>1 DEF TypeOK, StartNewListener, SetState
<1> QED  BY <1>2, <1>4, <1>5, OtherConnections

LEMMA FailType == ASSUME TypeOK, Fail \/ NoFailure PROVE failures' \in 0 .. MaxFailures
  BY OpenSeaStreamerAssumption DEF TypeOK, Fail, NoFailure

LEMMA StartStep == ASSUME Inv, NEW c \in Connections, Start(c) PROVE Inv'
  BY NewListener DEF Inv, TypeOK, Start

LEMMA SilenceStep == ASSUME Inv, NEW c \in Connections, Silence(c) PROVE Inv'
<1>1. requests[c] \in Seq({"Connecting", "Subscribed"}) /\ failures' \in 0 .. MaxFailures
  BY FailType DEF Inv, Silence, TypeOK
<1> QED  BY <1>1, NewListener DEF Silence

\* What changes of a connection that stays in its loop, or its listener.
LEMMA DialStep == ASSUME Inv, NEW c \in Connections, Dial(c) PROVE Inv'
<1>1. TypeOK
  BY DEF Inv
<1>2. TypeOK'
  <2>1. /\ state' \in [Connections -> States]
        /\ at' \in [Connections -> {"new", "telling", "dialing", "loop"}]
    BY <1>1 DEF TypeOK, Dial, SetState, States
  <2> QED  BY <1>1, <2>1 DEF TypeOK, Dial, manager, socket
<1>3. /\ state'[c] = "Connected" /\ at'[c] = "telling" /\ at[c] = "dialing"
      /\ UNCHANGED <<requests, heard, joins, joined, remote, pending, timers>>
  BY <1>1 DEF TypeOK, Dial, SetState, socket, manager
<1>4. Sound(c)'
  BY <1>3 DEF Inv, Sound
<1>5. \A k \in Connections \ {c} : state'[k] = state[k] /\ at'[k] = at[k]
  BY <1>1 DEF TypeOK, Dial, SetState
<1> QED  BY <1>2, <1>3, <1>4, <1>5, OtherConnections DEF manager

LEMMA QueueTail ==
  ASSUME NEW q \in Seq({"Connecting", "Subscribed"}), q # <<>>
  PROVE  /\ Tail(q) \in Seq({"Connecting", "Subscribed"})
         /\ Len(Tail(q)) = Len(q) - 1
         /\ \A i \in DOMAIN Tail(q) : i + 1 \in DOMAIN q /\ Tail(q)[i] = q[i + 1]
         /\ \A i \in DOMAIN q : i # 1 => i - 1 \in DOMAIN Tail(q) /\ Tail(q)[i - 1] = q[i]
         /\ 1 \in DOMAIN q /\ Head(q) = q[1]
  OBVIOUS

\* A request to subscribe is read: a join is sent, or it is ignored.
LEMMA RequestRead ==
  ASSUME Inv, NEW c \in Connections, at[c] = "loop", requests[c] # <<>>, Head(requests[c]) = "Subscribed",
         SendJoin(c) \/ Ignore(c), UNCHANGED manager, failures' \in 0 .. MaxFailures
  PROVE  Inv'
<1>1. TypeOK
  BY DEF Inv
<1> PICK q \in Seq({"Connecting", "Subscribed"}) : q = requests[c]
  BY <1>1 DEF TypeOK
<1>2. /\ requests' = [requests EXCEPT ![c] = Tail(q)]
      /\ joins' = [joins EXCEPT ![c] = @ + 1] \/ joins' = joins
      /\ UNCHANGED <<remote, pending, timers, state, at, heard, joined, overtaken>>
  BY DEF SendJoin, Ignore, manager, socket
<1>3. Tail(q) \in Seq({"Connecting", "Subscribed"}) /\ \A i \in DOMAIN q : q[i] = "Connecting" =>
          i - 1 \in DOMAIN Tail(q) /\ Tail(q)[i - 1] = "Connecting"
  BY QueueTail
<1>4. TypeOK'
  <2>1. requests' \in [Connections -> Seq({"Connecting", "Subscribed"})]
    BY <1>1, <1>2, <1>3 DEF TypeOK
  <2>2. joins' \in [Connections -> Nat]
    BY <1>1, <1>2 DEF TypeOK
  <2> QED  BY <1>1, <1>2, <2>1, <2>2 DEF TypeOK
<1>5. Queued(c, "Connecting") => Queued(c, "Connecting")'
  <2>1. requests'[c] = Tail(q)
    BY <1>1, <1>2 DEF TypeOK
  <2> QED  BY <1>3, <2>1 DEF Queued
<1>6. Sound(c)'
  BY <1>2, <1>5 DEF Inv, Sound
<1>7. \A k \in Connections \ {c} : requests'[k] = requests[k] /\ joins'[k] = joins[k]
  BY <1>1, <1>2 DEF TypeOK
<1> QED  BY <1>2, <1>4, <1>6, <1>7, OtherConnections

LEMMA ReadRequestStep == ASSUME Inv, NEW c \in Connections, ReadRequest(c) PROVE Inv'
<1>1. /\ requests[c] # <<>> /\ Tail(requests[c]) \in Seq({"Connecting", "Subscribed"})
      /\ failures' \in 0 .. MaxFailures
  BY QueueTail, FailType DEF Inv, ReadRequest, TypeOK
<1>2. CASE StartNewListener(c, Tail(requests[c]))
  BY <1>1, <1>2, NewListener DEF ReadRequest
<1>3. CASE ~StartNewListener(c, Tail(requests[c]))
  BY <1>1, <1>3, RequestRead DEF ReadRequest
<1> QED  BY <1>2, <1>3

LEMMA ReadListenerStep == ASSUME Inv, NEW c \in Connections, ReadListener(c) PROVE Inv'
<1>1. TypeOK
  BY DEF Inv
<1>2. CASE StartNewListener(c, requests[c])
  BY <1>1, <1>2, NewListener DEF ReadListener, TypeOK
<1>3. CASE heard[c] = "Subscribed"
  <2>1. /\ at[c] = "loop"
        /\ state' = [state EXCEPT ![c] = "Subscribed"] /\ at' = [at EXCEPT ![c] = "telling"]
        /\ heard' = [heard EXCEPT ![c] = "nothing"]
        /\ UNCHANGED <<remote, pending, timers, requests, joins, joined, failures, overtaken>>
    BY <1>3 DEF ReadListener, SetState, manager
  <2>2. TypeOK'
    <3>1. /\ state' \in [Connections -> States]
          /\ at' \in [Connections -> {"new", "telling", "dialing", "loop"}]
          /\ heard' \in [Connections -> {"nothing", "Connecting", "Subscribed"}]
      BY <1>1, <2>1 DEF TypeOK, States
    <3> QED  BY <1>1, <2>1, <3>1 DEF TypeOK
  <2>3. state'[c] = "Subscribed" /\ at'[c] = "telling" /\ heard'[c] = "nothing" /\ remote[c] \in States
    BY <1>1, <2>1 DEF TypeOK
  <2>4. Sound(c)'
    BY <1>3, <2>1, <2>3 DEF Inv, Sound, States
  <2>5. \A k \in Connections \ {c} : state'[k] = state[k] /\ at'[k] = at[k] /\ heard'[k] = heard[k]
    BY <1>1, <2>1 DEF TypeOK
  <2> QED  BY <2>1, <2>2, <2>4, <2>5, OtherConnections DEF manager
<1> QED  BY <1>2, <1>3 DEF ReadListener

\* The listener and its websocket.
LEMMA SocketStep ==
  ASSUME Inv, NEW c \in Connections, Answer(c) \/ LoseAnswer(c) \/ SocketFails(c) PROVE Inv'
<1>1. TypeOK
  BY DEF Inv
<1>2. failures' \in 0 .. MaxFailures
  BY <1>1, FailType DEF Answer, LoseAnswer, SocketFails, NoFailure
<1>3. UNCHANGED <<remote, pending, timers, requests, state, at, overtaken>>
  BY DEF Answer, LoseAnswer, SocketFails, manager
<1>4. TypeOK'
  <2>1. joins' \in [Connections -> Nat]
    <3>1. \E n \in Nat : joins' = [joins EXCEPT ![c] = n]
      <4>1. CASE joins[c] > 0 /\ joins' = [joins EXCEPT ![c] = @ - 1]
        <5>1. joins[c] - 1 \in Nat
          BY <1>1, <4>1 DEF TypeOK
        <5> QED  BY <4>1, <5>1
      <4>2. CASE joins' = [joins EXCEPT ![c] = 0]
        BY <4>2
      <4> QED  BY <4>1, <4>2 DEF Answer, LoseAnswer, SocketFails
    <3> QED  BY <1>1, <3>1 DEF TypeOK
  <2>2. heard' \in [Connections -> {"nothing", "Connecting", "Subscribed"}]
    BY <1>1 DEF TypeOK, Answer, LoseAnswer, SocketFails
  <2>3. joined' \in [Connections -> BOOLEAN]
    BY <1>1 DEF TypeOK, Answer, LoseAnswer, SocketFails
  <2> QED  BY <1>1, <1>2, <1>3, <2>1, <2>2, <2>3 DEF TypeOK
<1>5. \/ joins[c] > 0 /\ heard'[c] = "Subscribed" /\ joined'[c]
      \/ joins[c] > 0 /\ UNCHANGED <<heard, joined>>
      \/ /\ at[c] = "loop" \/ (at[c] = "telling" /\ state[c] = "Subscribed")
         /\ heard'[c] = "Connecting" /\ joins'[c] = 0 /\ ~joined'[c]
  BY <1>1 DEF TypeOK, Answer, LoseAnswer, SocketFails
<1>6. Sound(c)'
  BY <1>3, <1>5 DEF Inv, Sound, Queued
<1>7. \A k \in Connections \ {c} : heard'[k] = heard[k] /\ joins'[k] = joins[k] /\ joined'[k] = joined[k]
  BY <1>1 DEF TypeOK, Answer, LoseAnswer, SocketFails
<1> QED  BY <1>3, <1>4, <1>6, <1>7, OtherConnections DEF manager

-----------------------------------------------------------------------------
(* The manager.                                                            *)

\* A request is put into a queue: nothing that was in it is lost.
LEMMA QueueAppend ==
  ASSUME NEW q \in Seq({"Connecting", "Subscribed"}), NEW m \in {"Connecting", "Subscribed"}
  PROVE  /\ Append(q, m) \in Seq({"Connecting", "Subscribed"})
         /\ Len(Append(q, m)) = Len(q) + 1
         /\ \A i \in DOMAIN q : i \in DOMAIN Append(q, m) /\ Append(q, m)[i] = q[i]
         /\ Len(q) + 1 \in DOMAIN Append(q, m) /\ Append(q, m)[Len(q) + 1] = m
         /\ DOMAIN Append(q, m) = DOMAIN q \cup {Len(q) + 1}
         /\ Len(q) + 1 \notin DOMAIN q
  OBVIOUS

\* A connection is asked to reconnect.
LEMMA AskedToReconnect ==
  ASSUME Inv, NEW c \in Connections, requests' = [requests EXCEPT ![c] = Append(@, "Connecting")]
  PROVE  /\ requests' \in [Connections -> Seq({"Connecting", "Subscribed"})]
         /\ Queued(c, "Connecting")'
         /\ \A k \in Connections \ {c} : requests'[k] = requests[k]
<1> PICK q \in Seq({"Connecting", "Subscribed"}) : q = requests[c]
  BY DEF Inv, TypeOK
<1>1. requests'[c] = Append(q, "Connecting")
  BY DEF Inv, TypeOK
<1> QED  BY <1>1, QueueAppend DEF Inv, TypeOK, Queued

LEMMA TimeoutStep == ASSUME Inv, NEW c \in Connections, Timeout(c) PROVE Inv'
<1>1. failures' \in 0 .. MaxFailures
  BY FailType DEF Inv, Timeout
<1>2. /\ requests' = [requests EXCEPT ![c] = Append(@, "Connecting")]
      /\ timers' = timers \ {c}
      /\ UNCHANGED <<remote, pending, state, at, heard, joins, joined, overtaken>>
  BY DEF Timeout, socket
<1>3. TypeOK'
  BY <1>1, <1>2, AskedToReconnect DEF Inv, TypeOK
<1>4. \A k \in Connections : Sound(k)'
  <2> SUFFICES ASSUME NEW k \in Connections PROVE Sound(k)'
    OBVIOUS
  <2>1. Queued(k, "Connecting") \/ k = c => Queued(k, "Connecting")'
    BY <1>2, AskedToReconnect DEF Queued
  <2>2. k \in timers /\ k # c => k \in timers'
    BY <1>2
  <2> QED  BY <1>2, <2>1, <2>2 DEF Inv, Sound
<1> QED  BY <1>3, <1>4 DEF Inv

LEMMA DisconnectStep == ASSUME Inv, NEW c \in Connections, Disconnect(c) PROVE Inv'
<1>1. failures' \in 0 .. MaxFailures
  BY FailType DEF Inv, Disconnect
<1>2. /\ requests' = [requests EXCEPT ![c] = Append(@, "Connecting")]
      /\ UNCHANGED <<remote, pending, timers, state, at, heard, joins, joined, overtaken>>
  BY DEF Disconnect, socket, manager
<1>3. TypeOK'
  BY <1>1, <1>2, AskedToReconnect DEF Inv, TypeOK
<1>4. \A k \in Connections : Sound(k)'
  <2> SUFFICES ASSUME NEW k \in Connections PROVE Sound(k)'
    OBVIOUS
  <2>1. Queued(k, "Connecting") => Queued(k, "Connecting")'
    BY <1>2, AskedToReconnect DEF Queued
  <2> QED  BY <1>2, <2>1 DEF Inv, Sound
<1> QED  BY <1>3, <1>4 DEF Inv

\* What the manager does with what c tells: it asks those of P, or asks c to
\* reconnect, which has told twice that it is subscribed.
Asks(c, P) ==
    /\ Expected(c)
    /\ P \in SUBSET Spare(c)
    /\ \/ Cardinality(P) = Required(c)
       \/ P = Spare(c) /\ Cardinality(P) < Required(c)
       \/ P = {} /\ Required(c) < 0
    /\ requests' = [k \in Connections |->
            IF k \in P THEN Append(requests[k], "Subscribed") ELSE requests[k]]
    /\ pending' = (pending \ {c}) \cup P
    /\ timers' = (timers \ {c}) \cup P

AsksToReconnect(c) ==
    /\ state[c] = "Subscribed" /\ remote[c] = "Subscribed"
    /\ requests' = [requests EXCEPT ![c] = Append(@, "Connecting")]
    /\ pending' = pending
    /\ timers' = timers

LEMMA Delivered ==
  ASSUME Inv, NEW c \in Connections, Deliver(c)
  PROVE  /\ at[c] = "telling" /\ at'[c] = IF state[c] = "Connecting" THEN "dialing" ELSE "loop"
         /\ remote'[c] = state[c]
         /\ \A k \in Connections \ {c} : at'[k] = at[k] /\ remote'[k] = remote[k]
         /\ remote' \in [Connections -> States]
         /\ at' \in [Connections -> {"new", "telling", "dialing", "loop"}]
         /\ AsksToReconnect(c) \/ \E P \in SUBSET Spare(c) : Asks(c, P)
         /\ UNCHANGED <<state, heard, joins, joined, failures>>
<1>1. TypeOK /\ Sound(c)
  BY DEF Inv
<1>2. /\ at[c] = "telling" /\ at'[c] = IF state[c] = "Connecting" THEN "dialing" ELSE "loop"
      /\ at' \in [Connections -> {"new", "telling", "dialing", "loop"}]
      /\ \A k \in Connections \ {c} : at'[k] = at[k]
  BY <1>1 DEF Deliver, TypeOK
<1>3. remote'[c] = state[c] /\ remote' \in [Connections -> States]
      /\ \A k \in Connections \ {c} : remote'[k] = remote[k]
  BY <1>1 DEF Deliver, TypeOK
<1>4. timers \cap PendingAfter(c) = timers \ {c}
  BY <1>1 DEF PendingAfter, TypeOK
<1>5. ASSUME Expected(c) PROVE \E P \in SUBSET Spare(c) : Asks(c, P)
  BY <1>4, <1>5 DEF Deliver, UpdateSubscribers, Asks, PendingAfter, TimersAfter
<1>6. ASSUME ~Expected(c) PROVE AsksToReconnect(c)
  <2>1. state[c] = "Subscribed" /\ remote[c] = "Subscribed"
    BY <1>1, <1>2, <1>6 DEF Expected, Sound, TypeOK, States
  <2>2. c \notin pending /\ c \notin timers
    BY <1>1, <2>1 DEF Sound, TypeOK
  <2> QED  BY <1>4, <1>6, <2>1, <2>2 DEF Deliver, AsksToReconnect, PendingAfter, TimersAfter
<1> QED  BY <1>2, <1>3, <1>5, <1>6 DEF Deliver, socket

LEMMA DeliverStep == ASSUME Inv, NEW c \in Connections, Deliver(c) PROVE Inv'
<1>1. TypeOK /\ Sound(c)
  BY DEF Inv
<1>2. overtaken' \in Nat
  BY <1>1 DEF Deliver, TypeOK
<1>3. CASE AsksToReconnect(c)
  <2>1. /\ requests' = [requests EXCEPT ![c] = Append(@, "Connecting")]
        /\ UNCHANGED <<pending, timers>>
    BY <1>3 DEF AsksToReconnect
  <2>2. TypeOK'
    BY <1>1, <1>2, <2>1, Delivered, AskedToReconnect DEF TypeOK
  <2>3. ASSUME NEW k \in Connections PROVE Sound(k)'
    <3>1. Queued(k, "Connecting") => Queued(k, "Connecting")'
      BY <2>1, AskedToReconnect DEF Queued
    <3>2. CASE k # c
      BY <2>1, <3>1, <3>2, Delivered DEF Inv, Sound
    <3>3. CASE k = c
      BY <1>3, <2>1, <3>1, <3>3, Delivered DEF Inv, Sound, AsksToReconnect
    <3> QED  BY <3>2, <3>3
  <2> QED  BY <2>2, <2>3 DEF Inv
<1>4. CASE \E P \in SUBSET Spare(c) : Asks(c, P)
  <2> PICK P \in SUBSET Connections : P \in SUBSET Spare(c) /\ Asks(c, P)
    BY <1>4 DEF Spare, InState
  <2>1. /\ requests' = [k \in Connections |->
               IF k \in P THEN Append(requests[k], "Subscribed") ELSE requests[k]]
        /\ pending' = (pending \ {c}) \cup P
        /\ timers' = (timers \ {c}) \cup P
    BY DEF Asks
  <2>2. \A k \in P : remote'[k] = "Connected"
    BY DEF Spare, InState
  <2>3. requests' \in [Connections -> Seq({"Connecting", "Subscribed"})]
    <3>1. \A k \in Connections : requests'[k] \in Seq({"Connecting", "Subscribed"})
      BY <1>1, <2>1, QueueAppend DEF TypeOK
    <3> QED  BY <2>1, <3>1
  <2>4. TypeOK'
    BY <1>1, <1>2, <2>1, <2>3, Delivered DEF TypeOK
  <2>5. ASSUME NEW k \in Connections PROVE Sound(k)'
    <3>1. Queued(k, "Connecting") => Queued(k, "Connecting")'
      <4>1. requests[k] \in Seq({"Connecting", "Subscribed"})
        BY <1>1 DEF TypeOK
      <4> QED  BY <2>1, <4>1, QueueAppend DEF Queued
    <3>2. k \in P => k \in timers'
      BY <2>1
    <3>3. CASE k # c
      BY <2>1, <2>2, <3>1, <3>2, <3>3, Delivered DEF Inv, Sound
    <3>4. CASE k = c
      <4>1. k \in pending' => k \in P
        BY <2>1, <3>4
      <4> QED  BY <2>1, <2>2, <3>2, <3>4, <4>1, Delivered DEF Inv, Sound
    <3> QED  BY <3>3, <3>4
  <2> QED  BY <2>4, <2>5 DEF Inv
<1> QED  BY <1>3, <1>4, Delivered

LEMMA NextInv == Inv /\ [Next]_vars => Inv'
<1> SUFFICES ASSUME Inv, [Next]_vars PROVE Inv'
  OBVIOUS
<1>1. CASE UNCHANGED vars
  BY <1>1 DEF Inv, TypeOK, Sound, Queued, vars, manager, socket
<1> QED
  BY <1>1, StartStep, SilenceStep, DialStep, ReadRequestStep, ReadListenerStep, SocketStep,
     TimeoutStep, DisconnectStep, DeliverStep DEF Next

-----------------------------------------------------------------------------
(* The backlog.                                                            *)

Count(b) == IF b THEN 1 ELSE 0

\* Subscriptions under way at the connection.
Subscribing(c) ==
    joins[c] + Count(heard[c] = "Subscribed") + Count(at[c] = "telling" /\ state[c] = "Subscribed")

\* The manager may ask a connection when it thinks that it is connected, and
\* will be able to when it has heard that it is connected anew.
MayAsk(c) ==
    Count(c \notin pending /\ remote[c] = "Connected")
    + Count(state[c] = "Connecting" \/ heard[c] = "Connecting" \/ (at[c] = "telling" /\ state[c] = "Connected"))

\* The timeout of a subscription that was lost is still to come.
Waiting(c) == Count(c \in timers /\ ~Underway(c))

\* What is in the queue of a connection, or may come to it without a failure,
\* was earned by failures.
Earned(c) == Len(requests[c]) + Subscribing(c) + MayAsk(c) + Waiting(c) <= 1 + failures

BacklogInv == \A c \in Connections : Earned(c)

\* As Queued, of the queue itself.
Holds(queue, m) == \E i \in DOMAIN queue : queue[i] = m

LEMMA TailHolds ==
  ASSUME NEW q \in Seq({"Connecting", "Subscribed"}), q # <<>>, NEW m, Holds(q, m), Head(q) # m
  PROVE  Holds(Tail(q), m)
<1>1. PICK i \in DOMAIN q : q[i] = m
  BY DEF Holds
<1>2. i # 1
  BY <1>1, QueueTail
<1> QED  BY <1>1, <1>2, QueueTail DEF Holds

LEMMA InitBacklog == Init => BacklogInv
  BY DEF Init, BacklogInv, Earned, Subscribing, MayAsk, Waiting, Count

\* What other connections have is earned as before.
LEMMA OthersEarned ==
  ASSUME Inv, BacklogInv, NEW c \in Connections, Earned(c)', failures' \in {failures, failures + 1},
         \A k \in Connections \ {c} :
            /\ requests'[k] = requests[k] /\ state'[k] = state[k] /\ at'[k] = at[k]
            /\ heard'[k] = heard[k] /\ joins'[k] = joins[k] /\ remote'[k] = remote[k]
            /\ (k \in pending' <=> k \in pending) /\ (k \in timers' <=> k \in timers)
  PROVE  BacklogInv'
<1> SUFFICES ASSUME NEW k \in Connections \ {c} PROVE Earned(k)'
  BY DEF BacklogInv
<1>1. Underway(k)' <=> Underway(k)
  BY DEF Underway, Queued
<1>2. /\ Len(requests'[k]) = Len(requests[k])
      /\ Subscribing(k)' = Subscribing(k)
      /\ MayAsk(k)' = MayAsk(k)
  BY DEF Subscribing, MayAsk
<1>3. Waiting(k)' = Waiting(k)
  BY <1>1 DEF Waiting, Count
<1>4. Len(requests[k]) \in Int /\ Subscribing(k) \in Int /\ MayAsk(k) \in Int /\ failures \in Int
      /\ Waiting(k) \in Int
  BY DEF Inv, TypeOK, Subscribing, MayAsk, Waiting, Count
<1>5. Earned(k)
  BY DEF BacklogInv
<1> QED  BY <1>2, <1>3, <1>4, <1>5 DEF Earned

LEMMA Balance ==
  ASSUME NEW len \in Int, NEW sub \in Int, NEW may \in Int, NEW before \in Int, NEW failed \in Int,
         NEW rest \in Int, NEW ask \in Int, NEW after \in Int, NEW failed2 \in Int,
         len + sub + may + before <= 1 + failed, after <= 1, before >= 0, may >= ask, sub >= 0,
         \/ rest = len /\ after <= before + sub /\ failed2 = failed + 1
         \/ rest = len /\ after <= before + sub /\ may = ask + 1 /\ failed2 = failed
         \/ rest = len - 1 /\ after <= before + sub /\ failed2 = failed
         \/ rest = len - 1 /\ failed2 = failed + 1
  PROVE  rest + 0 + (ask + 1) + after <= 1 + failed2
  OBVIOUS

\* A new listener: a failure, or what a failure has left in the queue or with
\* the listener, pays for the subscription that may follow.
LEMMA NewListenerEarned ==
  ASSUME Inv, BacklogInv, NEW c \in Connections, NEW queue, StartNewListener(c, queue), UNCHANGED manager,
         \/ queue = requests[c] /\ at[c] = "loop" /\ failures' = failures + 1
         \/ queue = requests[c] /\ at[c] = "loop" /\ heard[c] = "Connecting" /\ failures' = failures
         \/ queue = requests[c] /\ at[c] = "new" /\ failures' = failures
         \/ /\ requests[c] # <<>> /\ queue = Tail(requests[c]) /\ at[c] = "loop"
            /\ Head(requests[c]) = "Connecting" /\ failures' = failures
         \/ /\ requests[c] # <<>> /\ queue = Tail(requests[c]) /\ at[c] = "loop"
            /\ failures' = failures + 1
  PROVE  BacklogInv'
<1>1. TypeOK /\ Sound(c) /\ Earned(c)
  BY DEF Inv, BacklogInv
<1>2. /\ requests'[c] = queue /\ state'[c] = "Connecting" /\ at'[c] = "telling" /\ heard'[c] = "nothing"
      /\ joins'[c] = 0 /\ UNCHANGED <<remote, pending, timers>>
      /\ \A k \in Connections \ {c} :
            /\ requests'[k] = requests[k] /\ state'[k] = state[k] /\ at'[k] = at[k]
            /\ heard'[k] = heard[k] /\ joins'[k] = joins[k]
  BY <1>1 DEF TypeOK, StartNewListener, HeardAnew, SetState, manager
<1> PICK q \in Seq({"Connecting", "Subscribed"}) : q = requests[c]
  BY <1>1 DEF TypeOK
<1>3. Len(q) \in Nat /\ joins[c] \in Nat /\ failures \in Nat
  BY <1>1, OpenSeaStreamerAssumption DEF TypeOK
<1>4. q # <<>> => /\ Len(Tail(q)) = Len(q) - 1
                  /\ Head(q) = "Connecting" /\ Holds(q, "Subscribed") => Holds(Tail(q), "Subscribed")
  BY QueueTail, TailHolds
<1>5. /\ Subscribing(c)' = 0
      /\ MayAsk(c)' = Count(c \notin pending /\ remote[c] = "Connected") + 1
  BY <1>2 DEF Subscribing, MayAsk, Count
<1>6. Subscribing(c) >= joins[c] + Count(heard[c] = "Subscribed")
  BY <1>3 DEF Subscribing, Count
<1>7. c \in timers => at[c] = "loop" /\ state[c] # "Subscribed"
  BY <1>1 DEF Sound, TypeOK
<1>8. (c \in timers /\ ~Underway(c))' => c \in timers /\ ~Holds(queue, "Subscribed")
  BY <1>2 DEF Underway, Queued, Holds
<1>9. Underway(c) /\ state[c] # "Subscribed" /\ joins[c] = 0 /\ heard[c] # "Subscribed" =>
          Holds(q, "Subscribed")
  BY <1>3 DEF Underway, Queued, Holds
<1>10. Earned(c)'
  <2>1. PICK before, after, ask \in {0, 1} :
           /\ before = Waiting(c)
           /\ after = Waiting(c)'
           /\ ask = Count(c \notin pending /\ remote[c] = "Connected")
    BY DEF Waiting, Count
  <2>2. PICK may \in {ask, ask + 1} :
           /\ may = MayAsk(c)
           /\ heard[c] = "Connecting" \/ at[c] = "new" => may = ask + 1
    BY <1>1, <2>1 DEF MayAsk, Count, Sound
  <2>3. PICK sub \in Nat : sub = Subscribing(c)
    BY <1>3 DEF Subscribing, Count
  <2>4. Holds(queue, "Subscribed") \/ ~Holds(q, "Subscribed") => after <= before + sub
    <3>1. CASE after = 0 \/ before = 1
      BY <2>1, <2>3, <3>1
    <3>2. CASE after = 1 /\ before = 0 /\ (Holds(queue, "Subscribed") \/ ~Holds(q, "Subscribed"))
      <4>1. (c \in timers /\ ~Underway(c))' /\ ~(c \in timers /\ ~Underway(c))
        BY <2>1, <3>2 DEF Waiting, Count
      <4>2. c \in timers /\ state[c] # "Subscribed" /\ Underway(c)
        BY <1>7, <1>8, <4>1
      <4>3. ~Holds(queue, "Subscribed")
        BY <1>8, <4>1
      <4>4. ~Holds(q, "Subscribed")
        BY <3>2, <4>3
      <4>5. joins[c] > 0 \/ heard[c] = "Subscribed"
        BY <1>3, <1>9, <4>2, <4>4
      <4>6. sub >= 1
        BY <1>3, <1>6, <2>3, <4>5 DEF Count
      <4> QED  BY <2>1, <2>3, <4>6
    <3> QED  BY <2>1, <3>1, <3>2
  <2>5. PICK len, failed \in Nat : len = Len(q) /\ failed = failures
    BY <1>3
  <2>6. len + sub + may + before <= 1 + failed
    BY <1>1, <2>1, <2>2, <2>3, <2>5 DEF Earned
  <2>7. PICK rest : rest = Len(queue)
    OBVIOUS
  <2>8. \/ rest = len /\ after <= before + sub /\ failures' = failed + 1
        \/ rest = len /\ after <= before + sub /\ may = ask + 1 /\ failures' = failed
        \/ rest = len - 1 /\ after <= before + sub /\ failures' = failed
        \/ rest = len - 1 /\ failures' = failed + 1
    BY <1>4, <2>2, <2>4, <2>5, <2>7
  <2>9. rest + 0 + (ask + 1) + after <= 1 + failures'
    <3>1. PICK failed2 \in Int : failed2 = failures'
      BY <2>5, <2>8
    <3>2. /\ ask \in Int /\ before \in Int /\ after \in Int /\ may \in Int /\ rest \in Int
          /\ len \in Int /\ sub \in Int /\ failed \in Int
          /\ after <= 1 /\ before >= 0 /\ may >= ask /\ sub >= 0
      BY <2>1, <2>2, <2>3, <2>5, <2>8
    <3>3. failed2 \in Int
      OBVIOUS
    <3>4. \/ rest = len /\ after <= before + sub /\ failed2 = failed + 1
          \/ rest = len /\ after <= before + sub /\ may = ask + 1 /\ failed2 = failed
          \/ rest = len - 1 /\ after <= before + sub /\ failed2 = failed
          \/ rest = len - 1 /\ failed2 = failed + 1
      BY <2>8, <3>1
    <3>5. rest + 0 + (ask + 1) + after <= 1 + failed2
      BY ONLY <2>6, <3>2, <3>3, <3>4, Balance
    <3> QED  BY <3>1, <3>5
  <2> QED  BY <1>2, <1>5, <2>1, <2>7, <2>9 DEF Earned
<1>11. failures' \in {failures, failures + 1}
  OBVIOUS
<1> QED  BY <1>2, <1>10, <1>11, OthersEarned

LEMMA Numbers ==
  ASSUME Inv, NEW c \in Connections
  PROVE  /\ Len(requests[c]) \in Nat /\ joins[c] \in Nat /\ failures \in Nat
         /\ Subscribing(c) \in Nat /\ MayAsk(c) \in Nat /\ Waiting(c) \in {0, 1}
  BY OpenSeaStreamerAssumption DEF Inv, TypeOK, Subscribing, MayAsk, Waiting, Count

LEMMA DialEarned == ASSUME Inv, BacklogInv, NEW c \in Connections, Dial(c) PROVE BacklogInv'
<1>1. TypeOK /\ Sound(c) /\ Earned(c)
  BY DEF Inv, BacklogInv
<1>2. /\ state'[c] = "Connected" /\ at'[c] = "telling" /\ at[c] = "dialing"
      /\ \A k \in Connections \ {c} : state'[k] = state[k] /\ at'[k] = at[k]
      /\ UNCHANGED <<requests, heard, joins, joined, remote, pending, timers, failures>>
  BY <1>1 DEF TypeOK, Dial, SetState, socket, manager
<1>3. Subscribing(c)' = Subscribing(c) + 0 /\ MayAsk(c)' = MayAsk(c) + 0
  BY <1>1, <1>2 DEF Subscribing, MayAsk, Count, Sound, TypeOK
<1>4. Waiting(c)' = Waiting(c) + 0
  BY <1>1, <1>2 DEF Waiting, Count, Sound, TypeOK
<1>5. Len(requests'[c]) = Len(requests[c]) + 0 /\ failures' = failures + 0
  BY <1>1, <1>2, Numbers
<1>6. Earned(c)'
  BY <1>1, <1>3, <1>4, <1>5, Numbers DEF Earned
<1> QED  BY <1>2, <1>5, <1>6, OthersEarned

LEMMA RequestEarned ==
  ASSUME Inv, BacklogInv, NEW c \in Connections, at[c] = "loop", requests[c] # <<>>,
         SendJoin(c) \/ (Ignore(c) /\ state[c] # "Connected"), UNCHANGED <<manager, failures>>
  PROVE  BacklogInv'
<1>1. TypeOK /\ Sound(c) /\ Earned(c)
  BY DEF Inv, BacklogInv
<1>2. PICK s \in {0, 1} :
         /\ requests' = [requests EXCEPT ![c] = Tail(@)]
         /\ joins' = [joins EXCEPT ![c] = @ + s]
         /\ UNCHANGED <<remote, pending, timers, state, at, heard, failures>>
         /\ s = 1 \/ state[c] = "Subscribed"
  <2>1. joins = [joins EXCEPT ![c] = @ + 0]
    BY <1>1 DEF TypeOK
  <2>2. state[c] # "Connecting"
    BY <1>1 DEF Sound
  <2> QED  BY <1>1, <2>1, <2>2 DEF SendJoin, Ignore, manager, socket, TypeOK, States
<1>3. joins'[c] = joins[c] + s /\ \A k \in Connections \ {c} : joins'[k] = joins[k] /\ requests'[k] = requests[k]
  BY <1>1, <1>2 DEF TypeOK
<1>4. Len(requests'[c]) = Len(requests[c]) + (-1) /\ failures' = failures + 0
  <2> PICK q \in Seq({"Connecting", "Subscribed"}) : q = requests[c]
    BY <1>1 DEF TypeOK
  <2> QED  BY <1>1, <1>2, QueueTail, Numbers DEF TypeOK
<1>5. Subscribing(c)' = Subscribing(c) + s /\ MayAsk(c)' = MayAsk(c) + 0
  BY <1>2, <1>3, Numbers DEF Subscribing, MayAsk, Count
<1>6. Underway(c)'
  BY <1>2, <1>3, Numbers DEF Underway
<1>7. Waiting(c)' = 0 /\ Waiting(c) \in Nat
  BY <1>6, Numbers DEF Waiting, Count
<1>8. Earned(c)'
  BY <1>1, <1>4, <1>5, <1>7, Numbers DEF Earned
<1> QED  BY <1>2, <1>3, <1>4, <1>8, OthersEarned

LEMMA ReadRequestEarned == ASSUME Inv, BacklogInv, NEW c \in Connections, ReadRequest(c) PROVE BacklogInv'
<1>1. failures \in Nat /\ requests[c] \in Seq({"Connecting", "Subscribed"})
  BY Numbers DEF Inv, TypeOK
<1>2. at[c] = "loop" /\ requests[c] # <<>> /\ UNCHANGED manager
  BY DEF ReadRequest
<1>3. CASE Head(requests[c]) = "Connecting" /\ StartNewListener(c, Tail(requests[c])) /\ NoFailure
  <2>1. failures' = failures
    BY <1>3 DEF NoFailure
  <2> QED  BY <1>2, <1>3, <2>1, NewListenerEarned
<1>4. CASE Fail /\ StartNewListener(c, Tail(requests[c]))
  <2>1. failures' = failures + 1
    BY <1>4 DEF Fail
  <2> QED  BY <1>2, <1>4, <2>1, NewListenerEarned
<1>5. CASE (SendJoin(c) \/ (Ignore(c) /\ state[c] # "Connected")) /\ NoFailure
  BY <1>2, <1>5, RequestEarned DEF NoFailure
<1> QED  BY <1>3, <1>4, <1>5 DEF ReadRequest

LEMMA ReadListenerEarned == ASSUME Inv, BacklogInv, NEW c \in Connections, ReadListener(c) PROVE BacklogInv'
<1>1. TypeOK /\ Sound(c) /\ Earned(c)
  BY DEF Inv, BacklogInv
<1>2. CASE heard[c] = "Connecting"
  BY <1>2, NewListenerEarned DEF ReadListener
<1>3. CASE heard[c] = "Subscribed"
  <2>1. /\ at[c] = "loop" /\ state'[c] = "Subscribed" /\ at'[c] = "telling" /\ heard'[c] = "nothing"
        /\ UNCHANGED <<remote, pending, timers, requests, joins, failures>>
        /\ \A k \in Connections \ {c} : state'[k] = state[k] /\ at'[k] = at[k] /\ heard'[k] = heard[k]
    BY <1>1, <1>3 DEF ReadListener, SetState, manager, TypeOK
  <2>2. Subscribing(c)' = Subscribing(c) + 0 /\ MayAsk(c)' = MayAsk(c) + 0
    BY <1>1, <1>3, <2>1, Numbers DEF Subscribing, MayAsk, Count, Sound
  <2>3. Waiting(c)' = 0 /\ Waiting(c) \in Nat
    BY <2>1, Numbers DEF Waiting, Count, Underway
  <2>4. Len(requests'[c]) = Len(requests[c]) + 0 /\ failures' = failures + 0
    BY <2>1, Numbers
  <2>5. Earned(c)'
    BY <1>1, <2>2, <2>3, <2>4, Numbers DEF Earned
  <2> QED  BY <2>1, <2>4, <2>5, OthersEarned
<1> QED  BY <1>2, <1>3 DEF ReadListener

LEMMA SocketEarned ==
  ASSUME Inv, BacklogInv, NEW c \in Connections, Answer(c) \/ LoseAnswer(c) \/ SocketFails(c)
  PROVE  BacklogInv'
<1>1. TypeOK /\ Sound(c) /\ Earned(c)
  BY DEF Inv, BacklogInv
<1>0. /\ Len(requests[c]) \in Nat /\ joins[c] \in Nat /\ failures \in Nat
      /\ Subscribing(c) \in Nat /\ MayAsk(c) \in Nat /\ Waiting(c) \in {0, 1}
  BY Numbers
<1>2. /\ UNCHANGED <<remote, pending, timers, requests, state, at, overtaken>>
      /\ \A k \in Connections \ {c} : heard'[k] = heard[k] /\ joins'[k] = joins[k]
      /\ failures' \in {failures, failures + 1}
  BY <1>1, <1>0 DEF TypeOK, Answer, LoseAnswer, SocketFails, Fail, manager
<1>3. /\ Len(requests'[c]) = Len(requests[c])
      /\ Waiting(c)' \in {0, 1}
  BY <1>2 DEF Waiting, Count
<1> SUFFICES Earned(c)'
  BY <1>2, OthersEarned
<1>4. CASE Answer(c)
  <2>1. /\ joins'[c] = joins[c] - 1 /\ heard[c] = "nothing" /\ heard'[c] = "Subscribed"
        /\ failures' = failures
    BY <1>1, <1>4 DEF TypeOK, Answer
  <2>2. Subscribing(c)' = Subscribing(c) /\ MayAsk(c)' = MayAsk(c)
    BY <1>2, <2>1, <1>0 DEF Subscribing, MayAsk, Count
  <2>3. Waiting(c)' = 0
    BY <2>1 DEF Waiting, Count, Underway
  <2> QED  BY <1>0, <1>1, <1>3, <2>1, <2>2, <2>3 DEF Earned
<1>5. CASE LoseAnswer(c)
  <2>1. joins'[c] = joins[c] - 1 /\ heard' = heard /\ failures' = failures + 1
    BY <1>1, <1>5 DEF TypeOK, LoseAnswer, Fail
  <2>2. Subscribing(c)' = Subscribing(c) - 1 /\ MayAsk(c)' = MayAsk(c)
    BY <1>2, <2>1, <1>0 DEF Subscribing, MayAsk, Count
  <2> QED  BY <1>0, <1>1, <1>3, <2>1, <2>2 DEF Earned
<1>6. CASE SocketFails(c)
  <2>1. joins'[c] = 0 /\ heard[c] = "nothing" /\ heard'[c] = "Connecting" /\ failures' = failures + 1
    BY <1>1, <1>6 DEF TypeOK, SocketFails, Fail
  <2>2. Subscribing(c)' = Subscribing(c) - joins[c] /\ MayAsk(c)' <= MayAsk(c) + 1 /\ MayAsk(c)' \in Nat
    BY <1>2, <2>1, <1>0 DEF Subscribing, MayAsk, Count
  <2>3. Waiting(c)' <= Waiting(c) + joins[c]
    <3>1. CASE joins[c] = 0
      <4>1. Underway(c)' <=> Underway(c)
        BY <1>2, <2>1, <3>1 DEF Underway, Queued
      <4> QED  BY <1>2, <3>1, <4>1, <1>0 DEF Waiting, Count
    <3>2. CASE joins[c] > 0
      BY <1>3, <3>2, <1>0
    <3> QED  BY ONLY <1>0, <3>1, <3>2
  <2>4. Len(requests[c]) + Subscribing(c) + MayAsk(c) + Waiting(c) <= 1 + failures
    BY <1>1 DEF Earned
  <2>5. Len(requests'[c]) + Subscribing(c)' + MayAsk(c)' + Waiting(c)' <= 1 + failures'
    <3>1. PICK j, sub, may, len, failed \in Nat, wait \in {0, 1} :
             /\ j = joins[c] /\ sub = Subscribing(c) /\ may = MayAsk(c) /\ len = Len(requests[c])
             /\ failed = failures /\ wait = Waiting(c)
      BY <1>0
    <3>2. PICK wait2 \in {0, 1}, may2 \in Nat : wait2 = Waiting(c)' /\ may2 = MayAsk(c)'
      BY <1>3, <2>2
    <3>3. len + sub + may + wait <= 1 + failed /\ wait2 <= wait + j /\ may2 <= may + 1
      BY <2>2, <2>3, <2>4, <3>1, <3>2
    <3>4. len + (sub - j) + may2 + wait2 <= 1 + (failed + 1)
      BY <3>3
    <3> QED  BY <1>3, <2>1, <2>2, <3>1, <3>2, <3>4
  <2> QED  BY <2>5 DEF Earned
<1> QED  BY <1>4, <1>5, <1>6

\* The manager asks a connection to reconnect, as its timeout or a failure lets it.
LEMMA ReconnectEarned ==
  ASSUME Inv, BacklogInv, NEW c \in Connections, Timeout(c) \/ Disconnect(c)
  PROVE  BacklogInv'
<1>1. TypeOK /\ Sound(c) /\ Earned(c)
  BY DEF Inv, BacklogInv
<1>0. /\ Len(requests[c]) \in Nat /\ joins[c] \in Nat /\ failures \in Nat
      /\ Subscribing(c) \in Nat /\ MayAsk(c) \in Nat /\ Waiting(c) \in {0, 1}
  BY Numbers
<1>2. /\ requests' = [requests EXCEPT ![c] = Append(@, "Connecting")]
      /\ UNCHANGED <<remote, pending, state, at, heard, joins>>
      /\ failures' \in {failures, failures + 1}
      /\ \A k \in Connections \ {c} : (k \in timers' <=> k \in timers)
  BY DEF Timeout, Disconnect, Fail, NoFailure, manager, socket
<1> PICK q \in Seq({"Connecting", "Subscribed"}) : q = requests[c]
  BY <1>1 DEF TypeOK
<1>3. Len(requests'[c]) = Len(requests[c]) + 1
  BY <1>1, <1>2, QueueAppend DEF TypeOK
<1>4. Subscribing(c)' = Subscribing(c) /\ MayAsk(c)' = MayAsk(c)
  BY <1>2 DEF Subscribing, MayAsk
<1>5. Waiting(c)' \in {0, 1}
  BY DEF Waiting, Count
<1>6. Waiting(c)' + 1 <= Waiting(c) + (failures' - failures)
  <2>1. CASE Disconnect(c)
    <3>1. Underway(c) => Underway(c)'
      <4>1. Holds(q, "Subscribed") => Holds(Append(q, "Connecting"), "Subscribed")
        BY QueueAppend DEF Holds
      <4>2. requests'[c] = Append(q, "Connecting")
        BY <1>1, <1>2 DEF TypeOK
      <4> QED  BY <1>2, <4>1, <4>2 DEF Underway, Queued, Holds
    <3>2. Waiting(c)' <= Waiting(c) /\ failures' = failures + 1
      BY <2>1, <3>1 DEF Waiting, Count, Disconnect, manager, Fail
    <3> QED  BY ONLY <1>0, <1>5, <3>2
  <2>2. CASE Timeout(c)
    <3>1. Waiting(c)' = 0
      BY <2>2 DEF Waiting, Count, Timeout
    <3>2. CASE Underway(c)
      <4>1. failures' = failures + 1
        BY <2>2, <3>2 DEF Timeout, Fail
      <4> QED  BY <3>1, <4>1, <1>0
    <3>3. CASE ~Underway(c)
      <4>1. failures' = failures /\ Waiting(c) = 1
        BY <2>2, <3>3 DEF Timeout, NoFailure, Waiting, Count
      <4> QED  BY <3>1, <4>1, <1>0
    <3> QED  BY <3>2, <3>3
  <2> QED  BY <2>1, <2>2
<1>7. Earned(c)'
  BY <1>1, <1>2, <1>3, <1>4, <1>5, <1>6, <1>0 DEF Earned
<1> QED
  <2>1. \A k \in Connections \ {c} : requests'[k] = requests[k]
    BY <1>1, <1>2 DEF TypeOK
  <2> QED  BY <1>2, <1>7, <2>1, OthersEarned

\* What c tells is heard, and connections of P are asked: each could be asked,
\* and now is.
LEMMA DeliverEarned == ASSUME Inv, BacklogInv, NEW c \in Connections, Deliver(c) PROVE BacklogInv'
<1>1. TypeOK
  BY DEF Inv
<1> SUFFICES ASSUME NEW k \in Connections PROVE Earned(k)'
  BY DEF BacklogInv
<1>2. Sound(k) /\ Earned(k)
  BY DEF Inv, BacklogInv
<1>3. /\ Len(requests[k]) \in Nat /\ joins[k] \in Nat /\ failures \in Nat
      /\ Subscribing(k) \in Nat /\ MayAsk(k) \in Nat /\ Waiting(k) \in {0, 1}
  BY Numbers
<1> PICK q \in Seq({"Connecting", "Subscribed"}) : q = requests[k]
  BY <1>1 DEF TypeOK
<1>4. UNCHANGED <<state, heard, joins, failures>>
  BY Delivered
<1>5. ASSUME k # c PROVE at'[k] = at[k] /\ remote'[k] = remote[k]
  BY <1>5, Delivered
<1>6. CASE AsksToReconnect(c)
  <2>1. pending' = pending /\ timers' = timers
    BY <1>6 DEF AsksToReconnect
  <2>2. CASE k # c
    <3>1. requests'[k] = requests[k]
      BY <1>1, <1>6, <2>2 DEF AsksToReconnect, TypeOK
    <3>2. /\ Len(requests'[k]) = Len(requests[k]) /\ Subscribing(k)' = Subscribing(k) /\ MayAsk(k)' = MayAsk(k)
      BY <1>4, <1>5, <2>1, <2>2, <3>1 DEF Subscribing, MayAsk
    <3>3. Waiting(k)' = Waiting(k)
      BY <1>4, <2>1, <3>1 DEF Waiting, Underway, Queued
    <3> QED  BY <1>2, <1>4, <3>2, <3>3 DEF Earned
  <2>3. CASE k = c
    <3>1. requests'[k] = Append(q, "Connecting")
      BY <1>1, <1>6, <2>3 DEF AsksToReconnect, TypeOK
    <3>2. Len(requests'[k]) = Len(requests[k]) + 1
      BY <3>1, QueueAppend
    <3>3. state[k] = "Subscribed" /\ at[k] = "telling" /\ at'[k] = "loop" /\ remote'[k] = "Subscribed"
      BY <1>6, <2>3, Delivered DEF AsksToReconnect
    <3>4. Subscribing(k)' + 1 = Subscribing(k) /\ Subscribing(k)' \in Nat
      BY <1>3, <1>4, <3>3 DEF Subscribing, Count
    <3>5. MayAsk(k)' <= MayAsk(k) /\ MayAsk(k)' \in Nat
      BY <1>4, <3>3 DEF MayAsk, Count
    <3>6. Waiting(k)' = 0
      BY <1>4, <3>3 DEF Waiting, Count, Underway
    <3> QED  BY <1>2, <1>3, <1>4, <3>2, <3>4, <3>5, <3>6 DEF Earned
  <2> QED  BY <2>2, <2>3
<1>7. CASE \E P \in SUBSET Spare(c) : Asks(c, P)
  <2> PICK P \in SUBSET Connections : P \in SUBSET Spare(c) /\ Asks(c, P)
    BY <1>7 DEF Spare, InState
  <2>1. /\ requests'[k] = IF k \in P THEN Append(q, "Subscribed") ELSE q
        /\ k \in pending' <=> (k \in pending /\ k # c) \/ k \in P
        /\ k \in timers' <=> (k \in timers /\ k # c) \/ k \in P
    BY DEF Asks
  <2>2. k \in P => remote'[k] = "Connected" /\ (k \in pending => k = c)
    BY DEF Spare, InState, PendingAfter
  <2>3. k \in P => Len(requests'[k]) = Len(requests[k]) + 1 /\ Waiting(k)' = 0
    <3>1. k \in P => Queued(k, "Subscribed")'
      BY <2>1, QueueAppend DEF Queued
    <3> QED  BY <2>1, <3>1, QueueAppend DEF Waiting, Count, Underway
  <2>4. k \notin P => requests'[k] = requests[k]
    BY <2>1
  <2>5. CASE k # c
    <3>1. Subscribing(k)' = Subscribing(k)
      BY <1>4, <1>5, <2>5 DEF Subscribing
    <3>2. CASE k \in P
      <4>1. MayAsk(k)' + 1 = MayAsk(k) /\ MayAsk(k)' \in Nat
        BY <1>4, <1>5, <2>1, <2>2, <2>5, <3>2 DEF MayAsk, Count
      <4> QED  BY <1>2, <1>3, <1>4, <2>3, <3>1, <3>2, <4>1 DEF Earned
    <3>3. CASE k \notin P
      <4>1. MayAsk(k)' = MayAsk(k)
        BY <1>4, <1>5, <2>1, <2>5, <3>3 DEF MayAsk, Count
      <4>2. Waiting(k)' = Waiting(k)
        BY <1>4, <2>1, <2>4, <2>5, <3>3 DEF Waiting, Underway, Queued, Count
      <4> QED  BY <1>2, <1>4, <2>4, <3>1, <3>3, <4>1, <4>2 DEF Earned
    <3> QED  BY <3>2, <3>3
  <2>6. CASE k = c
    <3>1. /\ at[k] = "telling" /\ at'[k] = (IF state[k] = "Connecting" THEN "dialing" ELSE "loop")
          /\ remote'[k] = state[k]
      BY <2>6, Delivered
    <3>2. k \notin P => Waiting(k)' = 0
      BY <2>1, <2>6 DEF Waiting, Count
    <3>3. CASE state[k] = "Connecting"
      <4>1. k \notin P
        BY <2>2, <3>1, <3>3
      <4>2. Subscribing(k)' = Subscribing(k) /\ MayAsk(k)' <= MayAsk(k) /\ MayAsk(k)' \in Nat
        BY <1>4, <3>1, <3>3 DEF Subscribing, MayAsk, Count
      <4> QED  BY <1>2, <1>3, <1>4, <2>4, <3>2, <4>1, <4>2 DEF Earned
    <3>4. CASE state[k] = "Connected"
      <4>1. Subscribing(k)' = Subscribing(k)
        BY <1>4, <3>1, <3>4 DEF Subscribing, Count
      <4>2. remote[k] = "Connecting" /\ heard[k] = "nothing"
        BY <1>1, <1>2, <3>1, <3>4 DEF Sound, TypeOK
      <4>3. MayAsk(k) = 1 /\ MayAsk(k)' = IF k \in P THEN 0 ELSE 1
        BY <1>4, <2>1, <2>6, <3>1, <3>4, <4>2 DEF MayAsk, Count
      <4> QED  BY <1>2, <1>3, <1>4, <2>3, <2>4, <3>2, <4>1, <4>3 DEF Earned
    <3>5. CASE state[k] = "Subscribed"
      <4>1. k \notin P
        BY <2>2, <3>1, <3>5
      <4>2. Subscribing(k)' + 1 = Subscribing(k) /\ Subscribing(k)' \in Nat
        BY <1>3, <1>4, <3>1, <3>5 DEF Subscribing, Count
      <4>3. MayAsk(k)' <= MayAsk(k) /\ MayAsk(k)' \in Nat
        BY <1>4, <3>1, <3>5 DEF MayAsk, Count
      <4> QED  BY <1>2, <1>3, <1>4, <2>4, <3>2, <4>1, <4>2, <4>3 DEF Earned
    <3> QED  BY <1>1, <3>3, <3>4, <3>5 DEF TypeOK, States
  <2> QED  BY <2>5, <2>6
<1> QED  BY <1>6, <1>7, Delivered

LEMMA NextBacklog == Inv /\ BacklogInv /\ [Next]_vars => BacklogInv'
<1> SUFFICES ASSUME Inv, BacklogInv, [Next]_vars PROVE BacklogInv'
  OBVIOUS
<1>1. CASE UNCHANGED vars
  <2>1. UNCHANGED <<remote, pending, timers, requests, state, at, heard, joins, failures>>
    BY <1>1 DEF vars, manager, socket
  <2> QED  BY <2>1 DEF BacklogInv, Earned, Subscribing, MayAsk, Waiting, Underway, Queued
<1>2. ASSUME NEW c \in Connections, Start(c) PROVE BacklogInv'
  BY <1>2, NewListenerEarned DEF Start
<1>3. ASSUME NEW c \in Connections, Silence(c) PROVE BacklogInv'
  BY <1>3, NewListenerEarned DEF Silence, Fail
<1> QED
  BY <1>1, <1>2, <1>3, DialEarned, ReadRequestEarned, ReadListenerEarned, SocketEarned, ReconnectEarned,
     DeliverEarned DEF Next

-----------------------------------------------------------------------------
(* The number of subscribers.                                              *)

\* How many requests to subscribe are in a queue.
Places(queue) == {i \in DOMAIN queue : queue[i] = "Subscribed"}
Number(queue) == Cardinality(Places(queue))

\* The subscriptions that may come of a connection, but for the one that the
\* manager waits for.
Overdue(c) == Number(requests[c]) + Subscribing(c) - Count(c \in pending)

\* A sum over the connections, as a set: f[c] elements for each c.
Pairs(f) == UNION {{c} \X (1 .. f[c]) : c \in Connections}

Owed == [c \in Connections |-> Overdue(c)]

Counted == InState(remote, "Subscribed") \cup pending

\* Each subscription that comes on top of those that the manager waits for was
\* overtaken, and accounts for one subscriber too many.
ExcessInv ==
    /\ Cardinality(Pairs(Owed)) <= overtaken
    /\ Cardinality(Counted) + Cardinality(Pairs(Owed)) <= MaxSubscribers + overtaken

LEMMA NumberType ==
  ASSUME NEW q \in Seq({"Connecting", "Subscribed"})
  PROVE  /\ IsFiniteSet(Places(q)) /\ Number(q) \in Nat
         /\ ~Holds(q, "Subscribed") => Number(q) = 0
<1>1. IsFiniteSet(1 .. Len(q))
  BY FS_Interval
<1>2. Places(q) \in SUBSET (1 .. Len(q))
  BY DEF Places
<1>3. IsFiniteSet(Places(q))
  BY <1>1, <1>2, FS_Subset
<1>4. ~Holds(q, "Subscribed") => Places(q) = {}
  BY DEF Holds, Places
<1> QED  BY <1>3, <1>4, FS_CardinalityType, FS_EmptySet DEF Number

LEMMA NumberAppend ==
  ASSUME NEW q \in Seq({"Connecting", "Subscribed"})
  PROVE  /\ Number(Append(q, "Subscribed")) <= Number(q) + 1
         /\ Number(Append(q, "Connecting")) <= Number(q)
<1>1. Places(Append(q, "Subscribed")) = Places(q) \cup {Len(q) + 1}
  BY QueueAppend DEF Places
<1>2. Places(Append(q, "Connecting")) = Places(q)
  BY QueueAppend DEF Places
<1>3. IsFiniteSet(Places(q)) /\ Number(q) \in Nat
  BY NumberType
<1>4. Number(Append(q, "Connecting")) = Number(q)
  BY <1>2 DEF Number
<1>5. Number(Append(q, "Subscribed")) \in {Number(q), Number(q) + 1}
  BY <1>1, <1>3, FS_AddElement DEF Number
<1> QED  BY <1>3, <1>4, <1>5

LEMMA NumberTail ==
  ASSUME NEW q \in Seq({"Connecting", "Subscribed"}), q # <<>>
  PROVE  /\ Number(Tail(q)) <= Number(q)
         /\ Head(q) = "Subscribed" => Number(Tail(q)) <= Number(q) - 1
<1> DEFINE S == Places(Tail(q))
           T == Places(q) \ {1}
           f == [i \in S |-> i + 1]
<1>1. \A i \in S : i \in Nat \ {0} /\ i + 1 \in T
  BY QueueTail DEF Places
<1>2. f \in Injection(S, T)
  BY <1>1 DEF Injection, IsInjective
<1>3. /\ IsFiniteSet(T)
      /\ Cardinality(T) = IF 1 \in Places(q) THEN Number(q) - 1 ELSE Number(q)
  BY NumberType, FS_RemoveElement DEF Number
<1>4. Cardinality(S) <= Cardinality(T)
  <2> HIDE DEF S, T, f
  <2> QED  BY <1>2, <1>3, FS_Injection
<1>5. Head(q) = "Subscribed" => 1 \in Places(q)
  BY QueueTail DEF Places
<1>6. Number(Tail(q)) \in Nat /\ Number(q) \in Nat
  BY QueueTail, NumberType
<1> QED  BY <1>3, <1>4, <1>5, <1>6 DEF Number

LEMMA PairsMember ==
  ASSUME NEW f, NEW p
  PROVE  p \in Pairs(f) <=> \E c \in Connections : \E i \in 1 .. f[c] : p = <<c, i>>
  BY DEF Pairs

LEMMA PairsFinite ==
  ASSUME NEW f \in [Connections -> Int]
  PROVE  IsFiniteSet(Pairs(f)) /\ Cardinality(Pairs(f)) \in Nat
<1> DEFINE D == {{c} \X (1 .. f[c]) : c \in Connections}
           g == [c \in Connections |-> {c} \X (1 .. f[c])]
<1>1. g \in Surjection(Connections, D)
  BY DEF Surjection
<1>2. IsFiniteSet(D)
  <2> HIDE DEF D, g
  <2> QED  BY <1>1, FS_Surjection, OpenSeaStreamerAssumption
<1>3. \A X \in D : IsFiniteSet(X)
  <2> SUFFICES ASSUME NEW c \in Connections PROVE IsFiniteSet({c} \X (1 .. f[c]))
    OBVIOUS
  <2> PICK a, n \in Int : a = 1 /\ n = f[c]
    OBVIOUS
  <2>1. IsFiniteSet({c}) /\ IsFiniteSet(a .. n)
    BY FS_Singleton, FS_Interval
  <2> QED  BY <2>1, FS_Product
<1>4. IsFiniteSet(UNION D)
  <2> HIDE DEF D
  <2> QED  BY <1>2, <1>3, FS_UNION
<1> QED  BY <1>4, FS_CardinalityType DEF Pairs

\* No sum grows if no part of it does.
LEMMA PairsKept ==
  ASSUME NEW f \in [Connections -> Int], NEW g \in [Connections -> Int],
         \A k \in Connections : g[k] <= f[k] \/ g[k] <= 0
  PROVE  Cardinality(Pairs(g)) <= Cardinality(Pairs(f))
<1>1. Pairs(g) \in SUBSET Pairs(f)
  <2> SUFFICES ASSUME NEW c \in Connections, NEW i \in 1 .. g[c] PROVE <<c, i>> \in Pairs(f)
    BY PairsMember
  <2>1. i \in 1 .. f[c]
    OBVIOUS
  <2> QED  BY <2>1, PairsMember
<1> QED  BY <1>1, PairsFinite, FS_Subset

LEMMA PairsOneMore ==
  ASSUME NEW f \in [Connections -> Int], NEW g \in [Connections -> Int], NEW c \in Connections,
         \A k \in Connections \ {c} : g[k] <= f[k], g[c] <= f[c] + 1
  PROVE  Cardinality(Pairs(g)) <= Cardinality(Pairs(f)) + 1
<1>1. Pairs(g) \in SUBSET (Pairs(f) \cup {<<c, g[c]>>})
  <2> SUFFICES ASSUME NEW k \in Connections, NEW i \in 1 .. g[k], <<k, i>> # <<c, g[c]>>
               PROVE  <<k, i>> \in Pairs(f)
    BY PairsMember
  <2>1. i \in 1 .. f[k]
    OBVIOUS
  <2> QED  BY <2>1, PairsMember
<1> PICK S : S = Pairs(f) \cup {<<c, g[c]>>}
  OBVIOUS
<1>2. IsFiniteSet(Pairs(f)) /\ Cardinality(Pairs(f)) \in Nat
  BY PairsFinite
<1>3. IsFiniteSet(S) /\ Cardinality(S) \in {Cardinality(Pairs(f)), Cardinality(Pairs(f)) + 1}
  BY <1>2, FS_AddElement
<1>4. Cardinality(Pairs(g)) <= Cardinality(S)
  BY <1>1, <1>3, FS_Subset
<1>5. Cardinality(Pairs(g)) \in Nat
  BY PairsFinite
<1> QED  BY <1>2, <1>3, <1>4, <1>5

LEMMA PairsOneLess ==
  ASSUME NEW f \in [Connections -> Int], NEW g \in [Connections -> Int], NEW c \in Connections,
         \A k \in Connections \ {c} : g[k] <= f[k], g[c] <= f[c] - 1, f[c] >= 1
  PROVE  Cardinality(Pairs(g)) <= Cardinality(Pairs(f)) - 1
<1>1. Pairs(g) \in SUBSET (Pairs(f) \ {<<c, f[c]>>})
  <2> SUFFICES ASSUME NEW k \in Connections, NEW i \in 1 .. g[k]
               PROVE  <<k, i>> \in Pairs(f) /\ <<k, i>> # <<c, f[c]>>
    BY PairsMember
  <2>1. i \in 1 .. f[k] /\ (k = c => i # f[c])
    OBVIOUS
  <2> QED  BY <2>1, PairsMember
<1>2. <<c, f[c]>> \in Pairs(f)
  BY PairsMember
<1>3. /\ IsFiniteSet(Pairs(f) \ {<<c, f[c]>>})
      /\ Cardinality(Pairs(f) \ {<<c, f[c]>>}) = Cardinality(Pairs(f)) - 1
  BY <1>2, PairsFinite, FS_RemoveElement
<1>4. Cardinality(Pairs(g)) <= Cardinality(Pairs(f) \ {<<c, f[c]>>})
  BY <1>1, <1>3, FS_Subset
<1> QED  BY <1>3, <1>4

LEMMA OwedType ==
  ASSUME Inv
  PROVE  /\ Owed \in [Connections -> Int] /\ \A k \in Connections : Owed[k] = Overdue(k)
         /\ \A k \in Connections :
               /\ Number(requests[k]) \in Nat /\ Subscribing(k) \in Nat /\ Count(k \in pending) \in {0, 1}
               /\ Overdue(k) \in Int
<1> SUFFICES ASSUME NEW k \in Connections
             PROVE  /\ Number(requests[k]) \in Nat /\ Subscribing(k) \in Nat /\ Count(k \in pending) \in {0, 1}
                    /\ Overdue(k) \in Int
  BY DEF Owed
<1>1. requests[k] \in Seq({"Connecting", "Subscribed"})
  BY DEF Inv, TypeOK
<1>2. Number(requests[k]) \in Nat /\ Subscribing(k) \in Nat /\ Count(k \in pending) \in {0, 1}
  BY <1>1, NumberType, Numbers DEF Count
<1> QED  BY <1>2 DEF Overdue

LEMMA OwedFunction ==
  Inv => (Owed \in [Connections -> Int] /\ \A k \in Connections : Owed[k] = Overdue(k))
  BY OwedType

\* The numbers before and after a step, as two functions.
LEMMA OwedFunctions ==
  ASSUME Inv, Inv'
  PROVE  \E f, g \in [Connections -> Int] :
            /\ f = Owed /\ g = Owed'
            /\ \A k \in Connections : f[k] = Overdue(k) /\ g[k] = Overdue(k)'
<1>1. Owed \in [Connections -> Int] /\ \A k \in Connections : Owed[k] = Overdue(k)
  BY OwedType
<1>2. (Owed \in [Connections -> Int] /\ \A k \in Connections : Owed[k] = Overdue(k))'
  BY OwedFunction, PTL
<1> QED  BY <1>1, <1>2

LEMMA CountedFinite ==
  ASSUME Inv
  PROVE  IsFiniteSet(Counted) /\ Cardinality(Counted) \in Nat
<1>1. Counted \in SUBSET Connections
  BY DEF Inv, TypeOK, Counted, InState
<1> QED  BY <1>1, FS_Subset, FS_CardinalityType, OpenSeaStreamerAssumption

LEMMA InitExcess == Init => SpareIsAsked /\ ExcessInv
<1> SUFFICES ASSUME Init PROVE SpareIsAsked /\ ExcessInv
  OBVIOUS
<1>1. InState(remote, "Subscribed") = {} /\ InState(remote, "Connected") = {} /\ pending = {}
  BY DEF Init, InState
<1>2. \A k \in Connections : Overdue(k) = 0
  <2>1. Places(<<>>) = {}
    BY DEF Places
  <2>2. Number(<<>>) = 0
    BY <2>1, FS_EmptySet DEF Number
  <2>3. \A k \in Connections : requests[k] = <<>> /\ Subscribing(k) = 0 /\ Count(k \in pending) = 0
    BY DEF Init, Subscribing, Count
  <2> QED  BY <2>2, <2>3 DEF Overdue
<1>3. Pairs(Owed) = {}
  BY <1>2 DEF Pairs, Owed
<1> QED  BY <1>1, <1>3, FS_EmptySet, OpenSeaStreamerAssumption DEF SpareIsAsked, ExcessInv, Counted, Init

\* A step that the manager does not see.
LEMMA OwedKept ==
  ASSUME Inv, Inv', SpareIsAsked, ExcessInv, UNCHANGED <<remote, pending, overtaken>>,
         NEW c \in Connections, Overdue(c)' <= Overdue(c),
         \A k \in Connections \ {c} :
            /\ requests'[k] = requests[k] /\ state'[k] = state[k] /\ at'[k] = at[k]
            /\ heard'[k] = heard[k] /\ joins'[k] = joins[k]
  PROVE  SpareIsAsked' /\ ExcessInv'
<1>1. PICK f, g \in [Connections -> Int] :
         /\ f = Owed /\ g = Owed'
         /\ \A k \in Connections : f[k] = Overdue(k) /\ g[k] = Overdue(k)'
  BY OwedFunctions
<1>2. \A k \in Connections : g[k] <= f[k]
  <2> SUFFICES ASSUME NEW k \in Connections \ {c} PROVE g[k] <= f[k]
    BY <1>1
  <2>1. Overdue(k)' = Overdue(k)
    BY DEF Overdue, Subscribing
  <2> QED  BY <1>1, <2>1
<1>3. Cardinality(Pairs(g)) <= Cardinality(Pairs(f))
  BY <1>2, PairsKept
<1>4. SpareIsAsked'
  BY DEF SpareIsAsked, InState
<1>5. Counted' = Counted
  BY DEF Counted, InState
<1>6. Cardinality(Pairs(f)) \in Nat /\ Cardinality(Pairs(g)) \in Nat /\ Cardinality(Counted) \in Nat
      /\ overtaken \in Nat /\ MaxSubscribers \in Nat
  BY PairsFinite, CountedFinite, OpenSeaStreamerAssumption DEF Inv, TypeOK
<1>7. Cardinality(Pairs(g)) <= overtaken /\ Cardinality(Counted) + Cardinality(Pairs(g)) <= MaxSubscribers + overtaken
  BY <1>1, <1>3, <1>6 DEF ExcessInv
<1> QED  BY <1>1, <1>4, <1>5, <1>7 DEF ExcessInv

LEMMA NewListenerOwed ==
  ASSUME Inv, Inv', SpareIsAsked, ExcessInv, NEW c \in Connections, NEW queue,
         StartNewListener(c, queue), UNCHANGED manager,
         queue = requests[c] \/ (requests[c] # <<>> /\ queue = Tail(requests[c]))
  PROVE  SpareIsAsked' /\ ExcessInv'
<1>1. /\ requests'[c] = queue /\ state'[c] = "Connecting" /\ at'[c] = "telling" /\ heard'[c] = "nothing"
      /\ joins'[c] = 0 /\ UNCHANGED <<remote, pending, overtaken>>
      /\ \A k \in Connections \ {c} :
            /\ requests'[k] = requests[k] /\ state'[k] = state[k] /\ at'[k] = at[k]
            /\ heard'[k] = heard[k] /\ joins'[k] = joins[k]
  BY DEF Inv, TypeOK, StartNewListener, HeardAnew, SetState, manager
<1> PICK q \in Seq({"Connecting", "Subscribed"}) : q = requests[c]
  BY DEF Inv, TypeOK
<1>2. Number(queue) <= Number(q) /\ Number(queue) \in Nat /\ Number(q) \in Nat
  <2>1. Number(q) \in Nat
    BY NumberType
  <2>2. CASE q # <<>> /\ queue = Tail(q)
    <3>1. Tail(q) \in Seq({"Connecting", "Subscribed"})
      BY <2>2, QueueTail
    <3> QED  BY <2>1, <2>2, <3>1, NumberTail, NumberType
  <2> QED  BY <2>1, <2>2
<1>3. Subscribing(c)' = 0 /\ Subscribing(c) \in Nat /\ Count(c \in pending)' = Count(c \in pending)
      /\ Count(c \in pending) \in {0, 1}
  BY <1>1, OwedType DEF Subscribing, Count
<1>4. Overdue(c)' <= Overdue(c)
  <2>1. Overdue(c)' = Number(queue) + 0 - Count(c \in pending)
    BY <1>1, <1>3 DEF Overdue
  <2>2. Overdue(c) = Number(q) + Subscribing(c) - Count(c \in pending)
    BY DEF Overdue
  <2> QED  BY <1>2, <1>3, <2>1, <2>2
<1> QED  BY <1>1, <1>4, OwedKept

\* A request to subscribe leaves the queue, and becomes a join at most.
LEMMA RequestOwed ==
  ASSUME Inv, Inv', SpareIsAsked, ExcessInv, NEW c \in Connections, UNCHANGED manager,
         requests[c] # <<>>, Head(requests[c]) = "Subscribed", SendJoin(c) \/ Ignore(c)
  PROVE  SpareIsAsked' /\ ExcessInv'
<1>1. /\ requests'[c] = Tail(requests[c]) /\ joins'[c] \in {joins[c], joins[c] + 1}
      /\ UNCHANGED <<remote, pending, overtaken, state, at, heard>>
      /\ \A k \in Connections \ {c} : requests'[k] = requests[k] /\ joins'[k] = joins[k]
  BY DEF Inv, TypeOK, SendJoin, Ignore, manager, socket
<1> PICK q \in Seq({"Connecting", "Subscribed"}) : q = requests[c]
  BY DEF Inv, TypeOK
<1>2. Number(Tail(q)) <= Number(q) - 1 /\ Number(Tail(q)) \in Nat /\ Number(q) \in Nat
  BY QueueTail, NumberTail, NumberType
<1>3. Subscribing(c)' \in {Subscribing(c), Subscribing(c) + 1} /\ Subscribing(c) \in Nat
      /\ Count(c \in pending) \in {0, 1}
  BY <1>1, OwedType, Numbers DEF Subscribing, Count
<1>4. Overdue(c)' <= Overdue(c)
  <2>1. Overdue(c)' = Number(Tail(q)) + Subscribing(c)' - Count(c \in pending)
    BY <1>1 DEF Overdue
  <2>2. Overdue(c) = Number(q) + Subscribing(c) - Count(c \in pending)
    BY DEF Overdue
  <2> QED  BY <1>2, <1>3, <2>1, <2>2
<1> QED  BY <1>1, <1>4, OwedKept

\* The connection goes on, or its listener hears something or nothing more.
LEMMA ConnectionOwed ==
  ASSUME Inv, Inv', SpareIsAsked, ExcessInv, NEW c \in Connections,
         \/ Dial(c) \/ Answer(c) \/ LoseAnswer(c) \/ SocketFails(c)
         \/ ReadListener(c) /\ heard[c] = "Subscribed"
  PROVE  SpareIsAsked' /\ ExcessInv'
<1>1. /\ UNCHANGED <<requests, remote, pending, overtaken>>
      /\ \A k \in Connections \ {c} :
            state'[k] = state[k] /\ at'[k] = at[k] /\ heard'[k] = heard[k] /\ joins'[k] = joins[k]
  BY DEF Inv, TypeOK, Dial, Answer, LoseAnswer, SocketFails, ReadListener, SetState, manager, socket
<1>2. Subscribing(c)' <= Subscribing(c) /\ Subscribing(c)' \in Nat /\ Subscribing(c) \in Nat
  <2>1. joins[c] \in Nat /\ Sound(c)
    BY Numbers DEF Inv
  <2>2. CASE Dial(c)
    <3>1. at[c] = "dialing" /\ at'[c] = "telling" /\ state'[c] = "Connected" /\ UNCHANGED <<heard, joins>>
      BY <2>2 DEF Inv, TypeOK, Dial, SetState, socket
    <3> QED  BY <2>1, <3>1 DEF Subscribing, Count
  <2>3. CASE Answer(c)
    <3>1. /\ joins[c] > 0 /\ joins'[c] = joins[c] - 1 /\ heard[c] = "nothing" /\ heard'[c] = "Subscribed"
          /\ UNCHANGED <<state, at>>
      BY <2>3 DEF Inv, TypeOK, Answer
    <3> QED  BY <2>1, <3>1 DEF Subscribing, Count
  <2>4. CASE LoseAnswer(c)
    <3>1. joins[c] > 0 /\ joins'[c] = joins[c] - 1 /\ UNCHANGED <<state, at, heard>>
      BY <2>4 DEF Inv, TypeOK, LoseAnswer
    <3> QED  BY <2>1, <3>1 DEF Subscribing, Count
  <2>5. CASE SocketFails(c)
    <3>1. joins'[c] = 0 /\ heard[c] = "nothing" /\ heard'[c] = "Connecting" /\ UNCHANGED <<state, at>>
      BY <2>5 DEF Inv, TypeOK, SocketFails
    <3> QED  BY <2>1, <3>1 DEF Subscribing, Count
  <2>6. CASE ReadListener(c) /\ heard[c] = "Subscribed"
    <3>1. /\ at[c] = "loop" /\ at'[c] = "telling" /\ state'[c] = "Subscribed" /\ heard'[c] = "nothing"
          /\ UNCHANGED joins
      BY <2>6 DEF Inv, TypeOK, ReadListener, SetState
    <3> QED  BY <2>1, <2>6, <3>1 DEF Subscribing, Count
  <2> QED  BY <2>2, <2>3, <2>4, <2>5, <2>6
<1>3. Overdue(c)' <= Overdue(c)
  <2>1. Number(requests[c]) \in Nat /\ Count(c \in pending) \in {0, 1}
    BY OwedType
  <2>2. Overdue(c)' = Number(requests[c]) + Subscribing(c)' - Count(c \in pending)
    BY <1>1 DEF Overdue
  <2>3. Overdue(c) = Number(requests[c]) + Subscribing(c) - Count(c \in pending)
    BY DEF Overdue
  <2> QED  BY <1>2, <2>1, <2>2, <2>3
<1> QED  BY <1>1, <1>3, OwedKept

LEMMA ReconnectOwed ==
  ASSUME Inv, Inv', SpareIsAsked, ExcessInv, NEW c \in Connections, Timeout(c) \/ Disconnect(c)
  PROVE  SpareIsAsked' /\ ExcessInv'
<1>1. /\ requests' = [requests EXCEPT ![c] = Append(@, "Connecting")]
      /\ UNCHANGED <<remote, pending, state, at, heard, joins, overtaken>>
  BY DEF Timeout, Disconnect, manager, socket
<1> PICK q \in Seq({"Connecting", "Subscribed"}) : q = requests[c]
  BY DEF Inv, TypeOK
<1>2. /\ requests'[c] = Append(q, "Connecting")
      /\ \A k \in Connections \ {c} : requests'[k] = requests[k]
  BY <1>1 DEF Inv, TypeOK
<1>3. Overdue(c)' <= Overdue(c)
  <2>1. Overdue(c)' = Number(Append(q, "Connecting")) + Subscribing(c) - Count(c \in pending)
    BY <1>1, <1>2 DEF Overdue, Subscribing
  <2>2. Overdue(c) = Number(q) + Subscribing(c) - Count(c \in pending)
    BY DEF Overdue
  <2>3. Subscribing(c) \in Nat /\ Count(c \in pending) \in {0, 1} /\ Number(q) \in Nat
        /\ Number(Append(q, "Connecting")) \in Nat
    BY OwedType, QueueAppend, NumberType
  <2>4. Number(Append(q, "Connecting")) <= Number(q)
    BY NumberAppend
  <2> QED  BY <2>1, <2>2, <2>3, <2>4
<1> QED  BY <1>1, <1>2, <1>3, OwedKept

\* Disjoint sets of connections are counted one by one.
LEMMA ThreeSets ==
  ASSUME NEW S \in SUBSET Connections, NEW T \in SUBSET Connections, NEW P \in SUBSET Connections,
         S \cap T = {}, S \cap P = {}, T \cap P = {}
  PROVE  /\ Cardinality(S) \in Nat /\ Cardinality(T) \in Nat /\ Cardinality(P) \in Nat
         /\ Cardinality(S \cup (T \cup P)) = Cardinality(S) + Cardinality(T) + Cardinality(P)
<1>1. IsFiniteSet(S) /\ IsFiniteSet(T) /\ IsFiniteSet(P)
  BY FS_Subset, OpenSeaStreamerAssumption
<1>2. Cardinality(S) \in Nat /\ Cardinality(T) \in Nat /\ Cardinality(P) \in Nat
  BY <1>1, FS_CardinalityType
<1>3. PICK R : R = T \cup P
  OBVIOUS
<1>4. Cardinality(T \cap P) = 0 /\ Cardinality(S \cap R) = 0
  <2>1. T \cap P = {} /\ S \cap R = {}
    BY <1>3
  <2> QED  BY <2>1, FS_EmptySet
<1>5. IsFiniteSet(R) /\ Cardinality(R) = Cardinality(T) + Cardinality(P) - Cardinality(T \cap P)
  BY <1>1, <1>3, FS_Union
<1>6. Cardinality(S \cup R) = Cardinality(S) + Cardinality(R) - Cardinality(S \cap R)
  BY <1>1, <1>5, FS_Union
<1> QED  BY <1>2, <1>3, <1>4, <1>5, <1>6

\* What is owed changes with what c tells.
LEMMA DeliverOwed ==
  ASSUME Inv, Inv', NEW c \in Connections, Deliver(c)
  PROVE  /\ \A k \in Connections \ {c} : Overdue(k)' <= Overdue(k)
         /\ state[c] # "Connecting" => Overdue(c)' <= Overdue(c)
         /\ state[c] = "Connecting" =>
               \/ Overdue(c)' <= Overdue(c) /\ overtaken' = overtaken
               \/ Overdue(c)' <= 0 /\ overtaken' = overtaken
               \/ Overdue(c)' <= Overdue(c) + 1 /\ overtaken' = overtaken + 1
         /\ state[c] # "Connecting" => overtaken' = overtaken
         /\ state[c] = "Subscribed" /\ c \notin pending =>
               Overdue(c)' <= Overdue(c) - 1 /\ Overdue(c) >= 1
<1>1. TypeOK /\ Sound(c)
  BY DEF Inv
<1>2. overtaken' = IF state[c] = "Connecting" /\ c \in pending /\ Queued(c, "Subscribed")
                   THEN overtaken + 1 ELSE overtaken
  BY DEF Deliver
<1>3. UNCHANGED <<state, heard, joins>> /\ at[c] = "telling" /\ at'[c] # "telling" /\ remote'[c] = state[c]
  BY Delivered
<1>4. ASSUME NEW k \in Connections
      PROVE  /\ Overdue(k) = Number(requests[k]) + Subscribing(k) - Count(k \in pending)
             /\ Overdue(k)' = Number(requests'[k]) + Subscribing(k)' - Count(k \in pending')
             /\ Number(requests[k]) \in Nat /\ Subscribing(k) \in Nat /\ Count(k \in pending) \in {0, 1}
             /\ Number(requests'[k]) \in Nat /\ Count(k \in pending') \in {0, 1}
  <2>1. requests'[k] \in Seq({"Connecting", "Subscribed"})
    BY DEF Inv, TypeOK
  <2> QED  BY <2>1, OwedType, NumberType DEF Overdue, Count
<1>5. \A k \in Connections \ {c} : Subscribing(k)' = Subscribing(k)
  BY <1>3, Delivered DEF Subscribing
<1>6. Subscribing(c)' = IF state[c] = "Subscribed" THEN Subscribing(c) - 1 ELSE Subscribing(c)
  BY <1>3, Numbers DEF Subscribing, Count
<1>7. CASE AsksToReconnect(c)
  <2> PICK q \in Seq({"Connecting", "Subscribed"}) : q = requests[c]
    BY <1>1 DEF TypeOK
  <2>1. /\ state[c] = "Subscribed" /\ remote[c] = "Subscribed" /\ pending' = pending
        /\ requests'[c] = Append(q, "Connecting")
        /\ \A k \in Connections \ {c} : requests'[k] = requests[k]
    BY <1>1, <1>7 DEF AsksToReconnect, TypeOK
  <2>2. Number(requests'[c]) <= Number(requests[c])
    BY <2>1, NumberAppend
  <2>3. Subscribing(c) >= 1
    BY <1>3, <2>1, Numbers DEF Subscribing, Count
  <2>4. \A k \in Connections \ {c} : Overdue(k)' <= Overdue(k)
    BY <1>4, <1>5, <2>1
  <2>5. c \notin pending /\ Count(c \in pending) = 0
    BY <1>1, <2>1 DEF Sound, Count
  <2>6. Overdue(c)' <= Overdue(c) - 1 /\ Overdue(c) >= 1 /\ Overdue(c) \in Int /\ Overdue(c)' \in Int
    <3>1. PICK n, m, sub \in Nat : n = Number(requests[c]) /\ m = Number(requests'[c]) /\ sub = Subscribing(c)
      BY <1>4
    <3>2. Overdue(c) = n + sub - 0 /\ Overdue(c)' = m + (sub - 1) - 0
      BY <1>4, <1>6, <2>1, <2>5, <3>1
    <3>3. m <= n /\ sub >= 1
      BY <2>2, <2>3, <3>1
    <3> QED  BY <3>2, <3>3
  <2> QED  BY <1>2, <2>1, <2>4, <2>6
<1>8. CASE \E P \in SUBSET Spare(c) : Asks(c, P)
  <2> PICK P \in SUBSET Connections : P \in SUBSET Spare(c) /\ Asks(c, P)
    BY <1>8 DEF Spare, InState
  <2>1. ASSUME NEW k \in Connections
        PROVE  /\ k \notin P => requests'[k] = requests[k]
               /\ k \in P => Number(requests'[k]) <= Number(requests[k]) + 1
               /\ k \in P => remote'[k] = "Connected" /\ k \in pending' /\ (k \in pending => k = c)
               /\ k \in pending' <=> (k \in pending /\ k # c) \/ k \in P
    <3>1. requests[k] \in Seq({"Connecting", "Subscribed"})
      BY <1>1 DEF TypeOK
    <3> QED  BY <3>1, NumberAppend DEF Asks, Spare, InState, PendingAfter
  <2>2. ASSUME NEW k \in Connections \ {c} PROVE Overdue(k)' <= Overdue(k)
    <3>1. CASE k \in P
      <4>1. Count(k \in pending) = 0 /\ Count(k \in pending') = 1
        BY <2>1, <2>2, <3>1 DEF Count
      <4>2. Number(requests'[k]) <= Number(requests[k]) + 1
        BY <2>1, <3>1
      <4> QED  BY <1>4, <1>5, <4>1, <4>2
    <3>2. CASE k \notin P
      <4>1. Count(k \in pending) = Count(k \in pending') /\ requests'[k] = requests[k]
        BY <2>1, <2>2, <3>2 DEF Count
      <4> QED  BY <1>4, <1>5, <4>1
    <3> QED  BY <3>1, <3>2
  <2>3. CASE state[c] = "Connecting"
    <3>1. c \notin P /\ requests'[c] = requests[c] /\ c \notin pending' /\ Count(c \in pending') = 0
      BY <1>3, <2>1, <2>3 DEF Count
    <3>2. CASE c \notin pending
      <4>1. Overdue(c)' <= Overdue(c)
        BY <1>4, <1>6, <2>3, <3>1, <3>2 DEF Count
      <4> QED  BY <1>2, <2>2, <2>3, <3>2, <4>1
    <3>3. CASE c \in pending /\ Queued(c, "Subscribed")
      <4>1. Count(c \in pending) = 1
        BY <3>3 DEF Count
      <4>2. Overdue(c)' <= Overdue(c) + 1
        BY <1>4, <1>6, <2>3, <3>1, <4>1
      <4> QED  BY <1>2, <2>2, <2>3, <3>3, <4>2
    <3>4. CASE c \in pending /\ ~Queued(c, "Subscribed")
      <4>1. requests[c] \in Seq({"Connecting", "Subscribed"})
        BY <1>1 DEF TypeOK
      <4>2. Number(requests[c]) = 0
        BY <3>4, <4>1, NumberType DEF Queued, Holds
      <4>3. Subscribing(c) = 0
        BY <1>1, <1>3, <2>3 DEF Sound, TypeOK, Subscribing, Count
      <4>4. Overdue(c)' <= 0
        BY <1>4, <1>6, <2>3, <3>1, <4>2, <4>3
      <4> QED  BY <1>2, <2>2, <2>3, <3>4, <4>4
    <3> QED  BY <3>2, <3>3, <3>4
  <2>4. CASE state[c] = "Connected"
    <3>1. c \notin pending /\ Count(c \in pending) = 0
      BY <1>1, <1>3, <2>4 DEF Sound, Count
    <3>2. c \in P => Count(c \in pending') = 1 /\ Number(requests'[c]) <= Number(requests[c]) + 1
      BY <2>1 DEF Count
    <3>3. c \notin P => Count(c \in pending') = 0 /\ requests'[c] = requests[c]
      BY <2>1 DEF Count
    <3>4. Overdue(c)' <= Overdue(c)
      <4>1. CASE c \in P
        BY <1>4, <1>6, <2>4, <3>1, <3>2, <4>1
      <4>2. CASE c \notin P
        BY <1>4, <1>6, <2>4, <3>1, <3>3, <4>2
      <4> QED  BY <4>1, <4>2
    <3> QED  BY <1>2, <2>2, <2>4, <3>4
  <2>5. CASE state[c] = "Subscribed"
    <3>1. c \notin P /\ requests'[c] = requests[c] /\ c \notin pending' /\ Count(c \in pending') = 0
      BY <1>3, <2>1, <2>5 DEF Count
    <3>2. Subscribing(c) >= 1
      BY <1>3, <2>5, Numbers DEF Subscribing, Count
    <3>3. Overdue(c)' <= Overdue(c)
      BY <1>4, <1>6, <2>5, <3>1
    <3>4. c \notin pending => Overdue(c)' <= Overdue(c) - 1 /\ Overdue(c) >= 1
      <4>1. c \notin pending => Count(c \in pending) = 0
        BY DEF Count
      <4> QED  BY <1>4, <1>6, <2>5, <3>1, <3>2, <4>1
    <3> QED  BY <1>2, <2>2, <2>5, <3>3, <3>4
  <2> QED  BY <1>1, <2>3, <2>4, <2>5 DEF TypeOK, States
<1> QED  BY <1>7, <1>8, Delivered

\* The sum of what is owed grows by one when a request is overtaken only, and
\* is one less when a subscriber comes that the manager does not wait for.
LEMMA DeliverPairs ==
  ASSUME Inv, Inv', ExcessInv, NEW c \in Connections, Deliver(c)
  PROVE  /\ Cardinality(Pairs(Owed))' \in Nat
         /\ Cardinality(Pairs(Owed))' - overtaken' <= Cardinality(Pairs(Owed)) - overtaken
         /\ state[c] = "Subscribed" /\ c \notin pending =>
               Cardinality(Pairs(Owed))' - overtaken' <= Cardinality(Pairs(Owed)) - overtaken - 1
<1>1. PICK f, g \in [Connections -> Int] :
         /\ f = Owed /\ g = Owed'
         /\ \A k \in Connections : f[k] = Overdue(k) /\ g[k] = Overdue(k)'
  BY OwedFunctions
<1>2. Cardinality(Pairs(f)) \in Nat /\ Cardinality(Pairs(g)) \in Nat /\ overtaken \in Nat /\ overtaken' \in Nat
  BY PairsFinite DEF Inv, TypeOK
<1>3. \A k \in Connections \ {c} : g[k] <= f[k]
  BY <1>1, DeliverOwed
<1>4. CASE state[c] = "Subscribed" /\ c \notin pending
  <2>1. g[c] <= f[c] - 1 /\ f[c] >= 1 /\ overtaken' = overtaken
    BY <1>1, <1>4, DeliverOwed
  <2>2. Cardinality(Pairs(g)) <= Cardinality(Pairs(f)) - 1
    BY <1>3, <2>1, PairsOneLess
  <2> QED  BY <1>1, <1>2, <2>1, <2>2
<1>5. CASE ~(state[c] = "Subscribed" /\ c \notin pending)
  <2>1. CASE (g[c] <= f[c] \/ g[c] <= 0) /\ overtaken' = overtaken
    <3>1. Cardinality(Pairs(g)) <= Cardinality(Pairs(f))
      BY <1>3, <2>1, PairsKept
    <3> QED  BY <1>1, <1>2, <1>5, <2>1, <3>1
  <2>2. CASE g[c] <= f[c] + 1 /\ overtaken' = overtaken + 1
    <3>1. Cardinality(Pairs(g)) <= Cardinality(Pairs(f)) + 1
      BY <1>3, <2>2, PairsOneMore
    <3> QED  BY <1>1, <1>2, <1>5, <2>2, <3>1
  <2> QED  BY <1>1, <2>1, <2>2, DeliverOwed
<1> QED  BY <1>4, <1>5

\* The manager has as many subscribers as it wants, or asks all it can.
LEMMA DeliverCounted ==
  ASSUME Inv, Inv', SpareIsAsked, NEW c \in Connections, Deliver(c)
  PROVE  /\ SpareIsAsked'
         /\ \/ Cardinality(Counted)' <= MaxSubscribers
            \/ Cardinality(Counted)' <= Cardinality(Counted)
            \/ /\ state[c] = "Subscribed" /\ c \notin pending
               /\ Cardinality(Counted)' <= Cardinality(Counted) + 1
<1>1. TypeOK /\ Sound(c)
  BY DEF Inv
<1>2. /\ remote'[c] = state[c]
      /\ \A k \in Connections \ {c} : remote'[k] = remote[k]
      /\ remote' \in [Connections -> States]
  BY Delivered
<1>3. CASE AsksToReconnect(c)
  <2>1. remote' = remote /\ pending' = pending
    BY <1>1, <1>2, <1>3 DEF AsksToReconnect, TypeOK
  <2>2. Counted' = Counted /\ SpareIsAsked'
    BY <2>1 DEF Counted, SpareIsAsked, InState
  <2> QED  BY <2>2, CountedFinite
<1>4. CASE \E P \in SUBSET Spare(c) : Asks(c, P)
  <2> PICK P \in SUBSET Connections : P \in SUBSET Spare(c) /\ Asks(c, P)
    BY <1>4 DEF Spare, InState
  <2> PICK S \in SUBSET Connections : S = {k \in Connections : remote'[k] = "Subscribed"}
    OBVIOUS
  <2> PICK T \in SUBSET Connections : T = pending \ {c}
    BY <1>1 DEF TypeOK
  <2>1. \A k \in T : remote'[k] = "Connected"
    BY <1>2 DEF Inv, Sound
  <2>2. S \cap T = {} /\ S \cap P = {} /\ T \cap P = {}
    BY <2>1 DEF Spare, InState, PendingAfter
  <2>3. pending' = T \cup P /\ Counted' = S \cup (T \cup P)
    BY DEF Asks, Counted, InState
  <2>4. /\ Cardinality(S) \in Nat /\ Cardinality(T) \in Nat /\ Cardinality(P) \in Nat
        /\ Cardinality(S \cup (T \cup P)) = Cardinality(S) + Cardinality(T) + Cardinality(P)
    <3>1. S \in SUBSET Connections /\ T \in SUBSET Connections /\ P \in SUBSET Connections
      OBVIOUS
    <3>2. S \cap T = {}
      BY <2>2
    <3>3. S \cap P = {}
      BY <2>2
    <3>4. T \cap P = {}
      BY <2>2
    <3> QED  BY ONLY <3>1, <3>2, <3>3, <3>4, ThreeSets
  <2>5. PICK n \in Nat : n = Cardinality(Counted)' /\ n = Cardinality(S) + Cardinality(T) + Cardinality(P)
    <3>1. Cardinality(Counted') = Cardinality(S) + Cardinality(T) + Cardinality(P)
      BY <2>3, <2>4
    <3>2. PICK i, j, k \in Nat : i = Cardinality(S) /\ j = Cardinality(T) /\ k = Cardinality(P)
      BY <2>4
    <3>3. i + j + k \in Nat
      OBVIOUS
    <3> QED  BY <3>1, <3>2, <3>3
  <2>6. Required(c) = MaxSubscribers - Cardinality(S) - Cardinality(T)
    BY DEF Required, InState, PendingAfter
  <2>7. MaxSubscribers \in Nat
    BY OpenSeaStreamerAssumption
  <2>8. \/ n = MaxSubscribers
        \/ P = Spare(c) /\ n < MaxSubscribers
        \/ P = {} /\ n > MaxSubscribers
    <3>1. P = {} => Cardinality(P) = 0
      BY FS_EmptySet
    <3>2. CASE Cardinality(P) = Required(c)
      BY <2>4, <2>5, <2>6, <2>7, <3>2
    <3>3. CASE P = Spare(c) /\ Cardinality(P) < Required(c)
      BY <2>4, <2>5, <2>6, <2>7, <3>3
    <3>4. CASE P = {} /\ Required(c) < 0
      BY <2>4, <2>5, <2>6, <2>7, <3>1, <3>4
    <3> QED  BY <3>2, <3>3, <3>4 DEF Asks
  <2>9. SpareIsAsked'
    <3>1. CASE n >= MaxSubscribers
      BY <2>5, <3>1 DEF SpareIsAsked, Counted
    <3>2. CASE P = Spare(c)
      <4>1. InState(remote', "Connected") \subseteq pending'
        BY <2>3, <3>2 DEF Spare, PendingAfter, InState
      <4> QED  BY <4>1 DEF SpareIsAsked, InState
    <3> QED  BY <2>7, <2>8, <3>1, <3>2
  <2>10. CASE P = {} /\ n > MaxSubscribers
    <3>1. IsFiniteSet(Counted) /\ Cardinality(Counted) \in Nat
      BY CountedFinite
    <3>2. CASE state[c] # "Subscribed" \/ c \in pending
      <4>1. Counted' \in SUBSET Counted
        BY <1>2, <2>3, <2>10, <3>2 DEF Counted, InState
      <4>2. Cardinality(Counted') <= Cardinality(Counted)
        BY <3>1, <4>1, FS_Subset
      <4> QED  BY <2>9, <4>2
    <3>3. CASE state[c] = "Subscribed" /\ c \notin pending
      <4>1. PICK U : U = Counted \cup {c}
        OBVIOUS
      <4>2. IsFiniteSet(U) /\ Cardinality(U) <= Cardinality(Counted) + 1
        <5>1. PICK C, m : C = Counted /\ m = Cardinality(C) /\ m \in Nat
          BY <3>1
        <5>2. IsFiniteSet(U) /\ Cardinality(U) \in {m, m + 1}
          BY <3>1, <4>1, <5>1, FS_AddElement
        <5> QED  BY <5>1, <5>2
      <4>3. Counted' \in SUBSET U
        BY <1>2, <2>3, <2>10, <4>1 DEF Counted, InState
      <4>4. Cardinality(Counted') <= Cardinality(U)
        BY <4>2, <4>3, FS_Subset
      <4>5. Cardinality(U) \in Nat
        BY <4>2, FS_CardinalityType
      <4> QED  BY <2>5, <2>9, <3>1, <3>3, <4>2, <4>4, <4>5
    <3> QED  BY <3>2, <3>3
  <2> QED  BY <2>5, <2>7, <2>8, <2>9, <2>10
<1> QED  BY <1>3, <1>4, Delivered

LEMMA DeliverExcess ==
  ASSUME Inv, Inv', SpareIsAsked, ExcessInv, NEW c \in Connections, Deliver(c)
  PROVE  SpareIsAsked' /\ ExcessInv'
<1>1. PICK n, m, o, p, u \in Nat :
         /\ n = Cardinality(Pairs(Owed)) /\ m = Cardinality(Pairs(Owed))'
         /\ o = overtaken /\ p = overtaken' /\ u = Cardinality(Counted)
  <2>1. Owed \in [Connections -> Int]
    BY OwedType
  <2>2. overtaken \in Nat /\ overtaken' \in Nat
    BY DEF Inv, TypeOK
  <2> QED  BY <2>1, <2>2, PairsFinite, DeliverPairs, CountedFinite
<1>2. PICK v \in Nat : v = Cardinality(Counted)'
  <2>1. Counted' \in SUBSET Connections
    BY DEF Inv, TypeOK, Counted, InState
  <2>2. Cardinality(Counted') \in Nat
    BY <2>1, FS_Subset, FS_CardinalityType, OpenSeaStreamerAssumption
  <2> QED  BY <2>2
<1>3. n <= o /\ u + n <= MaxSubscribers + o /\ MaxSubscribers \in Nat
  BY <1>1, OpenSeaStreamerAssumption DEF ExcessInv
<1>4. m - p <= n - o /\ (state[c] = "Subscribed" /\ c \notin pending => m - p <= n - o - 1)
  BY <1>1, DeliverPairs
<1>5. v <= MaxSubscribers \/ v <= u \/ (state[c] = "Subscribed" /\ c \notin pending /\ v <= u + 1)
  BY <1>1, <1>2, DeliverCounted
<1>6. m <= p /\ v + m <= MaxSubscribers + p
  <2>1. m <= p
    BY <1>3, <1>4
  <2>2. CASE v <= MaxSubscribers
    BY <1>3, <2>1, <2>2
  <2>3. CASE v <= u
    BY <1>3, <1>4, <2>3
  <2>4. CASE state[c] = "Subscribed" /\ c \notin pending /\ v <= u + 1
    BY <1>3, <1>4, <2>4
  <2> QED  BY <1>5, <2>1, <2>2, <2>3, <2>4
<1> QED  BY <1>1, <1>2, <1>6, DeliverCounted DEF ExcessInv

LEMMA NextExcess == Inv /\ SpareIsAsked /\ ExcessInv /\ [Next]_vars => SpareIsAsked' /\ ExcessInv'
<1> SUFFICES ASSUME Inv, SpareIsAsked, ExcessInv, [Next]_vars PROVE SpareIsAsked' /\ ExcessInv'
  OBVIOUS
<1>1. Inv'
  BY NextInv
<1>2. CASE UNCHANGED vars
  <2>1. UNCHANGED <<remote, pending, requests, state, at, heard, joins, overtaken>>
    BY <1>2 DEF vars, manager, socket
  <2>2. SpareIsAsked'
    BY <2>1 DEF SpareIsAsked, InState
  <2>3. Owed' = Owed /\ Counted' = Counted
    BY <2>1 DEF Owed, Overdue, Subscribing, Counted, InState
  <2> QED  BY <2>1, <2>2, <2>3 DEF ExcessInv
<1>3. ASSUME NEW c \in Connections, Start(c) \/ Silence(c) PROVE SpareIsAsked' /\ ExcessInv'
  BY <1>1, <1>3, NewListenerOwed DEF Start, Silence
<1>4. ASSUME NEW c \in Connections, ReadRequest(c) PROVE SpareIsAsked' /\ ExcessInv'
  <2>1. requests[c] # <<>> /\ UNCHANGED manager
    BY <1>4 DEF ReadRequest
  <2>2. CASE StartNewListener(c, Tail(requests[c]))
    BY <1>1, <2>1, <2>2, NewListenerOwed
  <2>3. CASE Head(requests[c]) = "Subscribed" /\ (SendJoin(c) \/ Ignore(c))
    BY <1>1, <2>1, <2>3, RequestOwed
  <2> QED  BY <1>4, <2>2, <2>3 DEF ReadRequest
<1>5. ASSUME NEW c \in Connections, ReadListener(c) PROVE SpareIsAsked' /\ ExcessInv'
  <2>1. CASE StartNewListener(c, requests[c])
    BY <1>1, <1>5, <2>1, NewListenerOwed DEF ReadListener
  <2>2. CASE heard[c] = "Subscribed"
    BY <1>1, <1>5, <2>2, ConnectionOwed
  <2> QED  BY <1>5, <2>1, <2>2 DEF ReadListener
<1> QED
  BY <1>1, <1>2, <1>3, <1>4, <1>5, ConnectionOwed, ReconnectOwed, DeliverExcess DEF Next

-----------------------------------------------------------------------------
(* The theorems.                                                           *)

\* A connection that the manager takes for subscribed receives events, or is
\* about to say that it does not.
THEOREM SubscribersHear == Spec => []SubscribersReceive
<1>1. Inv => SubscribersReceive
  <2> SUFFICES ASSUME Inv, NEW c \in Connections, remote[c] = "Subscribed"
               PROVE  joined[c] \/ heard[c] = "Connecting" \/ state[c] = "Connecting"
    BY DEF SubscribersReceive, InState
  <2>1. Sound(c) /\ TypeOK
    BY DEF Inv
  <2> QED  BY <2>1 DEF Sound, TypeOK, States
<1> QED  BY <1>1, InitInv, NextInv, PTL DEF Spec

\* The manager's picture of the pool is right or about to be put right,
\* whatever the sizes of the pool and of its part that subscribes.
THEOREM PoolCorrect == Spec => []PoolInv
<1>1. Inv /\ SpareIsAsked => PoolInv
  <2> SUFFICES ASSUME Inv, SpareIsAsked PROVE ConnectedIsExpected /\ PendingEnds
    BY DEF Inv, PoolInv
  <2>1. pending \subseteq Connections
    BY DEF Inv, TypeOK
  <2> QED  BY <2>1 DEF Inv, Sound, ConnectedIsExpected, PendingEnds
<1> QED  BY <1>1, InitInv, NextInv, InitExcess, NextExcess, PTL DEF Spec

\* More than maxSubscribers of them subscribe only as often as a reconnection
\* has overtaken a request.
THEOREM ExcessBounded == Spec => []ExcessIsOvertaken
<1>1. Inv /\ ExcessInv => ExcessIsOvertaken
  <2> SUFFICES ASSUME Inv, ExcessInv PROVE ExcessIsOvertaken
    OBVIOUS
  <2>1. Cardinality(Pairs(Owed)) \in Nat /\ Cardinality(Counted) \in Nat
    BY OwedType, PairsFinite, CountedFinite
  <2>2. overtaken \in Nat /\ MaxSubscribers \in Nat
    BY OpenSeaStreamerAssumption DEF Inv, TypeOK
  <2>3. Cardinality(Counted) <= MaxSubscribers + overtaken
    BY <2>1, <2>2 DEF ExcessInv
  <2> QED  BY <2>3 DEF ExcessIsOvertaken, Counted
<1> QED  BY <1>1, InitInv, NextInv, InitExcess, NextExcess, PTL DEF Spec

\* No queue of requests is longer than one more than the failures there were.
THEOREM BacklogBounded == Spec => []BacklogIsEarned
<1>1. Inv /\ BacklogInv => BacklogIsEarned
  <2> SUFFICES ASSUME Inv, BacklogInv, NEW c \in Connections PROVE Len(requests[c]) <= 1 + failures
    BY DEF BacklogIsEarned
  <2>1. Earned(c)
    BY DEF BacklogInv
  <2> QED  BY <2>1, Numbers DEF Earned
<1> QED  BY <1>1, InitInv, NextInv, InitBacklog, NextBacklog, PTL DEF Spec

=============================================================================
