-------------------------- MODULE OpenSeaStreamer --------------------------
(***************************************************************************)
(* The connection manager of the opensea-streamer and its connections.     *)
(* The manager keeps some of the connections subscribed and the others     *)
(* connected, ready to take over.  Manager, connections and listeners are  *)
(* goroutines that talk over channels: a connection tells the manager its  *)
(* state over an unbuffered channel, the manager's requests are buffered   *)
(* per connection, and a listener hands one message at a time to its       *)
(* connection.  The websocket and OpenSea are modelled from how the code   *)
(* uses them: a join is answered at most once, on the socket it was sent.  *)
(*                                                                         *)
(* Left out: heartbeats, the filter and the dispatch of transfer events,   *)
(* and timeouts of requests that were answered or superseded, which        *)
(* onTimeout ignores.                                                      *)
(***************************************************************************)
EXTENDS Integers, Sequences, FiniteSets

CONSTANTS
    Connections,    \* the connections of the pool
    MaxSubscribers, \* maxSubscribers
    MaxFailures     \* bound: failures, late answers and hourly disconnections

ASSUME OpenSeaStreamerAssumption ==
    /\ IsFiniteSet(Connections)
    /\ MaxSubscribers \in Nat
    /\ MaxFailures \in Nat

VARIABLES
    remote,     \* manager: remoteStates, the state a connection last told
    pending,    \* manager: pendingRemoteStates[Subscribed]
    timers,     \* manager: pending requests whose timeout is still to come
    requests,   \* fromManager of each connection
    state,      \* what a connection takes its state for
    at,         \* where it is: in its loop, in setState, or in openWebsocket
    heard,      \* what its listener waits to hand over, on fromListener
    joins,      \* joins sent on its websocket and not answered
    joined,     \* whether its websocket receives events
    failures,   \* failures so far
    overtaken   \* history: requests to subscribe that a reconnection left queued
                \* and the manager no longer waits for

manager == <<remote, pending, timers>>
socket == <<heard, joins, joined>>
vars == <<manager, requests, state, at, socket, failures, overtaken>>

States == {"Connecting", "Connected", "Subscribed"}

TypeOK ==
    /\ remote \in [Connections -> States]
    /\ pending \in SUBSET Connections
    /\ timers \in SUBSET pending
    /\ requests \in [Connections -> Seq({"Connecting", "Subscribed"})]
    /\ state \in [Connections -> States]
    /\ at \in [Connections -> {"new", "telling", "dialing", "loop"}]
    /\ heard \in [Connections -> {"nothing", "Connecting", "Subscribed"}]
    /\ joins \in [Connections -> Nat]
    /\ joined \in [Connections -> BOOLEAN]
    /\ failures \in 0 .. MaxFailures
    /\ overtaken \in Nat

Init ==
    /\ remote = [c \in Connections |-> "Connecting"]
    /\ pending = {}
    /\ timers = {}
    /\ requests = [c \in Connections |-> <<>>]
    /\ state = [c \in Connections |-> "Connecting"]
    /\ at = [c \in Connections |-> "new"]
    /\ heard = [c \in Connections |-> "nothing"]
    /\ joins = [c \in Connections |-> 0]
    /\ joined = [c \in Connections |-> FALSE]
    /\ failures = 0
    /\ overtaken = 0

Fail ==
    /\ failures < MaxFailures
    /\ failures' = failures + 1

NoFailure == UNCHANGED failures

Queued(c, s) == \E i \in DOMAIN requests[c] : requests[c][i] = s

InState(f, s) == {c \in Connections : f[c] = s}

-----------------------------------------------------------------------------
(* The manager.                                                            *)

\* Mutant: a state that is told leaves the request pending.
StillPending(c) == pending

\* setRemoteState: a state that is told settles what was requested.
PendingAfter(c) == pending \ {c}

\* Timeouts whose request is settled do nothing.
TimersAfter(c) == timers \cap PendingAfter(c)

\* Mutants: those asked already do not count; a lost one is not replaced.
RequiredOfSubscribed(c) == MaxSubscribers - Cardinality(InState(remote', "Subscribed"))
RequiredUnlessLost(c) ==
    IF state[c] = "Connecting"
    THEN 0
    ELSE MaxSubscribers - Cardinality(InState(remote', "Subscribed")) - Cardinality(PendingAfter(c))

\* numRequiredSubscribers, after what c tells.
Required(c) ==
    MaxSubscribers - Cardinality(InState(remote', "Subscribed")) - Cardinality(PendingAfter(c))

\* Mutant: a connection is asked again.
SpareAnyway(c) == InState(remote', "Connected")

Spare(c) == InState(remote', "Connected") \ PendingAfter(c)

\* updateSubscribers: as many connected ones as are missing, whichever the
\* iteration over the map finds first, each with a timeout.
UpdateSubscribers(c) ==
    \E P \in SUBSET Spare(c) :
        /\ \/ Cardinality(P) = Required(c)
           \/ P = Spare(c) /\ Cardinality(P) < Required(c)
           \/ P = {} /\ Required(c) < 0
        /\ requests' = [k \in Connections |->
                IF k \in P THEN Append(requests[k], "Subscribed") ELSE requests[k]]
        /\ pending' = PendingAfter(c) \cup P
        /\ timers' = TimersAfter(c) \cup P

\* What c tells is what follows on what it told before.
Expected(c) ==
    \/ state[c] = "Connecting"
    \/ state[c] = "Connected" /\ remote[c] = "Connecting"
    \/ state[c] = "Subscribed" /\ remote[c] = "Connected"

\* managerLoop receives what a connection tells: onConnecting, onConnected,
\* onSubscribed.  The connection goes on.
Deliver(c) ==
    /\ at[c] = "telling"
    /\ at' = [at EXCEPT ![c] = IF state[c] = "Connecting" THEN "dialing" ELSE "loop"]
    /\ remote' = [remote EXCEPT ![c] = state[c]]
    /\ \/ Expected(c) /\ UpdateSubscribers(c)
       \/ /\ ~Expected(c)
          /\ requests' = [requests EXCEPT ![c] = Append(@, "Connecting")]
          /\ pending' = PendingAfter(c)
          /\ timers' = TimersAfter(c)
    /\ overtaken' = IF state[c] = "Connecting" /\ c \in pending /\ Queued(c, "Subscribed")
                    THEN overtaken + 1
                    ELSE overtaken
    /\ UNCHANGED <<state, socket, failures>>

\* The request to subscribe is queued, sent, or answered.
Underway(c) ==
    Queued(c, "Subscribed") \/ joins[c] > 0 \/ heard[c] = "Subscribed" \/ state[c] = "Subscribed"

\* onTimeout: subscribing takes too long, which is a failure of its own if
\* nothing was lost.
Timeout(c) ==
    /\ c \in timers
    /\ IF Underway(c) THEN Fail ELSE NoFailure
    /\ timers' = timers \ {c}
    /\ requests' = [requests EXCEPT ![c] = Append(@, "Connecting")]
    /\ UNCHANGED <<remote, pending, state, at, socket, overtaken>>

\* disconnectRandomConnection, once an hour.
Disconnect(c) ==
    /\ remote[c] = "Connected"
    /\ Fail
    /\ requests' = [requests EXCEPT ![c] = Append(@, "Connecting")]
    /\ UNCHANGED <<manager, state, at, socket, overtaken>>

-----------------------------------------------------------------------------
(* A connection.                                                           *)

SetState(c, s) ==
    /\ state' = [state EXCEPT ![c] = s]
    /\ at' = [at EXCEPT ![c] = "telling"]

\* Mutant: the listener's channel outlives its websocket.
HeardStays(c) == heard[c]

\* A new listener has a channel of its own.
HeardAnew(c) == "nothing"

\* startNewListener up to openWebsocket.
StartNewListener(c, queue) ==
    /\ SetState(c, "Connecting")
    /\ heard' = [heard EXCEPT ![c] = HeardAnew(c)]
    /\ joins' = [joins EXCEPT ![c] = 0]
    /\ joined' = [joined EXCEPT ![c] = FALSE]
    /\ requests' = [requests EXCEPT ![c] = queue]
    /\ UNCHANGED overtaken

\* start runs connectionLoop beside the first startNewListener; here one follows
\* the other.  The loop has nothing to read until the manager has heard Connected
\* from the connection, so only the start of the listener, which comes after, may
\* run beside it.
Start(c) ==
    /\ at[c] = "new"
    /\ StartNewListener(c, requests[c])
    /\ UNCHANGED <<manager, failures>>

\* openWebsocket tries until it succeeds.
Dial(c) ==
    /\ at[c] = "dialing"
    /\ SetState(c, "Connected")
    /\ UNCHANGED <<manager, requests, socket, failures, overtaken>>

\* subscribe.
SendJoin(c) ==
    /\ joins' = [joins EXCEPT ![c] = @ + 1]
    /\ requests' = [requests EXCEPT ![c] = Tail(@)]
    /\ UNCHANGED <<state, at, heard, joined, overtaken>>

Ignore(c) ==
    /\ requests' = [requests EXCEPT ![c] = Tail(@)]
    /\ UNCHANGED <<state, at, socket, overtaken>>

\* onManagerRequestedConnecting, onManagerRequestedSubscribed.
ReadRequest(c) ==
    /\ at[c] = "loop"
    /\ requests[c] # <<>>
    /\ \/ /\ Head(requests[c]) = "Connecting"
          /\ StartNewListener(c, Tail(requests[c]))
          /\ NoFailure
       \/ /\ Head(requests[c]) = "Subscribed"
          /\ state[c] = "Connected"
          /\ \/ SendJoin(c) /\ NoFailure
             \/ Fail /\ StartNewListener(c, Tail(requests[c]))
       \/ /\ Head(requests[c]) = "Subscribed"
          /\ state[c] # "Connected"
          /\ Ignore(c)
          /\ NoFailure
    /\ UNCHANGED manager

\* onListenerRequestedConnecting, onListenerSubscribed.
ReadListener(c) ==
    /\ at[c] = "loop"
    /\ \/ /\ heard[c] = "Connecting"
          /\ StartNewListener(c, requests[c])
       \/ /\ heard[c] = "Subscribed"
          /\ SetState(c, "Subscribed")
          /\ heard' = [heard EXCEPT ![c] = "nothing"]
          /\ UNCHANGED <<requests, joins, joined, overtaken>>
    /\ UNCHANGED <<manager, failures>>

\* checkLastEventTime: no event for too long.
Silence(c) ==
    /\ at[c] = "loop"
    /\ Fail
    /\ StartNewListener(c, requests[c])
    /\ UNCHANGED manager

-----------------------------------------------------------------------------
(* A listener and its websocket.                                           *)

\* A reply to a join arrives.
Answer(c) ==
    /\ joins[c] > 0
    /\ heard[c] = "nothing"
    /\ heard' = [heard EXCEPT ![c] = "Subscribed"]
    /\ joins' = [joins EXCEPT ![c] = @ - 1]
    /\ joined' = [joined EXCEPT ![c] = TRUE]
    /\ UNCHANGED <<manager, requests, state, at, failures, overtaken>>

LoseAnswer(c) ==
    /\ joins[c] > 0
    /\ Fail
    /\ joins' = [joins EXCEPT ![c] = @ - 1]
    /\ UNCHANGED <<manager, requests, state, at, heard, joined, overtaken>>

\* ReadMessage fails and the listener ends.
SocketFails(c) ==
    /\ at[c] = "loop" \/ (at[c] = "telling" /\ state[c] = "Subscribed")
    /\ heard[c] = "nothing"
    /\ Fail
    /\ heard' = [heard EXCEPT ![c] = "Connecting"]
    /\ joins' = [joins EXCEPT ![c] = 0]
    /\ joined' = [joined EXCEPT ![c] = FALSE]
    /\ UNCHANGED <<manager, requests, state, at, overtaken>>

-----------------------------------------------------------------------------
Next ==
    \E c \in Connections :
        \/ Start(c) \/ Deliver(c) \/ Dial(c) \/ ReadRequest(c) \/ ReadListener(c)
        \/ Answer(c) \/ Timeout(c)
        \/ Disconnect(c) \/ Silence(c) \/ LoseAnswer(c) \/ SocketFails(c)

Spec == Init /\ [][Next]_vars

\* Goroutines run, select is fair to its channels, OpenSea can be reached in
\* the end and answers, and a timeout of what was lost comes.
Fairness ==
    \A c \in Connections :
        /\ WF_vars(Start(c))
        /\ WF_vars(Deliver(c))
        /\ WF_vars(Dial(c))
        /\ WF_vars(ReadRequest(c))
        /\ WF_vars(ReadListener(c))
        /\ WF_vars(Answer(c))
        /\ WF_vars(~Underway(c) /\ Timeout(c))

FairSpec == Spec /\ Fairness

-----------------------------------------------------------------------------
(* Properties.                                                             *)

\* The manager never counts on a subscription that does not exist: if the
\* websocket of a subscriber does not receive events, the listener or the
\* connection is about to say so.
SubscribersReceive ==
    \A c \in InState(remote, "Subscribed") :
        joined[c] \/ heard[c] = "Connecting" \/ state[c] = "Connecting"

\* "unexpected state transition to connected" is never logged, whatever is
\* lost or comes late.
ConnectedIsExpected ==
    \A c \in Connections :
        at[c] = "telling" /\ state[c] = "Connected" => remote[c] = "Connecting"

\* A request to subscribe does not stay pending for ever and keep others from
\* taking its place: a timeout, a request to reconnect or the connection's own
\* news will end it.
PendingEnds ==
    \A c \in pending :
        c \in timers \/ Queued(c, "Connecting") \/ at[c] \in {"telling", "dialing"}

\* No connection is left idle while a subscriber is missing, although each
\* handler looks at the pool once and may be overtaken by what others tell.
SpareIsAsked ==
    \/ Cardinality(InState(remote, "Subscribed") \cup pending) >= MaxSubscribers
    \/ InState(remote, "Connected") \subseteq pending

\* There are more than maxSubscribers only after a reconnection has left a
\* request in the queue, which the connection then follows although the
\* manager has asked another one instead.
ExcessIsOvertaken ==
    Cardinality(InState(remote, "Subscribed") \cup pending) <= MaxSubscribers + overtaken

\* The buffer of ten requests, which would block the manager and, with it, every
\* connection, does not fill up by itself: what is in it beyond one request is
\* paid for by a failure since the start.
BacklogIsEarned ==
    \A c \in Connections : Len(requests[c]) <= 1 + failures

\* Once failures end, enough connections receive events for ever.
Recovers ==
    <>[](\/ Cardinality({c \in Connections : joined[c]}) >= MaxSubscribers
         \/ \A c \in Connections : joined[c])

\* The manager's picture of the pool is right or about to be put right: states
\* follow on each other, requests that are pending will end, and no spare
\* connection is left when one is missing.
PoolInv ==
    /\ TypeOK
    /\ ConnectedIsExpected
    /\ PendingEnds
    /\ SpareIsAsked
=============================================================================
