--------------------------- MODULE TopicRestarts ---------------------------
(***************************************************************************)
(* The restart accounting of runStreamer: how many errors of a topic make  *)
(* the kafka-streamer panic.  Time is counted in ticks.                    *)
(***************************************************************************)
EXTENDS Integers, Sequences, FiniteSets

CONSTANTS
    MaxRetries,     \* maxRetries
    Interval,       \* retryResetInterval, in ticks
    MaxTime         \* bound: how long the topic is observed

ASSUME TopicRestartsAssumption ==
    /\ MaxRetries \in Nat
    /\ Interval \in Nat
    /\ MaxTime \in Nat

VARIABLES
    now,
    retriesRemaining,
    retriesResetAt,
    panicked,
    errorsAt        \* history: when each error came in

vars == <<now, retriesRemaining, retriesResetAt, panicked, errorsAt>>

TypeOK ==
    /\ now \in 0 .. MaxTime
    /\ retriesRemaining \in 0 .. MaxRetries
    /\ retriesResetAt \in Interval .. MaxTime + Interval
    /\ panicked \in BOOLEAN
    /\ errorsAt \in Seq(0 .. MaxTime)

Init ==
    /\ now = 0
    /\ retriesRemaining = MaxRetries
    /\ retriesResetAt = Interval
    /\ panicked = FALSE
    /\ errorsAt = <<>>

Tick ==
    /\ now < MaxTime
    /\ ~panicked
    /\ now' = now + 1
    /\ UNCHANGED <<retriesRemaining, retriesResetAt, panicked, errorsAt>>

\* Mutant: what remains is not restored.
RemainingUnrestored == retriesRemaining

\* The retries that remain when an error comes in.
Remaining == IF now > retriesResetAt THEN MaxRetries ELSE retriesRemaining

\* Mutant: the deadline is not moved.
ResetAtKept == retriesResetAt

ResetAt == IF now > retriesResetAt THEN now + Interval ELSE retriesResetAt

\* streamTopic returned an error.
StreamFails ==
    /\ ~panicked
    /\ errorsAt' = Append(errorsAt, now)
    /\ retriesResetAt' = ResetAt
    /\ panicked' = (Remaining = 0)
    /\ retriesRemaining' = IF Remaining = 0 THEN 0 ELSE Remaining - 1
    /\ UNCHANGED now

Next == Tick \/ StreamFails

Spec == Init /\ [][Next]_vars

-----------------------------------------------------------------------------
\* Errors in the last interval.
Recent == Cardinality({i \in DOMAIN errorsAt : now - errorsAt[i] <= Interval})

\* "If any topic errors more than 10 times in 10 minutes, panic": a topic that
\* did has made the service panic.  The interval starts anew only with an
\* error, so the code does not see errors on both sides of its end together.
PanicsWhenFlaking == Recent > MaxRetries => panicked

\* A panic is never premature: the errors that led to it are more than allowed
\* and no older than the interval.
PanicIsEarned == panicked => Recent > MaxRetries

\* How far the code is from that: a topic never has more than twice the allowed
\* errors in an interval without a panic.
TwiceAtMost == ~panicked => Recent <= 2 * MaxRetries

\* The accounting never admits more retries than maxRetries, and a panic of it
\* has enough errors behind it.
RetriesInv ==
    /\ TypeOK
    /\ PanicIsEarned
=============================================================================
