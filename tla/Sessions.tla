------------------------------ MODULE Sessions ------------------------------
(***************************************************************************)
(* The sessions of one user: requests that are let in with an auth token   *)
(* or have new tokens issued, and what makes auth tokens out of date       *)
(* before they expire: the end of a session, and a change of the user's    *)
(* roles, after which a time is written to redis that tokens must not be   *)
(* older than.  Also logins with a one-time token.  A unit of time is a    *)
(* second, in which tokens are dated; redis, the database and the token    *)
(* library are modelled from how the code uses them.  Refresh tokens       *)
(* outlive what is looked at here.                                         *)
(***************************************************************************)
EXTENDS Integers, FiniteSets

CONSTANTS
    SessionIDs,
    Requests,     \* requests that have tokens issued
    Changes,      \* requests that end a session or change the roles
    Logins,       \* requests with the one-time login token
    TTL,          \* AUTH_JWT_TTL
    Wiggle,       \* the extra minute, longer than a request and the difference of clocks
    LoginExpiry,  \* when the one-time login token expires
    MaxTime,      \* bound: seconds
    MaxFaults     \* bound: calls that fail

ASSUME SessionsAssumption ==
    /\ TTL \in Nat \ {0}
    /\ Wiggle \in Nat \ {0}
    /\ LoginExpiry \in Nat
    /\ MaxTime \in Nat
    /\ MaxFaults \in Nat

VARIABLES
    now,
    roles,       \* database: how often the roles have changed
    sessions,    \* database: the sessions there are, and whether they are invalidated
    key,         \* redis: the time tokens must not be older than, and its expiry
    tokens,      \* auth tokens that were given out
    issuing,     \* what each request has of its tokens
    change,      \* what each change does
    settled,     \* history: changes that were made and forced without a failure
    consumed,    \* redis: until when the login token is known as used
    login,       \* where each login is, and when it has read its token
    used,        \* history: logins that the token let in
    faults       \* failures so far

vars == <<now, roles, sessions, key, tokens, issuing, change, settled, consumed, login, used, faults>>

Time == 0 .. MaxTime

\* A token is out of date from its birth when the roles were changed after
\* they had been read for it.
Token == [session : SessionIDs, issued : Time, roles : Nat, raced : BOOLEAN]

\* No key in redis: it would have expired.
NoKey == [time |-> 0, until |-> 0]
Idle == [at |-> "idle"]
Over == [at |-> "over"]

\* What a request has of its tokens, what a change does, and where a login is.
Issuing ==
    {Idle, Over}
        \cup [at : {"sign"}, session : SessionIDs, roles : Nat]
        \cup [at : {"upsert"}, session : SessionIDs, token : Token]
Settled == [kind : {"end", "roles"}, session : SessionIDs, roles : Nat, clock : Time]
Change == {Idle, Over} \cup [at : {"clock", "force"}, done : BOOLEAN, what : Settled]
Login == {Idle, Over} \cup [at : {"read"}, read : {t \in Time : t < LoginExpiry}]

TypeOK ==
    /\ now \in Time
    /\ roles \in Nat
    /\ sessions \in [SessionIDs -> {"none", "valid", "invalidated"}]
    /\ key \in [time : Time, until : Nat]
    /\ key # NoKey => key.until > key.time + TTL
    /\ tokens \subseteq Token
    /\ issuing \in [Requests -> Issuing]
    /\ change \in [Changes -> Change]
    /\ settled \subseteq Settled
    /\ consumed \in Nat
    /\ login \in [Logins -> Login]
    /\ used \in SUBSET Logins
    /\ faults \in 0 .. MaxFaults

Init ==
    /\ now = 0
    /\ roles = 0
    /\ sessions = [s \in SessionIDs |-> "none"]
    /\ key = NoKey
    /\ tokens = {}
    /\ issuing = [q \in Requests |-> Idle]
    /\ change = [c \in Changes |-> Idle]
    /\ settled = {}
    /\ consumed = 0
    /\ login = [l \in Logins |-> Idle]
    /\ used = {}
    /\ faults = 0

Fault ==
    /\ faults < MaxFaults
    /\ faults' = faults + 1

NoFault == UNCHANGED faults

session == <<sessions, tokens, issuing>>
changing == <<roles, key, change, settled>>
loggingIn == <<consumed, login, used>>

-----------------------------------------------------------------------------
(* ContinueSession: mustRefreshAuthToken.                                  *)

KeyThere == now < key.until

Unexpired(t) == now < t.issued + TTL

\* issuedAt.Before(forceRefreshBefore)
MustRefresh(t) == KeyThere /\ t.issued < key.time

\* A request with this token is let in.
Accepted(t) == t \in tokens /\ Unexpired(t) /\ ~MustRefresh(t)

-----------------------------------------------------------------------------
(* issueSessionTokens.                                                     *)

Issue(q, f) == issuing' = [issuing EXCEPT ![q] = f]

\* A session is started, under an ID of its own, or continued: a request may
\* ask for tokens whatever auth token it has, as redis may not answer.  The
\* roles are read.
ReadRoles(q) ==
    /\ issuing[q] = Idle
    /\ \E s \in SessionIDs :
          /\ sessions[s] = "none" => \A r \in Requests : issuing[r] \notin {Idle, Over} => issuing[r].session # s
          /\ Issue(q, [at |-> "sign", session |-> s, roles |-> roles])
    /\ UNCHANGED <<now, sessions, tokens, changing, loggingIn, faults>>

\* GenerateAuthToken dates the token.
Sign(q) ==
    /\ issuing[q].at = "sign"
    /\ Issue(q, [at |-> "upsert", session |-> issuing[q].session,
                 token |-> [session |-> issuing[q].session, issued |-> now,
                            roles |-> issuing[q].roles, raced |-> issuing[q].roles # roles]])
    /\ UNCHANGED <<now, sessions, tokens, changing, loggingIn, faults>>

\* Mutant: tokens are given out for a session that has ended.
Anyway(s) == TRUE

StillValid(s) == sessions[s] # "invalidated"

\* UpsertSession, which leaves an invalidated session as it is, and the cookies.
Upsert(q) ==
    /\ issuing[q].at = "upsert"
    /\ LET t == issuing[q].token
       IN  \/ /\ StillValid(t.session)
              /\ sessions' = IF sessions[t.session] = "none"
                             THEN [sessions EXCEPT ![t.session] = "valid"] ELSE sessions
              /\ tokens' = tokens \cup {t}
              /\ NoFault
           \/ ~StillValid(t.session) /\ NoFault /\ UNCHANGED <<sessions, tokens>>
           \/ Fault /\ UNCHANGED <<sessions, tokens>>
    /\ Issue(q, Over)
    /\ UNCHANGED <<now, changing, loggingIn>>

-----------------------------------------------------------------------------
(* EndSession, AddUserRoles and DeleteUserRoles, with ForceAuthTokenRefresh. *)

Goto(c, f) == change' = [change EXCEPT ![c] = f]

\* What a change does, and whether it was done: the end of a session goes on
\* when the database fails, a change of roles does not.
What(kind, s, r, done) ==
    [at |-> "clock", done |-> done,
     what |-> [kind |-> kind, session |-> s, roles |-> r, clock |-> now]]

\* EndSession, by a request that was let in by now: InvalidateSession.
InvalidateSession(c) ==
    /\ change[c] = Idle
    /\ \E s \in SessionIDs :
          /\ \E t \in tokens : t.session = s
          /\ \/ /\ sessions' = [sessions EXCEPT ![s] = "invalidated"]
                /\ Goto(c, What("end", s, roles, TRUE))
                /\ NoFault
             \/ Fault /\ Goto(c, What("end", s, roles, FALSE)) /\ UNCHANGED sessions
    /\ UNCHANGED <<now, roles, key, tokens, issuing, settled, loggingIn>>

ChangeRoles(c) ==
    /\ change[c] = Idle
    /\ roles' = roles + 1
    /\ \E s \in SessionIDs : Goto(c, What("roles", s, roles + 1, TRUE))
    /\ UNCHANGED <<now, key, settled, session, loggingIn, faults>>

\* ForceAuthTokenRefresh takes the time.
TakeClock(c) ==
    /\ change[c].at = "clock"
    /\ Goto(c, [change[c] EXCEPT !.at = "force", !.what.clock = now])
    /\ UNCHANGED <<now, roles, key, settled, session, loggingIn, faults>>

\* Mutant: the time is set whatever is there.
SetAnyway(t) == TRUE

\* setTimeScript sets a later time only.
SetsKey(t) == ~KeyThere \/ key.time < t

\* The key's expiry, from the same clock, outlives the tokens there were.
KeyUntil(t) == t + TTL + Wiggle

\* SetTime; its failure is logged.
SetTime(c) ==
    /\ change[c].at = "force"
    /\ LET t == change[c].what.clock
       IN  \/ /\ key' = IF SetsKey(t) THEN [time |-> t, until |-> KeyUntil(t)] ELSE key
              /\ settled' = IF change[c].done THEN settled \cup {change[c].what} ELSE settled
              /\ NoFault
           \/ Fault /\ UNCHANGED <<key, settled>>
    /\ Goto(c, Over)
    /\ UNCHANGED <<now, roles, session, loggingIn>>

-----------------------------------------------------------------------------
(* OneTimeLoginTokenAuthenticator.                                         *)

\* ParseOneTimeLoginToken.
ReadLoginToken(l) ==
    /\ login[l] = Idle
    /\ now < LoginExpiry
    /\ login' = [login EXCEPT ![l] = [at |-> "read", read |-> now]]
    /\ UNCHANGED <<now, consumed, used, session, changing, faults>>

\* Mutant: the token is remembered until it expires.
UntilExpiry(l) == now + LoginExpiry - login[l].read

\* time.Until(expiresAt) of when the token was read, and a minute.
ConsumedUntil(l) == now + LoginExpiry - login[l].read + Wiggle

\* SetNX.
Consume(l) ==
    /\ login[l].at = "read"
    /\ \/ /\ now >= consumed
          /\ consumed' = ConsumedUntil(l)
          /\ used' = used \cup {l}
          /\ NoFault
       \/ now < consumed /\ NoFault /\ UNCHANGED <<consumed, used>>
       \/ Fault /\ UNCHANGED <<consumed, used>>
    /\ login' = [login EXCEPT ![l] = Over]
    /\ UNCHANGED <<now, session, changing>>

-----------------------------------------------------------------------------
(* The environment.                                                        *)

\* Time passes; a login does not take longer than the minute.
Tick ==
    /\ now < MaxTime
    /\ \A l \in Logins : login[l].at = "read" => now - login[l].read < Wiggle
    /\ now' = now + 1
    /\ UNCHANGED <<session, changing, loggingIn, faults>>

-----------------------------------------------------------------------------
Next ==
    \/ \E q \in Requests : ReadRoles(q) \/ Sign(q) \/ Upsert(q)
    \/ \E c \in Changes : InvalidateSession(c) \/ ChangeRoles(c) \/ TakeClock(c) \/ SetTime(c)
    \/ \E l \in Logins : ReadLoginToken(l) \/ Consume(l)
    \/ Tick

Spec == Init /\ [][Next]_vars

-----------------------------------------------------------------------------
(* Properties.                                                             *)

\* After the end of a session, whose calls were made, no token of it is
\* accepted, whichever forced refreshes overtook this one and however the
\* session was being continued meanwhile; only a token of the very second is,
\* which is not older than the time in redis.
EndHolds ==
    \A e \in settled : e.kind = "end" =>
        \A t \in tokens : t.session = e.session /\ Accepted(t) => t.issued = e.clock

\* After a change of roles, whose calls were made, no token with older roles
\* is accepted, unless it is of the very second or the change came between
\* the reading of its roles and its date: that one is accepted until it
\* expires.
RolesHold ==
    \A e \in settled : e.kind = "roles" =>
        \A t \in tokens : t.roles < e.roles /\ Accepted(t) =>
            t.issued = e.clock \/ (t.raced /\ t.issued > e.clock)

\* A one-time login token lets one login in, also when it expires between the
\* reading of two logins and their turn in redis.
UsedOnce == Cardinality(used) <= 1

\* An ended session has no token that lets a request in, and the time in redis
\* outlives the tokens it is there for.
SessionsInv ==
    /\ TypeOK
    /\ EndHolds
=============================================================================
