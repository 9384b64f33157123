--------------------------- MODULE SessionsProofs ---------------------------
(***************************************************************************)
(* Proofs about Sessions, for any number of sessions, requests, changes    *)
(* and logins, any lifetimes of tokens, and any failures.                  *)
(***************************************************************************)
EXTENDS Sessions, FiniteSetTheorems, TLAPS

\* What records of the three kinds of state say when they have got somewhere.
LEMMA StateShapes ==
  /\ \A f \in Issuing : f.at = "sign" => f.session \in SessionIDs /\ f.roles \in Nat
  /\ \A f \in Issuing : f.at = "upsert" => f.session \in SessionIDs /\ f.token \in Token
  /\ \A f \in Change : f.at \in {"clock", "force"} =>
        f \in [at : {"clock", "force"}, done : BOOLEAN, what : Settled]
  /\ \A f \in Login : f.at = "read" => f.read \in Time /\ f.read < LoginExpiry
  BY DEF Issuing, Change, Login, Idle, Over

LEMMA InitType == Init => TypeOK
  BY SessionsAssumption DEF Init, TypeOK, NoKey, Time, Issuing, Change, Login

LEMMA NextType == TypeOK /\ [Next]_vars => TypeOK'
<1> SUFFICES ASSUME TypeOK, [Next]_vars PROVE TypeOK'
  OBVIOUS
<1> USE SessionsAssumption, StateShapes
        DEF TypeOK, session, changing, loggingIn, Fault, NoFault, Time
<1>1. ASSUME NEW q \in Requests, ReadRoles(q) PROVE TypeOK'
  BY <1>1 DEF ReadRoles, Issue, Issuing
<1>2. ASSUME NEW q \in Requests, Sign(q) PROVE TypeOK'
  BY <1>2 DEF Sign, Issue, Issuing, Token
<1>3. ASSUME NEW q \in Requests, Upsert(q) PROVE TypeOK'
  BY <1>3 DEF Upsert, Issue, Issuing, Token, StillValid
<1>4. ASSUME NEW c \in Changes, InvalidateSession(c) PROVE TypeOK'
  <2>1. \A s \in SessionIDs : /\ What("end", s, roles, TRUE) \in Change
                              /\ What("end", s, roles, FALSE) \in Change
    BY DEF What, Change, Settled
  <2>2. change' \in [Changes -> Change]
    BY <1>4, <2>1 DEF InvalidateSession, Goto
  <2>3. sessions' \in [SessionIDs -> {"none", "valid", "invalidated"}]
    BY <1>4 DEF InvalidateSession, Goto
  <2>4. faults' = faults \/ (faults < MaxFaults /\ faults' = faults + 1)
    BY <1>4 DEF InvalidateSession
  <2> QED  BY <1>4, <2>2, <2>3, <2>4 DEF InvalidateSession
<1>5. ASSUME NEW c \in Changes, ChangeRoles(c) PROVE TypeOK'
  <2>1. \A s \in SessionIDs : What("roles", s, roles + 1, TRUE) \in Change
    BY DEF What, Change, Settled
  <2>2. change' \in [Changes -> Change]
    BY <1>5, <2>1 DEF ChangeRoles, Goto
  <2> QED  BY <1>5, <2>2 DEF ChangeRoles
<1>6. ASSUME NEW c \in Changes, TakeClock(c) PROVE TypeOK'
  <2> DEFINE f == change[c]
  <2>1. f \in [at : {"clock", "force"}, done : BOOLEAN, what : Settled]
    BY <1>6 DEF TakeClock
  <2>2. [f EXCEPT !.at = "force", !.what.clock = now] \in Change
    BY <2>1 DEF Change, Settled
  <2> QED  BY <1>6, <2>2 DEF TakeClock, Goto
<1>7. ASSUME NEW c \in Changes, SetTime(c) PROVE TypeOK'
  <2>1. change[c].what \in Settled /\ change[c].what.clock \in Time
    BY <1>7 DEF SetTime, Settled
  <2>2. settled' \subseteq Settled
    BY <1>7, <2>1 DEF SetTime
  <2>3. change' \in [Changes -> Change]
    BY <1>7 DEF SetTime, Goto, Change
  <2> QED  BY <1>7, <2>1, <2>2, <2>3 DEF SetTime, SetsKey, KeyUntil
<1>8. ASSUME NEW l \in Logins, ReadLoginToken(l) PROVE TypeOK'
  BY <1>8 DEF ReadLoginToken, Login
<1>9. ASSUME NEW l \in Logins, Consume(l) PROVE TypeOK'
  <2>1. /\ login[l].read \in Time /\ login[l].read < LoginExpiry
        /\ login' \in [Logins -> Login]
    BY <1>9 DEF Consume, Login
  <2>2. ConsumedUntil(l) \in Nat
    BY <2>1 DEF ConsumedUntil
  <2> QED  BY <1>9, <2>1, <2>2 DEF Consume
<1>10. ASSUME Tick PROVE TypeOK'
  BY <1>10 DEF Tick
<1>11. CASE UNCHANGED vars
  BY <1>11 DEF vars
<1> QED
  BY <1>1, <1>2, <1>3, <1>4, <1>5, <1>6, <1>7, <1>8, <1>9, <1>10, <1>11 DEF Next

\* The variables are always of their types.
THEOREM TypeCorrect == Spec => []TypeOK
<1> QED  BY InitType, NextType, PTL DEF Spec

-----------------------------------------------------------------------------
(* Forced refreshes.                                                       *)

Underway(c) == change[c].at \in {"clock", "force"}

\* Changes that were made, their forced refresh too or not yet.
Made == settled \cup {change[c].what : c \in {d \in Changes : Underway(d) /\ change[d].done}}

\* Tokens with a date, given out or not yet.
Dated == tokens \cup {issuing[q].token : q \in {r \in Requests : issuing[r].at = "upsert"}}

\* An ended session gives out no more tokens; those it has are not younger.
EndStands(e) ==
    e.kind = "end" =>
        /\ sessions[e.session] = "invalidated"
        /\ \A t \in tokens : t.session = e.session => t.issued <= e.clock

\* A token that was dated later has the changed roles, or read them before.
RolesStand(e) ==
    e.kind = "roles" =>
        /\ e.roles <= roles
        /\ \A t \in Dated : t.roles < e.roles /\ t.issued > e.clock => t.raced

\* Nothing is dated later than now.
TimesInv ==
    /\ key.time <= now
    /\ \A t \in Dated : t.issued <= now
    /\ \A c \in Changes : Underway(c) => change[c].what.clock <= now
    /\ \A e \in settled : e.clock <= now

MadeInv == \A e \in Made : EndStands(e) /\ RolesStand(e)

\* The time in redis is that of a settled change or a later one, until no
\* token as old as the change is left.
KeyInv == \A e \in settled : e.clock + TTL < now \/ (key # NoKey /\ key.time >= e.clock)

RefreshInv == TypeOK /\ TimesInv /\ MadeInv /\ KeyInv

LEMMA InitRefresh == Init => RefreshInv
<1> SUFFICES ASSUME Init PROVE RefreshInv
  OBVIOUS
<1>1. Dated = {} /\ Made = {} /\ \A c \in Changes : ~Underway(c)
  BY DEF Init, Dated, Made, Underway, Idle
<1> QED
  BY <1>1, InitType DEF Init, RefreshInv, TimesInv, MadeInv, KeyInv, NoKey

\* Issuing: the steps that leave alone what the changes do and when.
LEMMA IssuingRefresh ==
  ASSUME RefreshInv, NEW q \in Requests, ReadRoles(q) \/ Sign(q) \/ Upsert(q)
  PROVE  RefreshInv'
<1>1. TypeOK' /\ TypeOK
  BY NextType DEF RefreshInv, Next
<1>2. Made' = Made /\ UNCHANGED <<now, roles, key, change, settled>>
  BY DEF ReadRoles, Sign, Upsert, Made, Underway, changing
<1>3. ASSUME NEW t \in Dated', t \notin Dated
      PROVE  t.issued <= now /\ (t.roles # roles => t.raced)
  <2>1. issuing' = [issuing EXCEPT ![q] = issuing'[q]] /\ tokens \subseteq Dated
    BY <1>1 DEF ReadRoles, Sign, Upsert, Issue, TypeOK, Dated
  <2>2. \A r \in Requests \ {q} : issuing'[r] = issuing[r]
    BY <1>1, <2>1 DEF TypeOK
  <2>3. CASE ReadRoles(q) \/ Upsert(q)
    <3>1. tokens' \subseteq Dated /\ issuing'[q].at # "upsert"
      BY <1>1, <2>3 DEF ReadRoles, Upsert, Issue, TypeOK, Dated, Over
    <3> QED  BY <1>3, <2>2, <3>1 DEF Dated
  <2>4. CASE Sign(q)
    <3>1. tokens' = tokens /\ t = issuing'[q].token
      BY <1>3, <2>2, <2>4 DEF Sign, Dated
    <3>2. issuing'[q].token.issued = now
      BY <1>1, <2>4 DEF Sign, Issue, TypeOK
    <3>3. issuing'[q].token.roles # roles => issuing'[q].token.raced
      BY <1>1, <2>4 DEF Sign, Issue, TypeOK
    <3>4. now <= now
      BY <1>1 DEF TypeOK, Time
    <3> QED  BY <3>1, <3>2, <3>3, <3>4
  <2> QED  BY <2>3, <2>4
<1>4. ASSUME NEW t \in tokens', t \notin tokens
      PROVE  t \in Dated /\ sessions[t.session] # "invalidated"
  BY <1>4 DEF ReadRoles, Sign, Upsert, Dated, StillValid
<1>5. \A s \in SessionIDs : sessions[s] = "invalidated" => sessions'[s] = "invalidated"
  BY <1>1 DEF ReadRoles, Sign, Upsert, TypeOK
<1>6. TimesInv'
  BY <1>2, <1>3 DEF RefreshInv, TimesInv, Underway
<1>7. ASSUME NEW e \in Made PROVE EndStands(e)' /\ RolesStand(e)'
  <2>1. e \in Settled
    BY <1>1, StateShapes DEF Made, Underway, TypeOK
  <2>2. EndStands(e) /\ RolesStand(e)
    BY DEF RefreshInv, MadeInv
  <2>3. EndStands(e)'
    BY <1>4, <1>5, <2>1, <2>2 DEF EndStands, Settled
  <2>4. ASSUME NEW t \in Dated', e.kind = "roles", t.roles < e.roles, t.issued > e.clock
        PROVE  t.raced
    <3>1. CASE t \in Dated
      BY <2>2, <2>4, <3>1 DEF RolesStand
    <3>2. CASE t \notin Dated
      <4>1. t.roles # roles
        BY <1>1, <2>1, <2>2, <2>4 DEF RolesStand, Settled, TypeOK
      <4> QED  BY <1>3, <3>2, <4>1
    <3> QED  BY <3>1, <3>2
  <2>5. RolesStand(e)'
    BY <1>2, <2>2, <2>4 DEF RolesStand
  <2> QED  BY <2>3, <2>5
<1>8. MadeInv'
  BY <1>2, <1>7 DEF MadeInv
<1> QED
  BY <1>1, <1>2, <1>6, <1>8 DEF RefreshInv, KeyInv

\* What the steps of the changes have in common: what was made before stays
\* so, and the step answers for what it makes.
LEMMA ChangesRefresh ==
  ASSUME RefreshInv, TypeOK', NEW c \in Changes,
         UNCHANGED <<now, tokens, issuing>>,
         \A d \in Changes \ {c} : change'[d] = change[d],
         \A s \in SessionIDs : sessions[s] = "invalidated" => sessions'[s] = "invalidated",
         roles <= roles',
         Underway(c)' => change'[c].what.clock <= now,
         \A e \in Made' : e \in Made \/ (EndStands(e)' /\ RolesStand(e)'),
         key'.time <= now,
         \A e \in settled' : e.clock <= now,
         KeyInv'
  PROVE  RefreshInv'
<1>1. Dated' = Dated
  BY DEF Dated
<1>2. TimesInv'
  BY <1>1 DEF RefreshInv, TimesInv, Underway
<1>3. ASSUME NEW e \in Made PROVE EndStands(e)' /\ RolesStand(e)'
  <2>1. e \in Settled
    BY StateShapes DEF RefreshInv, Made, Underway, TypeOK
  <2>2. EndStands(e) /\ RolesStand(e)
    BY DEF RefreshInv, MadeInv
  <2>3. EndStands(e)'
    BY <2>1, <2>2 DEF EndStands, Settled
  <2>4. RolesStand(e)'
    BY <1>1, <2>1, <2>2 DEF RolesStand, Settled, RefreshInv, TypeOK
  <2> QED  BY <2>3, <2>4
<1> QED
  BY <1>2, <1>3 DEF RefreshInv, MadeInv

\* A session ends or the roles change: no token is dated after it.
LEMMA MakeRefresh ==
  ASSUME RefreshInv, NEW c \in Changes, InvalidateSession(c) \/ ChangeRoles(c)
  PROVE  RefreshInv'
<1>1. TypeOK' /\ TypeOK
  BY NextType DEF RefreshInv, Next
<1>2. UNCHANGED <<now, tokens, issuing, key, settled>>
  BY DEF InvalidateSession, ChangeRoles, session
<1>3. \A d \in Changes \ {c} : change'[d] = change[d]
  BY <1>1 DEF InvalidateSession, ChangeRoles, Goto, TypeOK
<1>4. \A s \in SessionIDs : sessions[s] = "invalidated" => sessions'[s] = "invalidated"
  BY <1>1 DEF InvalidateSession, ChangeRoles, session, TypeOK
<1>5. roles \in Nat /\ roles <= roles' /\ now \in Int
  <2>1. roles' = roles \/ roles' = roles + 1
    BY DEF InvalidateSession, ChangeRoles
  <2> QED  BY <1>1, <2>1 DEF TypeOK, Time
<1>6. /\ change'[c].what.clock = now
      /\ change'[c].what.roles <= roles'
      /\ change'[c].what.kind = "end" /\ change'[c].done =>
            sessions'[change'[c].what.session] = "invalidated"
  <2>1. CASE InvalidateSession(c)
    BY <1>1, <1>5, <2>1 DEF InvalidateSession, Goto, What, TypeOK
  <2>2. CASE ChangeRoles(c)
    BY <1>1, <1>5, <2>2 DEF ChangeRoles, Goto, What, TypeOK
  <2> QED  BY <2>1, <2>2
<1>7. ASSUME NEW e \in Made', e \notin Made PROVE EndStands(e)' /\ RolesStand(e)'
  <2>1. e = change'[c].what /\ change'[c].done
    BY <1>2, <1>3, <1>7 DEF Made, Underway
  <2>2. Dated' = Dated /\ tokens \subseteq Dated
    BY <1>2 DEF Dated
  <2>3. \A t \in Dated : t.issued <= now /\ t.issued \in Int
    BY <1>1, StateShapes DEF RefreshInv, TimesInv, Dated, TypeOK, Token, Time
  <2>4. EndStands(e)'
    BY <1>2, <1>6, <2>1, <2>2, <2>3 DEF EndStands
  <2>5. RolesStand(e)'
    BY <1>2, <1>5, <1>6, <2>1, <2>2, <2>3 DEF RolesStand
  <2> QED  BY <2>4, <2>5
<1>8. KeyInv' /\ key'.time <= now /\ \A e \in settled' : e.clock <= now
  BY <1>2 DEF RefreshInv, TimesInv, KeyInv
<1>9. change'[c].what.clock <= now
  BY <1>5, <1>6
<1> QED
  BY <1>1, <1>2, <1>3, <1>4, <1>5, <1>7, <1>8, <1>9, ChangesRefresh

\* The time is taken again: it is not earlier.
LEMMA ClockRefresh ==
  ASSUME RefreshInv, NEW c \in Changes, TakeClock(c)
  PROVE  RefreshInv'
<1>1. TypeOK' /\ TypeOK
  BY NextType DEF RefreshInv, Next
<1>2. UNCHANGED <<now, tokens, issuing, key, settled, sessions, roles>>
  BY DEF TakeClock, session
<1>3. \A d \in Changes \ {c} : change'[d] = change[d]
  BY <1>1 DEF TakeClock, Goto, TypeOK
<1>4. now \in Int /\ roles \in Nat
  BY <1>1 DEF TypeOK, Time
<1>5. change[c].what \in Settled /\ Underway(c)
  BY <1>1, StateShapes DEF TakeClock, TypeOK, Underway
<1>6. /\ change'[c].what = [change[c].what EXCEPT !.clock = now]
      /\ change'[c].done = change[c].done
  <2>1. change[c] \in [at : {"clock", "force"}, done : BOOLEAN, what : Settled]
    BY <1>1, StateShapes DEF TakeClock, TypeOK
  <2> QED  BY <1>1, <2>1 DEF TakeClock, Goto, TypeOK
<1>7. ASSUME NEW e \in Made', e \notin Made PROVE EndStands(e)' /\ RolesStand(e)'
  <2> DEFINE w == change[c].what
  <2>1. e = [w EXCEPT !.clock = now] /\ change[c].done
    BY <1>2, <1>3, <1>6, <1>7 DEF Made, Underway
  <2>2. w \in Made
    BY <1>5, <2>1 DEF Made
  <2>3. EndStands(w) /\ RolesStand(w)
    BY <2>2 DEF RefreshInv, MadeInv
  <2>4. Dated' = Dated /\ tokens \subseteq Dated
    BY <1>2 DEF Dated
  <2>5. \A t \in Dated : t.issued <= now /\ t.issued \in Int
    BY <1>1, StateShapes DEF RefreshInv, TimesInv, Dated, TypeOK, Token, Time
  <2>6. e.clock = now /\ e.kind = w.kind /\ e.session = w.session /\ e.roles = w.roles
    BY <1>5, <2>1 DEF Settled
  <2>7. EndStands(e)'
    BY <1>2, <2>3, <2>4, <2>5, <2>6 DEF EndStands
  <2>8. RolesStand(e)'
    BY <1>2, <1>4, <2>3, <2>4, <2>5, <2>6 DEF RolesStand
  <2> QED  BY <2>7, <2>8
<1>8. KeyInv' /\ key'.time <= now /\ \A e \in settled' : e.clock <= now
  BY <1>2 DEF RefreshInv, TimesInv, KeyInv
<1>9. change'[c].what.clock <= now /\ roles <= roles'
  BY <1>2, <1>4, <1>5, <1>6 DEF Settled
<1> QED
  BY <1>1, <1>2, <1>3, <1>7, <1>8, <1>9, ChangesRefresh

\* The time reaches redis, or a later one is there.
LEMMA SetRefresh ==
  ASSUME RefreshInv, NEW c \in Changes, SetTime(c)
  PROVE  RefreshInv'
<1>1. TypeOK' /\ TypeOK
  BY NextType DEF RefreshInv, Next
<1> DEFINE w == change[c].what
<1>2. UNCHANGED <<now, tokens, issuing, sessions, roles>>
  BY DEF SetTime, session
<1>3. /\ \A d \in Changes \ {c} : change'[d] = change[d]
      /\ ~Underway(c)'
  BY <1>1 DEF SetTime, Goto, TypeOK, Underway, Over
<1>4. /\ now \in Nat /\ roles \in Nat /\ TTL \in Nat /\ Wiggle \in Nat \ {0}
      /\ key.time \in Nat /\ key.until \in Nat
      /\ key # NoKey => key.until > key.time + TTL
  BY <1>1, SessionsAssumption DEF TypeOK, Time
<1>5. w \in Settled /\ Underway(c) /\ w.clock \in Nat /\ w.clock <= now
  BY <1>1, StateShapes DEF SetTime, TypeOK, Underway, Settled, RefreshInv, TimesInv, Time
<1>6. Made' \subseteq Made /\ settled \subseteq Made /\ settled' \subseteq settled \cup {w}
  <2>1. \A e \in settled' : e \in settled \/ (e = w /\ change[c].done)
    BY DEF SetTime
  <2> QED  BY <1>3, <1>5, <2>1 DEF Made, Underway
<1>7. \A e \in settled' : e.clock <= now /\ e.clock \in Nat
  BY <1>1, <1>5, <1>6 DEF RefreshInv, TimesInv, Settled, TypeOK, Time
<1>8. /\ key' \in {key, [time |-> w.clock, until |-> KeyUntil(w.clock)]}
      /\ key' # key => ~KeyThere \/ key.time < w.clock
  BY DEF SetTime, SetsKey
<1>9. [time |-> w.clock, until |-> KeyUntil(w.clock)] # NoKey
  BY <1>4, <1>5 DEF NoKey, KeyUntil
<1>10. key'.time <= now
  BY <1>5, <1>8 DEF RefreshInv, TimesInv
<1>11. ASSUME NEW e \in settled
       PROVE  e.clock + TTL < now \/ (key' # NoKey /\ key'.time >= e.clock)
  <2>1. e.clock + TTL < now \/ (key # NoKey /\ key.time >= e.clock)
    BY DEF RefreshInv, KeyInv
  <2>2. e.clock \in Nat
    BY <1>1 DEF TypeOK, Settled, Time
  <2>3. CASE key' = key
    BY <2>1, <2>3
  <2>4. CASE key' # key
    <3>1. key'.time = w.clock /\ key' # NoKey
      BY <1>8, <1>9, <2>4
    <3>2. CASE ~KeyThere
      BY <1>4, <2>1, <2>2, <3>1, <3>2 DEF KeyThere
    <3>3. CASE key.time < w.clock
      BY <1>4, <1>5, <2>1, <2>2, <3>1, <3>3
    <3> QED  BY <1>8, <2>4, <3>2, <3>3
  <2> QED  BY <2>3, <2>4
<1>12. ASSUME w \in settled', w \notin settled
       PROVE  key' # NoKey /\ key'.time >= w.clock
  <2>1. key' = IF SetsKey(w.clock) THEN [time |-> w.clock, until |-> KeyUntil(w.clock)] ELSE key
    BY <1>12 DEF SetTime
  <2>2. CASE SetsKey(w.clock)
    BY <1>5, <1>9, <2>1, <2>2
  <2>3. CASE ~SetsKey(w.clock)
    BY <1>4, <1>5, <2>1, <2>3 DEF SetsKey, KeyThere, NoKey
  <2> QED  BY <2>2, <2>3
<1>13. KeyInv'
  BY <1>2, <1>6, <1>11, <1>12 DEF KeyInv
<1> QED
  BY <1>1, <1>2, <1>3, <1>4, <1>6, <1>7, <1>10, <1>13, ChangesRefresh

LEMMA NextRefresh == RefreshInv /\ [Next]_vars => RefreshInv'
<1> SUFFICES ASSUME RefreshInv, [Next]_vars PROVE RefreshInv'
  OBVIOUS
<1>1. TypeOK' /\ TypeOK
  BY NextType DEF RefreshInv
<1>2. ASSUME UNCHANGED <<session, changing>>, now' \in {now, now + 1} PROVE RefreshInv'
  <2>1. UNCHANGED <<sessions, tokens, issuing, roles, key, change, settled>>
    BY <1>2 DEF session, changing
  <2>2. Made' = Made /\ Dated' = Dated /\ \A c \in Changes : Underway(c)' <=> Underway(c)
    BY <2>1 DEF Made, Dated, Underway
  <2>3. /\ now \in Nat /\ key.time \in Nat /\ TTL \in Nat
        /\ \A e \in settled : e.clock \in Nat
        /\ \A t \in Dated : t.issued \in Nat
        /\ \A c \in Changes : Underway(c) => change[c].what.clock \in Nat
    BY <1>1, StateShapes, SessionsAssumption DEF TypeOK, Time, Settled, Dated, Token, Underway
  <2>4. TimesInv'
    BY <1>2, <2>1, <2>2, <2>3 DEF RefreshInv, TimesInv
  <2>5. MadeInv'
    BY <2>1, <2>2 DEF RefreshInv, MadeInv, EndStands, RolesStand
  <2>6. KeyInv'
    BY <1>2, <2>1, <2>3 DEF RefreshInv, KeyInv
  <2> QED  BY <1>1, <2>4, <2>5, <2>6 DEF RefreshInv
<1>3. CASE \E l \in Logins : ReadLoginToken(l) \/ Consume(l)
  BY <1>2, <1>3 DEF ReadLoginToken, Consume
<1>4. CASE Tick \/ UNCHANGED vars
  BY <1>2, <1>4 DEF Tick, vars, session, changing
<1> QED
  BY <1>3, <1>4, IssuingRefresh, MakeRefresh, ClockRefresh, SetRefresh DEF Next

-----------------------------------------------------------------------------
(* Logins.                                                                 *)

\* A login that has read the token is not older than the minute, and once the
\* token has let one in, redis knows it as used until such a login is over.
LoginInv ==
    /\ TypeOK
    /\ \A l \in Logins : login[l].at = "read" => login[l].read <= now /\ now - login[l].read <= Wiggle
    /\ used # {} => consumed >= LoginExpiry + Wiggle
    /\ \A l \in used, m \in used : l = m

LEMMA InitLogin == Init => LoginInv
  BY InitType DEF Init, LoginInv, Idle

LEMMA NextLogin == LoginInv /\ [Next]_vars => LoginInv'
<1> SUFFICES ASSUME LoginInv, [Next]_vars PROVE LoginInv'
  OBVIOUS
<1>1. TypeOK' /\ TypeOK
  BY NextType DEF LoginInv
<1>2. now \in Nat /\ consumed \in Nat /\ Wiggle \in Nat \ {0} /\ LoginExpiry \in Nat
  BY <1>1, SessionsAssumption DEF TypeOK, Time
<1>3. \A l \in Logins : login[l].at = "read" => login[l].read \in Nat /\ login[l].read < LoginExpiry
  BY <1>1, StateShapes DEF TypeOK, Time
<1>4. ASSUME UNCHANGED <<now, loggingIn>> PROVE LoginInv'
  BY <1>1, <1>4 DEF LoginInv, loggingIn
<1>5. ASSUME NEW l \in Logins, ReadLoginToken(l) PROVE LoginInv'
  BY <1>1, <1>2, <1>5 DEF LoginInv, ReadLoginToken, TypeOK
<1>6. ASSUME NEW l \in Logins, Consume(l) PROVE LoginInv'
  <2>1. now - login[l].read <= Wiggle /\ login[l].read <= now
    BY <1>6 DEF LoginInv, Consume
  <2>2. login[l].read \in Nat /\ login[l].read < LoginExpiry
    BY <1>3, <1>6 DEF Consume
  <2>3. \A m \in Logins : login'[m].at = "read" => login'[m] = login[m]
    BY <1>1, <1>6 DEF Consume, TypeOK, Over
  <2>4. CASE UNCHANGED <<consumed, used>>
    BY <1>1, <1>6, <2>3, <2>4 DEF LoginInv, Consume
  <2>5. CASE ~UNCHANGED <<consumed, used>>
    <3>1. now >= consumed /\ consumed' = ConsumedUntil(l) /\ used' = used \cup {l}
      BY <1>6, <2>5 DEF Consume
    <3>2. used = {}
      BY <1>2, <2>1, <2>2, <3>1 DEF LoginInv
    <3>3. consumed' >= LoginExpiry + Wiggle
      BY <1>2, <2>1, <2>2, <3>1 DEF ConsumedUntil
    <3>4. \A k \in used', m \in used' : k = m
      BY <3>1, <3>2
    <3> QED  BY <1>1, <1>6, <2>3, <3>3, <3>4 DEF LoginInv, Consume
  <2> QED  BY <2>4, <2>5
<1>7. CASE Tick
  <2>1. UNCHANGED <<login, consumed, used>> /\ now' = now + 1
    BY <1>7 DEF Tick, loggingIn
  <2>2. \A l \in Logins : login[l].at = "read" => now' - login[l].read <= Wiggle
    BY <1>2, <1>3, <1>7, <2>1 DEF Tick
  <2> QED  BY <1>1, <1>2, <1>3, <2>1, <2>2 DEF LoginInv
<1> QED
  BY <1>4, <1>5, <1>6, <1>7 DEF Next, ReadRoles, Sign, Upsert, InvalidateSession, ChangeRoles,
     TakeClock, SetTime, vars, loggingIn

-----------------------------------------------------------------------------
(* The theorems.                                                           *)

\* Changes that were made stand, and redis has their time or a later one.
THEOREM RefreshCorrect == Spec => []RefreshInv
<1> QED  BY InitRefresh, NextRefresh, PTL DEF Spec

\* A token of a time before a settled change's does not let a request in: as
\* long as it has not expired, redis has a time after it.
LEMMA OlderIsRefused ==
  ASSUME RefreshInv, NEW e \in settled, NEW t \in tokens, Accepted(t)
  PROVE  t.issued >= e.clock
<1>1. /\ now \in Nat /\ TTL \in Nat /\ key.time \in Nat /\ key.until \in Nat
      /\ t.issued \in Nat /\ e.clock \in Nat
      /\ key # NoKey => key.until > key.time + TTL
  BY SessionsAssumption DEF RefreshInv, TypeOK, Time, Token, Settled
<1>2. now < t.issued + TTL /\ ~(now < key.until /\ t.issued < key.time)
  BY DEF Accepted, Unexpired, MustRefresh, KeyThere
<1>3. e.clock + TTL < now \/ (key # NoKey /\ key.time >= e.clock)
  BY DEF RefreshInv, KeyInv
<1> QED  BY <1>1, <1>2, <1>3

\* Once a session was ended and the refresh forced, none of its tokens lets a
\* request in but one of that second, whatever else ended, changed or was
\* issued meanwhile and in whatever order the times reached redis.
THEOREM EndedSessionsAreOut == Spec => []SessionsInv
<1>1. ASSUME RefreshInv PROVE EndHolds
  <2> SUFFICES ASSUME NEW e \in settled, e.kind = "end", NEW t \in tokens,
                      t.session = e.session, Accepted(t)
               PROVE  t.issued = e.clock
    BY DEF EndHolds
  <2>1. t.issued >= e.clock
    BY <1>1, OlderIsRefused
  <2>2. t.issued <= e.clock
    BY <1>1 DEF RefreshInv, MadeInv, Made, EndStands
  <2>3. t.issued \in Nat /\ e.clock \in Nat
    BY <1>1 DEF RefreshInv, TypeOK, Token, Settled, Time
  <2> QED  BY <2>1, <2>2, <2>3
<1>2. RefreshInv => SessionsInv
  BY <1>1 DEF RefreshInv, SessionsInv
<1> QED  BY <1>2, RefreshCorrect, PTL

\* Once the roles were changed and the refresh forced, no token with older
\* roles lets a request in, but for those of that second and those whose roles
\* had been read before the change and that were dated after it.
THEOREM ChangedRolesHold == Spec => []RolesHold
<1>1. ASSUME RefreshInv PROVE RolesHold
  <2> SUFFICES ASSUME NEW e \in settled, e.kind = "roles", NEW t \in tokens,
                      t.roles < e.roles, Accepted(t)
               PROVE  t.issued = e.clock \/ (t.raced /\ t.issued > e.clock)
    BY DEF RolesHold
  <2>1. t.issued >= e.clock
    BY <1>1, OlderIsRefused
  <2>2. t.issued > e.clock => t.raced
    BY <1>1 DEF RefreshInv, MadeInv, Made, RolesStand, Dated
  <2>3. t.issued \in Nat /\ e.clock \in Nat
    BY <1>1 DEF RefreshInv, TypeOK, Token, Settled, Time
  <2> QED  BY <2>1, <2>2, <2>3
<1> QED  BY <1>1, RefreshCorrect, PTL

\* A one-time login token lets one login in, however many read it while it was
\* valid and whenever they got to redis.
THEOREM OneTimeToken == Spec => []UsedOnce
<1>1. ASSUME LoginInv PROVE UsedOnce
  <2>1. CASE used = {}
    BY <2>1, FS_EmptySet DEF UsedOnce
  <2>2. CASE used # {}
    <3>1. PICK l \in used : used = {l}
      BY <1>1, <2>2 DEF LoginInv
    <3> QED  BY <3>1, FS_Singleton DEF UsedOnce
  <2> QED  BY <2>1, <2>2
<1>2. Spec => []LoginInv
  BY InitLogin, NextLogin, PTL DEF Spec
<1> QED  BY <1>1, <1>2, PTL
=============================================================================
