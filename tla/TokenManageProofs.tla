------------------------- MODULE TokenManageProofs -------------------------
(***************************************************************************)
(* Proofs about TokenManage, for any number of tokens, contracts and runs, *)
(* any retry limits and any failures.                                      *)
(***************************************************************************)
EXTENDS TokenManage, TLAPS

\* The initial state has the types declared for it.
LEMMA InitType == Init => TypeOK
  BY TokenManageAssumption DEF Init, TypeOK, Locations

LEMMA StepType ==
  ASSUME TypeOK, NEW r \in Runs, Step(r)
  PROVE  TypeOK'
<1> USE TokenManageAssumption DEF TypeOK, redis, locals, history, Goto, Fault, NoFault,
        Token, Contract, Locations, Holding
<1>1. CASE CheckPaused(r)
  BY <1>1 DEF CheckPaused
<1>2. CASE IsLocked(r)
  BY <1>2 DEF IsLocked
<1>3. CASE SetLock(r)
  BY <1>3 DEF SetLock, Job
<1>4. CASE RunJob(r)
  BY <1>4 DEF RunJob
<1>5. CASE SaveResult(r)
  BY <1>5 DEF SaveResult, Saved
<1>6. CASE SaveTurnedAway(r)
  BY <1>6 DEF SaveTurnedAway, Saved
<1>7. CASE StopKeepAlive(r)
  BY <1>7 DEF StopKeepAlive, GoroutineEnds, RecordOrRetry
<1>8. CASE RecordErrorPaused(r)
  BY <1>8 DEF RecordErrorPaused
<1>9. CASE CountError(r)
  BY <1>9 DEF CountError, Job
<1>10. CASE PauseContract(r)
  BY <1>10 DEF PauseContract, Job
<1>11. CASE TryRetry(r)
  BY <1>11 DEF TryRetry
<1>12. CASE Finish(r)
  BY <1>12 DEF Finish, SetInflight, Job
<1>13. CASE Enqueue(r)
  BY <1>13 DEF Enqueue, SetInflight, Job
<1>14. CASE SubmitTokenForRetry(r)
  BY <1>14 DEF SubmitTokenForRetry, Job, Kinds
<1>15. CASE Unlock(r)
  BY <1>15 DEF Unlock, Job
<1>16. CASE Ack(r)
  BY <1>16 DEF Ack
<1> QED
  BY <1>1, <1>2, <1>3, <1>4, <1>5, <1>6, <1>7, <1>8, <1>9, <1>10, <1>11, <1>12,
     <1>13, <1>14, <1>15, <1>16 DEF Step

LEMMA OtherType ==
  ASSUME TypeOK, Next, \A r \in Runs : ~Step(r)
  PROVE  TypeOK'
<1> USE TokenManageAssumption DEF TypeOK, redis, locals, history, Goto, Fault, NoFault,
        Token, Contract, Locations, Holding
<1>1. CASE \E t \in Tokens : MarkSubmitted(t)
  BY <1>1 DEF MarkSubmitted
<1>2. CASE \E t \in Tokens : SendSubmitted(t)
  BY <1>2 DEF SendSubmitted, Job, Kinds
<1>3. CASE \E t \in Tokens : ExpireLock(t)
  BY <1>3 DEF ExpireLock
<1>4. CASE \E t \in Tokens : ExpireInflight(t)
  BY <1>4 DEF ExpireInflight
<1>5. CASE \E c \in Contracts : ExpirePause(c)
  BY <1>5 DEF ExpirePause
<1>6. CASE \E c \in Contracts : Refill(c)
  BY <1>6 DEF Refill
<1>7. CASE \E r \in Runs : DeliverAny(r)
  BY <1>7 DEF DeliverAny, Deliver, Begin
<1>8. CASE \E r \in Runs : \E t \in Tokens : Refresh(r, t)
  BY <1>8 DEF Refresh, Begin, Job, Kinds
<1>9. CASE \E r \in Runs : KeepAlive(r)
  BY <1>9 DEF KeepAlive
<1>10. CASE \E r \in Runs : Crash(r)
  BY <1>10 DEF Crash, Marking, Job
<1> QED
  BY <1>1, <1>2, <1>3, <1>4, <1>5, <1>6, <1>7, <1>8, <1>9, <1>10 DEF Next

LEMMA NextType == TypeOK /\ [Next]_vars => TypeOK'
<1>1. TypeOK /\ Next => TypeOK'
  BY StepType, OtherType
<1>2. TypeOK /\ UNCHANGED vars => TypeOK'
  BY DEF TypeOK, vars, redis, locals, history, Token, Contract
<1> QED  BY <1>1, <1>2

\* Every reachable state has the declared types.
THEOREM TypeCorrect == Spec => []TypeOK
  BY InitType, NextType, PTL DEF Spec

-----------------------------------------------------------------------------
(* The lock and the keep-alive goroutine.                                  *)

\* The goroutine that rewrites the "inflight:" key runs only between the lock
\* and the callback's wait for it.
BeatWithinRun ==
    \A r \in Runs : beat[r] # "off" => pc[r] \in {"run", "save", "stop"}

\* BeatWithinRun is what makes ProcessingHasRunner inductive: the goroutine
\* can only write the key while its own run counts among the markers.
LockInv ==
    /\ TypeOK
    /\ BeatWithinRun
    /\ LockHasHolder
    /\ ProcessingHasRunner
    /\ Timely => MutexUnlessRaced

LEMMA InitLock == Init => LockInv
<1> SUFFICES ASSUME Init PROVE LockInv
  OBVIOUS
<1>1. TypeOK
  BY InitType
<1>2. BeatWithinRun /\ LockHasHolder /\ ProcessingHasRunner /\ MutexUnlessRaced
  BY DEF Init, BeatWithinRun, LockHasHolder, ProcessingHasRunner, MutexUnlessRaced,
         Holders, Markers, Holding, Marking
<1> QED  BY <1>1, <1>2 DEF LockInv

\* A step of a run that stays inside, or stays outside, what Holding and Marking
\* cover, and touches neither key, preserves the invariant.
LEMMA QuietStep ==
  ASSUME LockInv, TypeOK', NEW r \in Runs, NEW l \in Locations,
         pc' = [pc EXCEPT ![r] = l],
         l \in Holding <=> pc[r] \in Holding,
         l \in Marking <=> pc[r] \in Marking,
         beat' = beat \/ beat' = [beat EXCEPT ![r] = "off"],
         beat'[r] # "off" => l \in {"run", "save", "stop"},
         pc[r] \in Holding => job' = job,
         job' = job \/ \E j : job' = [job EXCEPT ![r] = j],
         UNCHANGED <<lock, inflight, raced, orphaned>>
  PROVE  LockInv'
<1> USE DEF LockInv, TypeOK
<1>1. BeatWithinRun'
  BY DEF BeatWithinRun
<1>2. \A t \in Tokens : Holders(t)' = Holders(t) /\ Markers(t)' = Markers(t)
  BY DEF Holders, Markers, Token, Holding, Marking
<1>3. LockHasHolder' /\ ProcessingHasRunner'
  BY <1>2 DEF LockHasHolder, ProcessingHasRunner
<1>4. Timely => MutexUnlessRaced'
  BY <1>2 DEF MutexUnlessRaced
<1> QED  BY <1>1, <1>3, <1>4

\* Taking the lock adds the run to the holders and the markers of its token.
LEMMA TakeLock ==
  ASSUME LockInv, NEW r \in Runs, SetLock(r), Goto(r, "run")
  PROVE  LockInv'
<1> DEFINE T == Token(r)
<1>1. TypeOK'
  BY StepType DEF LockInv, Step
<1>2. BeatWithinRun'
  BY DEF SetLock, Goto, LockInv, BeatWithinRun, TypeOK
<1>3. /\ T \in Tokens /\ lock \subseteq Tokens
      /\ lock' = lock \cup {T}
      /\ raced' = IF T \in lock THEN raced \cup {T} ELSE raced
      /\ UNCHANGED <<orphaned, inflight>>
  BY DEF SetLock, Goto, LockInv, TypeOK, Job, Token
<1>4. \A t \in Tokens : Holders(t)' = IF t = T THEN Holders(t) \cup {r} ELSE Holders(t)
  BY DEF SetLock, Goto, LockInv, TypeOK, Holders, Token, Locations, Holding
<1>5. \A t \in Tokens : Markers(t) \subseteq Markers(t)'
  BY DEF SetLock, Goto, LockInv, TypeOK, Markers, Token, Locations, Holding, Marking
<1> HIDE DEF T
<1>6. LockHasHolder'
  <2>1. \A t \in Tokens : t \in lock => Holders(t)' # {} \/ <<t, "lock">> \in orphaned
    BY <1>3, <1>4 DEF LockInv, LockHasHolder
  <2>2. \A t \in Tokens : t = T => Holders(t)' # {}
    BY <1>3, <1>4
  <2> QED  BY <1>3, <2>1, <2>2 DEF LockHasHolder
<1>7. ProcessingHasRunner'
  BY <1>3, <1>5 DEF LockInv, ProcessingHasRunner
<1>8. ASSUME Timely PROVE MutexUnlessRaced'
  BY <1>3, <1>4, <1>8 DEF LockInv, MutexUnlessRaced
<1> QED  BY <1>1, <1>2, <1>6, <1>7, <1>8 DEF LockInv

LEMMA StepLock ==
  ASSUME LockInv, NEW r \in Runs, Step(r)
  PROVE  LockInv'
<1>1. TypeOK'
  BY StepType DEF LockInv
<1> USE DEF LockInv, TypeOK, redis, locals, history, Goto, Locations, Holding, Marking
<1>2. CASE CheckPaused(r)
  BY <1>1, <1>2, QuietStep DEF CheckPaused, BeatWithinRun
<1>3. CASE IsLocked(r)
  BY <1>1, <1>3, QuietStep DEF IsLocked, BeatWithinRun
<1>4. CASE SetLock(r)
  <2>1. CASE Goto(r, "turnedAway") /\ UNCHANGED <<lock, raced, beat>>
    BY <1>1, <1>4, <2>1, QuietStep DEF SetLock, BeatWithinRun
  <2>2. CASE Goto(r, "run")
    BY <1>4, <2>2, TakeLock DEF SetLock
  <2> QED  BY <1>4, <2>1, <2>2 DEF SetLock
<1>5. CASE RunJob(r)
  BY <1>1, <1>5, QuietStep DEF RunJob, BeatWithinRun
<1>6. CASE SaveResult(r)
  BY <1>1, <1>6, QuietStep DEF SaveResult, BeatWithinRun
<1>7. CASE SaveTurnedAway(r)
  BY <1>1, <1>7, QuietStep DEF SaveTurnedAway, BeatWithinRun
<1>8. CASE StopKeepAlive(r)
  <2>1. PICK l \in {"recPaused", "tryRetry"} : pc' = [pc EXCEPT ![r] = l]
    BY <1>8 DEF StopKeepAlive, GoroutineEnds, RecordOrRetry
  <2>2. /\ pc[r] = "stop"
        /\ beat' = [beat EXCEPT ![r] = "off"]
        /\ job' = job
        /\ UNCHANGED <<lock, inflight, raced, orphaned>>
    BY <1>8 DEF StopKeepAlive, GoroutineEnds, RecordOrRetry
  <2>3. beat'[r] = "off"
    BY <2>2
  <2> QED  BY <1>1, <2>1, <2>2, <2>3, QuietStep
<1>9. CASE RecordErrorPaused(r)
  BY <1>1, <1>9, QuietStep DEF RecordErrorPaused, BeatWithinRun
<1>10. CASE CountError(r)
  BY <1>1, <1>10, QuietStep DEF CountError, BeatWithinRun
<1>11. CASE PauseContract(r)
  BY <1>1, <1>11, QuietStep DEF PauseContract, BeatWithinRun
<1>12. CASE TryRetry(r)
  BY <1>1, <1>12, QuietStep DEF TryRetry, BeatWithinRun
<1>13. CASE Finish(r) \/ Enqueue(r)
  <2>1. BeatWithinRun'
    BY <1>13 DEF Finish, Enqueue, BeatWithinRun
  <2>2. \A t \in Tokens : Holders(t)' = Holders(t)
    BY <1>13 DEF Finish, Enqueue, Holders, Token
  <2>3. LockHasHolder' /\ (Timely => MutexUnlessRaced')
    BY <1>13, <2>2 DEF Finish, Enqueue, SetInflight, LockHasHolder, MutexUnlessRaced
  <2>4. \A t \in Tokens : t # Token(r) => Markers(t)' = Markers(t)
    BY <1>13 DEF Finish, Enqueue, Markers, Token
  <2>5. ProcessingHasRunner'
    BY <1>13, <2>4 DEF Finish, Enqueue, SetInflight, ProcessingHasRunner, Token
  <2> QED  BY <1>1, <2>1, <2>3, <2>5
<1>14. CASE SubmitTokenForRetry(r)
  BY <1>1, <1>14, QuietStep DEF SubmitTokenForRetry, BeatWithinRun
<1>15. CASE Unlock(r)
  <2>1. BeatWithinRun'
    BY <1>15 DEF Unlock, BeatWithinRun
  <2>2. \A t \in Tokens : Holders(t)' = Holders(t) \ {r} /\ Markers(t)' = Markers(t)
    BY <1>15 DEF Unlock, Holders, Markers, Token
  <2>3. \A t \in Tokens : t # Token(r) => r \notin Holders(t)
    BY DEF Holders
  <2>4. r \in Holders(Token(r))
    BY <1>15 DEF Unlock, Holders
  <2>5. LockHasHolder' /\ ProcessingHasRunner'
    BY <1>15, <2>2, <2>3 DEF Unlock, LockHasHolder, ProcessingHasRunner
  <2>6. ASSUME Timely PROVE MutexUnlessRaced'
    BY <1>15, <2>2, <2>3, <2>4, <2>6 DEF Unlock, MutexUnlessRaced
  <2> QED  BY <1>1, <2>1, <2>5, <2>6
<1>16. CASE Ack(r)
  BY <1>1, <1>16, QuietStep DEF Ack, BeatWithinRun
<1> QED
  BY <1>2, <1>3, <1>4, <1>5, <1>6, <1>7, <1>8, <1>9, <1>10, <1>11, <1>12,
     <1>13, <1>14, <1>15, <1>16 DEF Step

\* A step that leaves the runs and the locks alone, and marks nothing as being
\* processed, preserves the invariant.
LEMMA SameRuns ==
  ASSUME LockInv, TypeOK', UNCHANGED <<pc, job, beat, lock, raced, orphaned>>,
         \A t \in Tokens : inflight'[t] = "processing" => inflight[t] = "processing"
  PROVE  LockInv'
<1>1. \A t \in Tokens : Holders(t)' = Holders(t) /\ Markers(t)' = Markers(t)
  BY DEF Holders, Markers, Token
<1>2. BeatWithinRun' /\ LockHasHolder' /\ ProcessingHasRunner'
  BY <1>1 DEF LockInv, TypeOK, BeatWithinRun, LockHasHolder, ProcessingHasRunner
<1>3. Timely => MutexUnlessRaced'
  BY <1>1 DEF LockInv, MutexUnlessRaced
<1> QED  BY <1>2, <1>3 DEF LockInv

\* A crash takes a run out of the holders and the markers of its token, and
\* what it leaves in redis counts as orphaned.
LEMMA CrashLock ==
  ASSUME LockInv, NEW r \in Runs, Crash(r)
  PROVE  LockInv'
<1>1. TypeOK'
  BY NextType DEF LockInv, Next
<1>2. BeatWithinRun'
  BY DEF Crash, Goto, LockInv, TypeOK, BeatWithinRun
<1>3. /\ lock \subseteq Tokens
      /\ UNCHANGED <<lock, inflight, raced>>
      /\ orphaned \subseteq orphaned'
  BY DEF Crash, redis, LockInv, TypeOK
<1>4. \A t \in Tokens : Holders(t)' = Holders(t) \ {r} /\ Markers(t)' = Markers(t) \ {r}
  BY DEF Crash, Goto, LockInv, TypeOK, Holders, Markers, Token, Holding, Marking
<1>5. LockHasHolder'
  <2>1. ASSUME NEW t \in Tokens, NEW s \in Holders(t)
        PROVE  s \in Holders(t)' \/ <<t, "lock">> \in orphaned'
    <3>1. CASE s = r
      BY <3>1 DEF Crash, Holders
    <3>2. CASE s # r
      BY <1>4, <3>2
    <3> QED  BY <3>1, <3>2
  <2> QED  BY <1>3, <2>1 DEF LockInv, LockHasHolder
<1>6. ProcessingHasRunner'
  <2>1. ASSUME NEW t \in Tokens, NEW s \in Markers(t)
        PROVE  s \in Markers(t)' \/ <<t, "inflight">> \in orphaned'
    <3>1. CASE s = r
      BY <3>1 DEF Crash, Markers
    <3>2. CASE s # r
      BY <1>4, <3>2
    <3> QED  BY <3>1, <3>2
  <2> QED  BY <1>3, <2>1 DEF LockInv, ProcessingHasRunner
<1>7. ASSUME Timely PROVE MutexUnlessRaced'
  BY <1>3, <1>4, <1>7 DEF LockInv, MutexUnlessRaced
<1> QED  BY <1>1, <1>2, <1>5, <1>6, <1>7 DEF LockInv

\* The steps nobody's control flow takes, and those that start or end a run.
LEMMA OtherLock ==
  ASSUME LockInv, Next, \A r \in Runs : ~Step(r)
  PROVE  LockInv'
<1>1. TypeOK'
  BY NextType DEF LockInv
<1>2. CASE \E t \in Tokens : MarkSubmitted(t) \/ SendSubmitted(t)
  <2>1. /\ UNCHANGED <<pc, job, beat, lock, raced, orphaned>>
        /\ \A t \in Tokens : inflight'[t] = "processing" => inflight[t] = "processing"
    BY <1>2 DEF MarkSubmitted, SendSubmitted, redis, locals, history, LockInv, TypeOK
  <2> QED  BY <1>1, <2>1, SameRuns
<1>3. CASE \E c \in Contracts : ExpirePause(c) \/ Refill(c)
  <2>1. UNCHANGED <<pc, job, beat, lock, raced, orphaned, inflight>>
    BY <1>3 DEF ExpirePause, Refill, locals, history
  <2> QED  BY <1>1, <2>1, SameRuns
<1>4. CASE \E t \in Tokens : ExpireLock(t)
  <2> PICK t \in Tokens : ExpireLock(t)
    BY <1>4
  <2>1. /\ UNCHANGED <<pc, job, beat, raced, inflight>>
        /\ lock' = lock \ {t}
        /\ orphaned' = orphaned \ {<<t, "lock">>}
        /\ Timely => Holders(t) = {}
    BY DEF ExpireLock, locals
  <2>2. \A u \in Tokens : Holders(u)' = Holders(u) /\ Markers(u)' = Markers(u)
    BY <2>1 DEF Holders, Markers, Token
  <2>3. BeatWithinRun'
    BY <2>1 DEF LockInv, BeatWithinRun
  <2>4. LockHasHolder' /\ ProcessingHasRunner'
    BY <2>1, <2>2 DEF LockInv, TypeOK, LockHasHolder, ProcessingHasRunner
  <2>5. ASSUME Timely PROVE MutexUnlessRaced'
    BY <2>1, <2>2, <2>5 DEF LockInv, MutexUnlessRaced
  <2> QED  BY <1>1, <2>3, <2>4, <2>5 DEF LockInv
<1>5. CASE \E t \in Tokens : ExpireInflight(t)
  <2> PICK t \in Tokens : ExpireInflight(t)
    BY <1>5
  <2>1. /\ UNCHANGED <<pc, job, beat, raced, lock>>
        /\ inflight' = [inflight EXCEPT ![t] = "none"]
        /\ orphaned' = orphaned \ {<<t, "inflight">>}
    BY DEF ExpireInflight, locals
  <2>2. \A u \in Tokens : Holders(u)' = Holders(u) /\ Markers(u)' = Markers(u)
    BY <2>1 DEF Holders, Markers, Token
  <2>3. BeatWithinRun'
    BY <2>1 DEF LockInv, BeatWithinRun
  <2>4. LockHasHolder' /\ ProcessingHasRunner'
    BY <2>1, <2>2 DEF LockInv, TypeOK, LockHasHolder, ProcessingHasRunner
  <2>5. ASSUME Timely PROVE MutexUnlessRaced'
    BY <2>1, <2>2, <2>5 DEF LockInv, MutexUnlessRaced
  <2> QED  BY <1>1, <2>3, <2>4, <2>5 DEF LockInv
<1>6. CASE \E r \in Runs : DeliverAny(r) \/ \E t \in Tokens : Refresh(r, t)
  <2> PICK r \in Runs : DeliverAny(r) \/ \E t \in Tokens : Refresh(r, t)
    BY <1>6
  <2>1. PICK j : job' = [job EXCEPT ![r] = j]
    BY DEF DeliverAny, Deliver, Refresh, Begin
  <2>2. /\ pc[r] = "idle"
        /\ pc' = [pc EXCEPT ![r] = "checkPaused"]
        /\ UNCHANGED <<beat, lock, inflight, raced, orphaned>>
    BY DEF DeliverAny, Deliver, Refresh, Begin, Goto, redis, history
  <2>3. /\ "checkPaused" \in Locations
        /\ {"checkPaused", "idle"} \cap (Holding \cup Marking) = {}
    BY DEF Locations, Holding, Marking
  <2>4. beat'[r] = "off"
    BY <2>2 DEF LockInv, TypeOK, BeatWithinRun
  <2> QED  BY <1>1, <2>1, <2>2, <2>3, <2>4, QuietStep
<1>7. CASE \E r \in Runs : KeepAlive(r)
  <2> PICK r \in Runs : KeepAlive(r)
    BY <1>7
  <2>1. /\ UNCHANGED <<pc, job, lock, raced, orphaned>>
        /\ beat[r] # "off" /\ beat' = [beat EXCEPT ![r] = "ticking"]
        /\ inflight' \in {inflight, [inflight EXCEPT ![Token(r)] = "processing"]}
    BY DEF KeepAlive, history
  <2>2. \A u \in Tokens : Holders(u)' = Holders(u) /\ Markers(u)' = Markers(u)
    BY <2>1 DEF Holders, Markers, Token
  <2>3. BeatWithinRun'
    BY <2>1 DEF LockInv, TypeOK, BeatWithinRun
  <2>4. Token(r) \in Tokens /\ r \in Markers(Token(r))
    BY <2>1 DEF LockInv, TypeOK, BeatWithinRun, Markers, Marking, Holding, Token, Job
  <2>5. LockHasHolder' /\ (Timely => MutexUnlessRaced')
    BY <2>1, <2>2 DEF LockInv, TypeOK, LockHasHolder, MutexUnlessRaced
  <2>6. ProcessingHasRunner'
    BY <2>1, <2>2, <2>4 DEF LockInv, TypeOK, ProcessingHasRunner
  <2> QED  BY <1>1, <2>3, <2>5, <2>6 DEF LockInv
<1>8. CASE \E r \in Runs : Crash(r)
  BY <1>8, CrashLock
<1> QED
  BY <1>2, <1>3, <1>4, <1>5, <1>6, <1>7, <1>8 DEF Next

LEMMA NextLock == LockInv /\ [Next]_vars => LockInv'
<1>1. LockInv /\ Next => LockInv'
  BY StepLock, OtherLock
<1>2. LockInv /\ UNCHANGED vars => LockInv'
  <2> SUFFICES ASSUME LockInv, UNCHANGED vars PROVE LockInv'
    OBVIOUS
  <2>1. TypeOK'
    BY NextType DEF LockInv
  <2>2. UNCHANGED <<pc, job, beat, lock, raced, orphaned, inflight>>
    BY DEF vars, redis, locals, history
  <2> QED  BY <2>1, <2>2, SameRuns
<1> QED  BY <1>1, <1>2

LEMMA LockInvariant == Spec => []LockInv
  BY InitLock, NextLock, PTL DEF Spec

\* The lock of a token is never leaked: whatever path its runs take, a lock that
\* is still held has a run to release it or was orphaned by a failure.
THEOREM LockNeverLeaks == Spec => []LockHasHolder
<1>1. LockInv => LockHasHolder
  BY DEF LockInv
<1> QED  BY <1>1, LockInvariant, PTL

\* The keep-alive goroutine never writes "processing" after its run is done.
THEOREM KeepAliveStops == Spec => []ProcessingHasRunner
<1>1. LockInv => ProcessingHasRunner
  BY DEF LockInv
<1> QED  BY <1>1, LockInvariant, PTL

\* If no run outlives the expiry of its keys, two runs work on a token at the
\* same time only after one wrote the lock over the other's.
THEOREM OnlyTheRaceBreaksMutex == Timely => (Spec => []MutexUnlessRaced)
<1>1. Timely /\ LockInv => MutexUnlessRaced
  BY DEF LockInv
<1>2. ASSUME Timely PROVE Spec => []MutexUnlessRaced
  <2>1. LockInv => MutexUnlessRaced
    BY <1>1, <1>2
  <2> QED  BY <2>1, LockInvariant, PTL
<1> QED  BY <1>2

-----------------------------------------------------------------------------
(* Flaking contracts.                                                      *)

\* The counter never loses a failure: what is gone from the allowance was taken
\* by failures on record, and a run is about to pause a contract only when the
\* allowance did not cover them.
AllowanceAccounted ==
    /\ \A c \in Contracts : badErrors[c] >= FlakingAmount - bucket[c]
    /\ \A r \in Runs : pc[r] = "recPause" => badErrors[Contract(r)] > FlakingAmount

\* A run pauses a contract only on the way out of CountError, so what has to be
\* inductive is that the allowance and the failures on record add up.
FlakyInv ==
    /\ TypeOK
    /\ AllowanceAccounted
    /\ PausedOnlyWhenFlaky

LEMMA InitFlaky == Init => FlakyInv
<1> SUFFICES ASSUME Init PROVE FlakyInv
  OBVIOUS
<1>1. TypeOK
  BY InitType
<1>2. AllowanceAccounted /\ PausedOnlyWhenFlaky
  BY TokenManageAssumption DEF Init, AllowanceAccounted, PausedOnlyWhenFlaky
<1> QED  BY <1>1, <1>2 DEF FlakyInv

\* A step that leaves the counter alone, pauses nothing and brings no run to the
\* point of pausing preserves the invariant.
LEMMA NoPauseStep ==
  ASSUME FlakyInv, TypeOK', UNCHANGED badErrors,
         \A c \in Contracts : bucket'[c] >= bucket[c],
         paused' \subseteq paused,
         \A r \in Runs : pc'[r] = "recPause" => pc[r] = "recPause" /\ job'[r] = job[r]
  PROVE  FlakyInv'
<1>1. AllowanceAccounted'
  <2>1. \A c \in Contracts : badErrors[c] >= FlakingAmount - bucket'[c]
    BY TokenManageAssumption DEF FlakyInv, TypeOK, AllowanceAccounted
  <2>2. \A r \in Runs : pc'[r] = "recPause" => badErrors[Contract(r)'] > FlakingAmount
    BY DEF FlakyInv, AllowanceAccounted, Contract
  <2> QED  BY <2>1, <2>2 DEF AllowanceAccounted
<1>2. PausedOnlyWhenFlaky'
  BY DEF FlakyInv, PausedOnlyWhenFlaky
<1> QED  BY <1>1, <1>2 DEF FlakyInv

LEMMA CountFlaky ==
  ASSUME FlakyInv, NEW r \in Runs, CountError(r), "limiter" \notin Faults
  PROVE  FlakyInv'
<1> DEFINE C == Contract(r)
<1>1. TypeOK'
  BY StepType DEF FlakyInv, Step
<1>2. /\ C \in Contracts
      /\ badErrors \in [Contracts -> 0 .. FlakingAmount + 1]
      /\ bucket \in [Contracts -> 0 .. FlakingAmount]
      /\ paused \subseteq Contracts
      /\ FlakingAmount \in Nat
  BY TokenManageAssumption DEF CountError, FlakyInv, TypeOK, Contract, Job
<1>3. /\ badErrors' = [badErrors EXCEPT ![C] = IF @ > FlakingAmount THEN @ ELSE @ + 1]
      /\ UNCHANGED <<job, paused>>
  BY DEF CountError
<1>4. \/ /\ bucket[C] > 0
         /\ bucket' = [bucket EXCEPT ![C] = @ - 1]
         /\ Goto(r, "tryRetry")
      \/ /\ bucket[C] = 0
         /\ Goto(r, "recPause")
         /\ UNCHANGED bucket
      \/ /\ Goto(r, "tryRetry")
         /\ UNCHANGED bucket
  BY DEF CountError, Fault
<1>5. /\ \A c \in Contracts : badErrors[c] >= FlakingAmount - bucket[c]
      /\ \A s \in Runs : pc[s] = "recPause" => badErrors[Contract(s)] > FlakingAmount
      /\ \A c \in paused : badErrors[c] > FlakingAmount
  BY DEF FlakyInv, AllowanceAccounted, PausedOnlyWhenFlaky
<1>6. pc \in [Runs -> Locations] /\ \A s \in Runs : Contract(s)' = Contract(s)
  BY <1>3 DEF FlakyInv, TypeOK, Contract
<1> HIDE DEF C
<1>7. \A c \in Contracts : badErrors'[c] >= badErrors[c]
  BY <1>2, <1>3
<1>8. \A c \in Contracts : badErrors'[c] >= FlakingAmount - bucket'[c]
  BY <1>2, <1>3, <1>4, <1>5
<1>9. \A s \in Runs : pc'[s] = "recPause" => badErrors'[Contract(s)] > FlakingAmount
  <2>1. ASSUME NEW s \in Runs, s # r, pc'[s] = "recPause"
        PROVE  badErrors'[Contract(s)] > FlakingAmount
    <3>1. pc[s] = "recPause"
      BY <1>4, <1>6, <2>1 DEF Goto
    <3>2. Contract(s) \in Contracts
      BY <3>1, TokenManageAssumption DEF FlakyInv, TypeOK, Contract, Job
    <3> QED  BY <1>2, <1>3, <1>5, <1>7, <3>1, <3>2
  <2>2. ASSUME pc'[r] = "recPause"
        PROVE  badErrors'[Contract(r)] > FlakingAmount
    <3>1. bucket[C] = 0
      BY <1>4, <1>6, <2>2 DEF Goto
    <3> QED  BY <1>2, <1>3, <1>5, <3>1 DEF C
  <2> QED  BY <2>1, <2>2
<1>10. AllowanceAccounted'
  BY <1>6, <1>8, <1>9 DEF AllowanceAccounted
<1>11. PausedOnlyWhenFlaky'
  BY <1>2, <1>3, <1>5, <1>7 DEF PausedOnlyWhenFlaky
<1> QED  BY <1>1, <1>10, <1>11 DEF FlakyInv

LEMMA StepFlaky ==
  ASSUME FlakyInv, NEW r \in Runs, Step(r), "limiter" \notin Faults
  PROVE  FlakyInv'
<1>1. TypeOK'
  BY StepType DEF FlakyInv
<1>2. CASE CountError(r)
  BY <1>2, CountFlaky
<1>3. CASE PauseContract(r)
  <2>1. /\ pc[r] = "recPause"
        /\ paused' \subseteq paused \cup {Contract(r)}
        /\ UNCHANGED <<bucket, badErrors, job>>
        /\ pc' = [pc EXCEPT ![r] = "tryRetry"]
    BY <1>3 DEF PauseContract, Goto, history
  <2>2. PausedOnlyWhenFlaky'
    BY <2>1 DEF FlakyInv, AllowanceAccounted, PausedOnlyWhenFlaky
  <2>3. AllowanceAccounted'
    BY <2>1 DEF FlakyInv, TypeOK, AllowanceAccounted, Contract
  <2> QED  BY <1>1, <2>2, <2>3 DEF FlakyInv
<1>4. CASE ~CountError(r) /\ ~PauseContract(r)
  <2>1. UNCHANGED <<badErrors, bucket, paused>>
    BY <1>4 DEF Step, CheckPaused, IsLocked, SetLock, RunJob, SaveResult, SaveTurnedAway,
       StopKeepAlive, GoroutineEnds, RecordOrRetry, RecordErrorPaused, TryRetry, Finish, Enqueue, SubmitTokenForRetry,
       Unlock, Ack, redis, history
  <2>2. PICK l \in Locations \ {"recPause"} : pc' = [pc EXCEPT ![r] = l]
    BY <1>4 DEF Step, CheckPaused, IsLocked, SetLock, RunJob, SaveResult, SaveTurnedAway,
       StopKeepAlive, GoroutineEnds, RecordOrRetry, RecordErrorPaused, TryRetry, Finish, Enqueue, SubmitTokenForRetry,
       Unlock, Ack, Goto, Locations, Holding
  <2>3. \A s \in Runs : s # r => job'[s] = job[s]
    BY <1>4 DEF Step, CheckPaused, IsLocked, SetLock, RunJob, SaveResult, SaveTurnedAway,
       StopKeepAlive, GoroutineEnds, RecordOrRetry, RecordErrorPaused, TryRetry, Finish, Enqueue, SubmitTokenForRetry,
       Unlock, Ack, FlakyInv, TypeOK
  <2>4. \A s \in Runs : pc'[s] = "recPause" => pc[s] = "recPause" /\ job'[s] = job[s]
    BY <2>2, <2>3 DEF FlakyInv, TypeOK
  <2>5. \A c \in Contracts : bucket'[c] >= bucket[c]
    BY <2>1 DEF FlakyInv, TypeOK
  <2> QED  BY <1>1, <2>1, <2>4, <2>5, NoPauseStep
<1> QED  BY <1>2, <1>3, <1>4

LEMMA OtherFlaky ==
  ASSUME FlakyInv, Next, \A r \in Runs : ~Step(r)
  PROVE  FlakyInv'
<1>1. TypeOK'
  BY NextType DEF FlakyInv
<1>2. ASSUME UNCHANGED badErrors, \A c \in Contracts : bucket'[c] >= bucket[c],
             paused' \subseteq paused, UNCHANGED <<pc, job>>
      PROVE  FlakyInv'
  BY <1>1, <1>2, NoPauseStep
<1>3. CASE \E t \in Tokens : MarkSubmitted(t) \/ SendSubmitted(t)
                             \/ ExpireLock(t) \/ ExpireInflight(t)
  <2>1. UNCHANGED <<badErrors, bucket, paused, pc, job>>
    BY <1>3 DEF MarkSubmitted, SendSubmitted, ExpireLock, ExpireInflight, redis, locals, history
  <2> QED  BY <1>2, <2>1 DEF FlakyInv, TypeOK
<1>4. CASE \E c \in Contracts : ExpirePause(c) \/ Refill(c)
  <2>1. UNCHANGED <<badErrors, pc, job>> /\ paused' \subseteq paused
    BY <1>4 DEF ExpirePause, Refill, locals, history
  <2>2. \A c \in Contracts : bucket'[c] >= bucket[c]
    BY <1>4 DEF ExpirePause, Refill, FlakyInv, TypeOK
  <2> QED  BY <1>2, <2>1, <2>2
<1>5. CASE \E r \in Runs : DeliverAny(r) \/ (\E t \in Tokens : Refresh(r, t)) \/ Crash(r)
  <2> PICK r \in Runs : DeliverAny(r) \/ (\E t \in Tokens : Refresh(r, t)) \/ Crash(r)
    BY <1>5
  <2>1. UNCHANGED <<badErrors, bucket, paused>>
    BY DEF DeliverAny, Deliver, Refresh, Crash, redis, history
  <2>2. PICK l, j :
            l \in {"idle", "checkPaused"} /\ pc' = [pc EXCEPT ![r] = l] /\ job' = [job EXCEPT ![r] = j]
    BY DEF DeliverAny, Deliver, Refresh, Begin, Crash, Goto
  <2>3. \A s \in Runs : pc'[s] = "recPause" => pc[s] = "recPause" /\ job'[s] = job[s]
    BY <2>2 DEF FlakyInv, TypeOK
  <2>4. \A c \in Contracts : bucket'[c] >= bucket[c]
    BY <2>1 DEF FlakyInv, TypeOK
  <2> QED  BY <1>1, <2>1, <2>3, <2>4, NoPauseStep
<1>6. CASE \E r \in Runs : KeepAlive(r)
  <2>1. UNCHANGED <<badErrors, bucket, paused, pc, job>>
    BY <1>6 DEF KeepAlive, history
  <2> QED  BY <1>2, <2>1 DEF FlakyInv, TypeOK
<1> QED  BY <1>3, <1>4, <1>5, <1>6 DEF Next

LEMMA NextFlaky ==
  ASSUME "limiter" \notin Faults
  PROVE  FlakyInv /\ [Next]_vars => FlakyInv'
<1>1. FlakyInv /\ Next => FlakyInv'
  BY StepFlaky, OtherFlaky
<1>2. FlakyInv /\ UNCHANGED vars => FlakyInv'
  <2> SUFFICES ASSUME FlakyInv, UNCHANGED vars PROVE FlakyInv'
    OBVIOUS
  <2>1. TypeOK'
    BY NextType DEF FlakyInv
  <2>2. UNCHANGED <<badErrors, bucket, paused, pc, job>>
    BY DEF vars, redis, locals, history
  <2> QED  BY <2>1, <2>2, NoPauseStep DEF FlakyInv, TypeOK
<1> QED  BY <1>1, <1>2

\* Unless the limiter itself fails, a contract is paused only when its tokens
\* have failed more often than the allowance covers.
THEOREM PausesAreEarned == "limiter" \notin Faults => (Spec => []PausedOnlyWhenFlaky)
<1>1. ASSUME "limiter" \notin Faults PROVE Spec => []PausedOnlyWhenFlaky
  <2>1. FlakyInv /\ [Next]_vars => FlakyInv'
    BY <1>1, NextFlaky
  <2>2. FlakyInv => PausedOnlyWhenFlaky
    BY DEF FlakyInv
  <2> QED  BY InitFlaky, <2>1, <2>2, PTL DEF Spec
<1> QED  BY <1>1

-----------------------------------------------------------------------------
(* Retries.                                                                *)

Bounded(j) == j.attempts <= MaxRetries[j.tok] /\ j.kind # "refresh"

\* RetriesBounded is about the queue; what makes it inductive is that a run on
\* its way to the queue passed CanRetry, and that a crash requeues what it got.
RetryInv ==
    /\ TypeOK
    /\ RetriesBounded
    /\ \A r \in Runs : pc[r] # "idle" => Bounded(job[r]) \/ job[r].kind = "refresh"
    /\ \A r \in Runs : pc[r] \in {"enqueue", "submit"} => CanRetry(job[r])

\* A step that queues only bounded jobs, leaves the jobs of busy runs alone or
\* brings in a bounded one, and gets to "enqueue" only if it can retry.
LEMMA RetryStep ==
  ASSUME RetryInv, TypeOK', NEW r \in Runs, NEW l, NEW j,
         pc' = [pc EXCEPT ![r] = l], job' = [job EXCEPT ![r] = j],
         l # "idle" => Bounded(j) \/ j.kind = "refresh",
         l \in {"enqueue", "submit"} => CanRetry(j),
         \A k \in tasks' \ tasks : Bounded(k)
  PROVE  RetryInv'
  BY DEF RetryInv, TypeOK, RetriesBounded, Bounded

LEMMA StepRetry ==
  ASSUME RetryInv, NEW r \in Runs, Step(r)
  PROVE  RetryInv'
<1>1. TypeOK'
  BY StepType DEF RetryInv
<1>2. CASE Ack(r)
  BY <1>1, <1>2, RetryStep DEF Ack, Goto
<1>3. CASE SubmitTokenForRetry(r)
  <2>1. job' = [job EXCEPT ![r] = job[r]] /\ pc' = [pc EXCEPT ![r] = "unlock"]
    BY <1>3 DEF SubmitTokenForRetry, Goto, RetryInv, TypeOK
  <2>2. Bounded(job[r]) \/ job[r].kind = "refresh"
    BY <1>3 DEF SubmitTokenForRetry, RetryInv
  <2>3. \A k \in tasks' \ tasks : Bounded(k)
    <3>1. CanRetry(job[r]) /\ job[r] \in Job
      BY <1>3 DEF SubmitTokenForRetry, RetryInv, TypeOK
    <3>2. \A k \in tasks' \ tasks :
             k = [tok |-> Token(r), attempts |-> job[r].attempts + 1, kind |-> "retry"]
      BY <1>3 DEF SubmitTokenForRetry
    <3>3. MaxRetries \in [Tokens -> Nat]
      BY TokenManageAssumption
    <3>4. job[r].attempts + 1 <= MaxRetries[job[r].tok]
      BY <3>1, <3>3 DEF CanRetry, Job
    <3> QED  BY <3>2, <3>4 DEF Bounded, Token
  <2> QED  BY <1>1, <2>1, <2>2, <2>3, RetryStep
<1>4. CASE ~Ack(r) /\ ~SubmitTokenForRetry(r)
  <2>1. job' = [job EXCEPT ![r] = job[r]] /\ tasks' = tasks /\ pc[r] # "idle"
    BY <1>4 DEF Step, CheckPaused, IsLocked, SetLock, RunJob, SaveResult, SaveTurnedAway,
       StopKeepAlive, GoroutineEnds, RecordOrRetry, RecordErrorPaused, CountError, PauseContract, TryRetry, Finish,
       Enqueue, Unlock, RetryInv, TypeOK
  <2>2. PICK l : pc' = [pc EXCEPT ![r] = l] /\ (l \in {"enqueue", "submit"} => CanRetry(job[r]))
    <3>1. CASE TryRetry(r)
      BY <3>1 DEF TryRetry, Goto
    <3>2. CASE Enqueue(r)
      BY <3>2 DEF Enqueue, Goto, RetryInv
    <3>3. CASE ~TryRetry(r) /\ ~Enqueue(r)
      BY <1>4, <3>3 DEF Step, CheckPaused, IsLocked, SetLock, RunJob, SaveResult,
         SaveTurnedAway, StopKeepAlive, GoroutineEnds, RecordOrRetry, RecordErrorPaused, CountError, PauseContract, Finish,
         Unlock, Goto
    <3> QED  BY <3>1, <3>2, <3>3
  <2>3. Bounded(job[r]) \/ job[r].kind = "refresh"
    BY <2>1 DEF RetryInv
  <2> QED  BY <1>1, <2>1, <2>2, <2>3, RetryStep
<1> QED  BY <1>2, <1>3, <1>4

LEMMA OtherRetry ==
  ASSUME RetryInv, Next, \A r \in Runs : ~Step(r)
  PROVE  RetryInv'
<1>1. TypeOK'
  BY NextType DEF RetryInv
<1>2. CASE \E t \in Tokens : SendSubmitted(t)
  <2>1. UNCHANGED <<pc, job>>
    BY <1>2 DEF SendSubmitted, locals
  <2>2. \A k \in tasks' \ tasks : Bounded(k)
    BY <1>2, TokenManageAssumption DEF SendSubmitted, Bounded
  <2> QED  BY <1>1, <2>1, <2>2 DEF RetryInv, RetriesBounded, Bounded, CanRetry
<1>3. CASE UNCHANGED <<pc, job, tasks>>
  BY <1>1, <1>3 DEF RetryInv, RetriesBounded, Bounded, CanRetry
<1>4. CASE \E r \in Runs : DeliverAny(r)
  <2> PICK r \in Runs, j \in tasks : Deliver(r, j)
    BY <1>4 DEF DeliverAny
  <2>1. /\ pc' = [pc EXCEPT ![r] = "checkPaused"] /\ job' = [job EXCEPT ![r] = j]
        /\ tasks' \subseteq tasks
    BY DEF Deliver, Begin, Goto
  <2>2. Bounded(j)
    BY DEF RetryInv, RetriesBounded, Bounded
  <2> QED  BY <1>1, <2>1, <2>2, RetryStep
<1>5. CASE \E r \in Runs : \E t \in Tokens : Refresh(r, t)
  <2> PICK r \in Runs, t \in Tokens : Refresh(r, t)
    BY <1>5
  <2> DEFINE j == [tok |-> t, attempts |-> 0, kind |-> "refresh"]
  <2>1. pc' = [pc EXCEPT ![r] = "checkPaused"] /\ job' = [job EXCEPT ![r] = j] /\ tasks' = tasks
    BY DEF Refresh, Begin, Goto
  <2> QED  BY <1>1, <2>1, RetryStep
<1>6. CASE \E r \in Runs : Crash(r)
  <2> PICK r \in Runs : Crash(r)
    BY <1>6
  <2>1. pc' = [pc EXCEPT ![r] = "idle"] /\ job' = [job EXCEPT ![r] = NoJob]
    BY DEF Crash, Goto
  <2>2. \A k \in tasks' \ tasks : Bounded(k)
    BY DEF Crash, RetryInv, Bounded
  <2> QED  BY <1>1, <2>1, <2>2, RetryStep
<1> QED
  BY <1>2, <1>3, <1>4, <1>5, <1>6 DEF Next, MarkSubmitted, ExpireLock, ExpireInflight,
     ExpirePause, Refill, KeepAlive, locals

LEMMA InitRetry == Init => RetryInv
  BY InitType DEF Init, RetryInv, RetriesBounded

LEMMA NextRetry == RetryInv /\ [Next]_vars => RetryInv'
<1>1. RetryInv /\ Next => RetryInv'
  BY StepRetry, OtherRetry
<1>2. RetryInv /\ UNCHANGED vars => RetryInv'
  <2> SUFFICES ASSUME RetryInv, UNCHANGED vars PROVE RetryInv'
    OBVIOUS
  <2>1. TypeOK'
    BY NextType DEF RetryInv
  <2> QED  BY <2>1 DEF vars, locals, RetryInv, RetriesBounded, Bounded, CanRetry
<1> QED  BY <1>1, <1>2

\* No message in the queue asks for more attempts than maxRetries allows, and a
\* refresh never becomes a message.
THEOREM RetriesAreBounded == Spec => []RetriesBounded
<1>1. RetryInv => RetriesBounded
  BY DEF RetryInv
<1> QED  BY <1>1, InitRetry, NextRetry, PTL DEF Spec

-----------------------------------------------------------------------------
(* Media.                                                                  *)

LEMMA MediaStep ==
  TypeOK /\ [Next]_vars => (\A t \in Tokens : media[t] = "active" => media'[t] = "active")
<1> SUFFICES ASSUME TypeOK, [Next]_vars, NEW t \in Tokens, media[t] = "active"
             PROVE  media'[t] = "active"
  OBVIOUS
<1>1. CASE UNCHANGED media
  BY <1>1
<1>2. CASE \E r \in Runs : SaveResult(r) \/ SaveTurnedAway(r)
  <2>1. PICK u, active : (active \in BOOLEAN /\ media' = Saved(u, active)) \/ media' = media
    BY <1>2 DEF SaveResult, SaveTurnedAway
  <2> QED  BY <2>1 DEF Saved, TypeOK
<1>3. CASE \E r \in Runs : Step(r) /\ ~SaveResult(r) /\ ~SaveTurnedAway(r)
  BY <1>1, <1>3 DEF Step, CheckPaused, IsLocked, SetLock, RunJob, StopKeepAlive, GoroutineEnds, RecordOrRetry,
     RecordErrorPaused, CountError, PauseContract, TryRetry, Finish, Enqueue,
     SubmitTokenForRetry, Unlock, Ack
<1> QED
  BY <1>1, <1>2, <1>3 DEF Next, MarkSubmitted, SendSubmitted, ExpireLock, ExpireInflight,
     ExpirePause, Refill, DeliverAny, Deliver, Refresh, KeepAlive, Crash, vars

\* No run, whether it succeeded, failed or was turned away, replaces servable
\* media by a result that is not.
THEOREM ActiveMediaIsKept == Spec => ActiveMediaStays
<1>1. TypeOK /\ [Next]_vars => [\A t \in Tokens : media[t] = "active" => media'[t] = "active"]_media
  BY MediaStep
<1> QED  BY <1>1, TypeCorrect, PTL DEF Spec, ActiveMediaStays
=============================================================================
