------------------------ MODULE HighlightMintProofs ------------------------
(***************************************************************************)
(* Proofs about HighlightMint, for any number of requests, users, wallets  *)
(* and workers, any number of attempts, and any failures.                  *)
(***************************************************************************)
EXTENDS HighlightMint, SequenceTheorems, TLAPS

-----------------------------------------------------------------------------
(* Types, and the calls that end a handler.                                *)

Call == InFlight \cup Final \cup {"retry", "reply"}

LEMMA WorkShape ==
  ASSUME TypeOK, NEW w \in Workers, worker[w] # NoWork
  PROVE  /\ worker[w] \in WorkOf
         /\ worker[w].claim \in Requests
         /\ worker[w].attempt \in 0 .. MaxAttempts
         /\ worker[w].local \in InFlight \cup Final
         /\ worker[w].todo \in Seq(Call)
  BY DEF TypeOK, WorkOf, Call

\* The calls that are left to make.
Left(t) == {t[i] : i \in 1 .. Len(t)}

\* The last call is the reply, and a status at which a claim ends is followed
\* by nothing else.
EndsWell(t) ==
    t # <<>> => /\ t[Len(t)] = "reply"
                /\ \A i \in 1 .. Len(t) : t[i] \in Final => i = Len(t) - 1

LEMMA FirstOfLeft ==
  ASSUME NEW t \in Seq(Call), t # <<>>
  PROVE  /\ Head(t) \in Left(t) /\ Head(t) \in Call
         /\ Tail(t) \in Seq(Call)
         /\ Left(Tail(t)) \subseteq Left(t)
<1>1. Len(t) \in Nat /\ Len(t) >= 1 /\ Head(t) = t[1] /\ t[1] \in Call
  OBVIOUS
<1>2. Tail(t) \in Seq(Call) /\ Len(Tail(t)) = Len(t) - 1
  OBVIOUS
<1>3. \A i \in 1 .. Len(Tail(t)) : Tail(t)[i] = t[i + 1] /\ i + 1 \in 1 .. Len(t)
  BY <1>1, <1>2
<1>4. Left(Tail(t)) \subseteq Left(t)
  BY <1>3 DEF Left
<1> QED  BY <1>1, <1>2, <1>4 DEF Left

LEMMA RestEndsWell ==
  ASSUME NEW t \in Seq(Call), t # <<>>, EndsWell(t), Head(t) # "reply"
  PROVE  /\ EndsWell(Tail(t)) /\ Tail(t) # <<>>
         /\ Head(t) \in Final => Tail(t) = <<"reply">>
<1>1. /\ t[Len(t)] = "reply"
      /\ \A i \in 1 .. Len(t) : t[i] \in Final => i = Len(t) - 1
  BY DEF EndsWell
<1>2. Len(t) \in Nat /\ Len(t) >= 2 /\ Head(t) = t[1]
  BY <1>1
<1> DEFINE u == Tail(t)
<1>3. u \in Seq(Call) /\ Len(u) = Len(t) - 1
  OBVIOUS
<1>4. \A i \in 1 .. Len(t) - 1 : u[i] = t[i + 1]
  OBVIOUS
<1> HIDE DEF u
<1>5. u[Len(u)] = "reply"
  BY <1>1, <1>2, <1>3, <1>4
<1>6. ASSUME NEW i \in 1 .. Len(u), u[i] \in Final PROVE i = Len(u) - 1
  <2>1. i + 1 \in 1 .. Len(t) /\ t[i + 1] \in Final
    BY <1>2, <1>3, <1>4, <1>6
  <2>2. i + 1 = Len(t) - 1
    BY <1>1, <2>1
  <2> QED  BY <1>2, <1>3, <2>2
<1>7. EndsWell(u)
  BY <1>5, <1>6 DEF EndsWell
<1>8. Head(t) \in Final => u = <<"reply">>
  <2> SUFFICES ASSUME Head(t) \in Final PROVE u = <<"reply">>
    OBVIOUS
  <2>1. 1 \in 1 .. Len(t) /\ t[1] \in Final
    BY <1>2
  <2>2. 1 = Len(t) - 1
    BY <1>1, <2>1
  <2>3. Len(u) = 1 /\ u[1] = "reply"
    BY <1>2, <1>3, <1>5, <2>2
  <2>4. <<"reply">> \in Seq(Call) /\ Len(<<"reply">>) = 1 /\ <<"reply">>[1] = "reply"
    BY DEF Call
  <2>5. \A i \in 1 .. Len(u) : u[i] = <<"reply">>[i]
    BY <2>3, <2>4
  <2> QED  BY <1>3, <2>3, <2>4, <2>5, SeqEqual
<1>9. u # <<>>
  BY <1>2, <1>3
<1> QED  BY <1>7, <1>8, <1>9 DEF u

Endings == {"processed", "ended", "stillPending", "stillSyncing", "badToken", "badNoMedia", "noMedia",
            "exhausted", "internal"}

\* The calls that handlers end with.
LEMMA OneCall ==
  /\ <<"reply">> \in Seq(Call)
  /\ <<"reply">> # <<>>
  /\ EndsWell(<<"reply">>)
  /\ Left(<<"reply">>) = {"reply"}
<1> DEFINE t == <<"reply">>
<1>1. t \in Seq(Call) /\ t # <<>> /\ Len(t) = 1
  BY DEF Call, InFlight, Final
<1>2. t[1] = "reply"
  OBVIOUS
<1> HIDE DEF t
<1>3. 1 .. Len(t) = {1}
  BY <1>1
<1>4. Left(t) = {"reply"}
  BY <1>2, <1>3 DEF Left
<1>5. EndsWell(t)
  BY <1>1, <1>2, <1>3 DEF EndsWell, Final
<1> QED  BY <1>1, <1>4, <1>5 DEF t

LEMMA TwoCalls ==
  ASSUME NEW s \in Final
  PROVE  /\ <<s, "reply">> \in Seq(Call)
         /\ <<s, "reply">> # <<>>
         /\ EndsWell(<<s, "reply">>)
         /\ Left(<<s, "reply">>) = {s, "reply"}
<1> DEFINE t == <<s, "reply">>
<1>1. t \in Seq(Call) /\ t # <<>> /\ Len(t) = 2
  BY DEF Call, InFlight, Final
<1>2. t[1] = s /\ t[2] = "reply"
  OBVIOUS
<1> HIDE DEF t
<1>3. 1 .. Len(t) = {1, 2}
  BY <1>1
<1>4. Left(t) = {s, "reply"}
  BY <1>2, <1>3 DEF Left
<1>5. EndsWell(t)
  BY <1>1, <1>2, <1>3 DEF EndsWell, Final
<1> QED  BY <1>1, <1>4, <1>5 DEF t

LEMMA ThreeCalls ==
  ASSUME NEW s \in InFlight
  PROVE  /\ <<s, "retry", "reply">> \in Seq(Call)
         /\ <<s, "retry", "reply">> # <<>>
         /\ EndsWell(<<s, "retry", "reply">>)
         /\ Left(<<s, "retry", "reply">>) = {s, "retry", "reply"}
<1> DEFINE t == <<s, "retry", "reply">>
<1>1. t \in Seq(Call) /\ t # <<>> /\ Len(t) = 3
  BY DEF Call, InFlight, Final
<1>2. t[1] = s /\ t[2] = "retry" /\ t[3] = "reply"
  OBVIOUS
<1> HIDE DEF t
<1>3. 1 .. Len(t) = {1, 2, 3}
  BY <1>1
<1>4. Left(t) = {s, "retry", "reply"}
  BY <1>2, <1>3 DEF Left
<1>5. EndsWell(t)
  BY <1>1, <1>2, <1>3 DEF EndsWell, InFlight, Final
<1> QED  BY <1>1, <1>4, <1>5 DEF t

LEMMA FourCalls ==
  /\ <<"TX_SUCCEEDED", "retry", "FAILED_INTERNAL", "reply">> \in Seq(Call)
  /\ <<"TX_SUCCEEDED", "retry", "FAILED_INTERNAL", "reply">> # <<>>
  /\ EndsWell(<<"TX_SUCCEEDED", "retry", "FAILED_INTERNAL", "reply">>)
  /\ Left(<<"TX_SUCCEEDED", "retry", "FAILED_INTERNAL", "reply">>) = {"TX_SUCCEEDED", "retry", "FAILED_INTERNAL", "reply"}
<1> DEFINE t == <<"TX_SUCCEEDED", "retry", "FAILED_INTERNAL", "reply">>
<1>1. t \in Seq(Call) /\ t # <<>> /\ Len(t) = 4
  BY DEF Call, InFlight, Final
<1>2. t[1] = "TX_SUCCEEDED" /\ t[2] = "retry" /\ t[3] = "FAILED_INTERNAL" /\ t[4] = "reply"
  OBVIOUS
<1> HIDE DEF t
<1>3. 1 .. Len(t) = {1, 2, 3, 4}
  BY <1>1
<1>4. Left(t) = {"TX_SUCCEEDED", "retry", "FAILED_INTERNAL", "reply"}
  BY <1>2, <1>3 DEF Left
<1>5. EndsWell(t)
  BY <1>1, <1>2, <1>3 DEF EndsWell, Final
<1> QED  BY <1>1, <1>4, <1>5 DEF t

LEMMA FiveCalls ==
  /\ <<"TX_SUCCEEDED", "retry", "MEDIA_PROCESSING", "retry", "reply">> \in Seq(Call)
  /\ <<"TX_SUCCEEDED", "retry", "MEDIA_PROCESSING", "retry", "reply">> # <<>>
  /\ EndsWell(<<"TX_SUCCEEDED", "retry", "MEDIA_PROCESSING", "retry", "reply">>)
  /\ Left(<<"TX_SUCCEEDED", "retry", "MEDIA_PROCESSING", "retry", "reply">>) =
        {"TX_SUCCEEDED", "retry", "MEDIA_PROCESSING", "reply"}
<1> DEFINE t == <<"TX_SUCCEEDED", "retry", "MEDIA_PROCESSING", "retry", "reply">>
<1>1. t \in Seq(Call) /\ t # <<>> /\ Len(t) = 5
  BY DEF Call, InFlight, Final
<1>2. t[1] = "TX_SUCCEEDED" /\ t[2] = "retry" /\ t[3] = "MEDIA_PROCESSING" /\ t[4] = "retry" /\ t[5] = "reply"
  OBVIOUS
<1> HIDE DEF t
<1>3. 1 .. Len(t) = {1, 2, 3, 4, 5}
  BY <1>1
<1>4. Left(t) = {"TX_SUCCEEDED", "retry", "MEDIA_PROCESSING", "reply"}
  BY <1>2, <1>3 DEF Left
<1>5. EndsWell(t)
  BY <1>1, <1>2, <1>3 DEF EndsWell, Final
<1> QED  BY <1>1, <1>4, <1>5 DEF t

\* What the ends of a handler consist of.
LEMMA CallsShape ==
  ASSUME NEW e \in Endings
  PROVE  /\ Calls(e) \in Seq(Call) /\ Calls(e) # <<>> /\ EndsWell(Calls(e))
         /\ Left(Calls(e)) \subseteq Call \ {"TX_FAILED"}
         /\ "retry" \in Left(Calls(e)) => e \notin {"processed", "ended", "exhausted", "internal"}
         /\ Left(Calls(e)) \cap {"TX_SUCCEEDED", "MEDIA_PROCESSING", "MEDIA_PROCESSED", "MEDIA_FAILED"} # {} =>
               e \notin {"ended", "stillPending", "internal"}
         /\ "MEDIA_PROCESSED" \in Left(Calls(e)) => e = "processed"
<1> USE DEF InFlight, Final
<1>1. CASE e = "processed"
  <2>1. Calls(e) = <<"MEDIA_PROCESSED", "reply">>
    BY <1>1 DEF Calls
  <2>0. "MEDIA_PROCESSED" \in Final
    OBVIOUS
  <2>2. /\ Calls(e) \in Seq(Call) /\ Calls(e) # <<>> /\ EndsWell(Calls(e))
        /\ Left(Calls(e)) = {"MEDIA_PROCESSED", "reply"}
    BY <2>0, <2>1, TwoCalls, Zenon
  <2> QED  BY <1>1, <2>2 DEF Call
<1>2. CASE e = "ended"
  <2>1. Calls(e) = <<"reply">>
    BY <1>2 DEF Calls
  <2>2. /\ Calls(e) \in Seq(Call) /\ Calls(e) # <<>> /\ EndsWell(Calls(e))
        /\ Left(Calls(e)) = {"reply"}
    BY <2>1, OneCall, Zenon
  <2> QED  BY <1>2, <2>2 DEF Call
<1>3. CASE e = "stillPending"
  <2>1. Calls(e) = <<"TX_PENDING", "retry", "reply">>
    BY <1>3 DEF Calls
  <2>0. "TX_PENDING" \in InFlight
    OBVIOUS
  <2>2. /\ Calls(e) \in Seq(Call) /\ Calls(e) # <<>> /\ EndsWell(Calls(e))
        /\ Left(Calls(e)) = {"TX_PENDING", "retry", "reply"}
    BY <2>0, <2>1, ThreeCalls, Zenon
  <2> QED  BY <1>3, <2>2 DEF Call
<1>4. CASE e = "stillSyncing"
  <2>1. Calls(e) = <<"TX_SUCCEEDED", "retry", "reply">>
    BY <1>4 DEF Calls
  <2>0. "TX_SUCCEEDED" \in InFlight
    OBVIOUS
  <2>2. /\ Calls(e) \in Seq(Call) /\ Calls(e) # <<>> /\ EndsWell(Calls(e))
        /\ Left(Calls(e)) = {"TX_SUCCEEDED", "retry", "reply"}
    BY <2>0, <2>1, ThreeCalls, Zenon
  <2> QED  BY <1>4, <2>2 DEF Call
<1>5. CASE e = "badToken"
  <2>1. Calls(e) = <<"MEDIA_PROCESSING", "retry", "reply">>
    BY <1>5 DEF Calls
  <2>0. "MEDIA_PROCESSING" \in InFlight
    OBVIOUS
  <2>2. /\ Calls(e) \in Seq(Call) /\ Calls(e) # <<>> /\ EndsWell(Calls(e))
        /\ Left(Calls(e)) = {"MEDIA_PROCESSING", "retry", "reply"}
    BY <2>0, <2>1, ThreeCalls, Zenon
  <2> QED  BY <1>5, <2>2 DEF Call
<1>6. CASE e = "badNoMedia"
  <2>1. Calls(e) = <<"TX_SUCCEEDED", "retry", "MEDIA_PROCESSING", "retry", "reply">>
    BY <1>6 DEF Calls
  <2>2. /\ Calls(e) \in Seq(Call) /\ Calls(e) # <<>> /\ EndsWell(Calls(e))
        /\ Left(Calls(e)) = {"TX_SUCCEEDED", "retry", "MEDIA_PROCESSING", "reply"}
    BY <2>1, FiveCalls, Zenon
  <2> QED  BY <1>6, <2>2 DEF Call
<1>7. CASE e = "noMedia"
  <2>1. Calls(e) = <<"TX_SUCCEEDED", "retry", "FAILED_INTERNAL", "reply">>
    BY <1>7 DEF Calls
  <2>2. /\ Calls(e) \in Seq(Call) /\ Calls(e) # <<>> /\ EndsWell(Calls(e))
        /\ Left(Calls(e)) = {"TX_SUCCEEDED", "retry", "FAILED_INTERNAL", "reply"}
    BY <2>1, FourCalls, Zenon
  <2> QED  BY <1>7, <2>2 DEF Call
<1>8. CASE e = "exhausted"
  <2>1. Calls(e) = <<"MEDIA_FAILED", "reply">>
    BY <1>8 DEF Calls
  <2>0. "MEDIA_FAILED" \in Final
    OBVIOUS
  <2>2. /\ Calls(e) \in Seq(Call) /\ Calls(e) # <<>> /\ EndsWell(Calls(e))
        /\ Left(Calls(e)) = {"MEDIA_FAILED", "reply"}
    BY <2>0, <2>1, TwoCalls, Zenon
  <2> QED  BY <1>8, <2>2 DEF Call
<1>9. CASE e = "internal"
  <2>1. Calls(e) = <<"FAILED_INTERNAL", "reply">>
    BY <1>9 DEF Calls
  <2>0. "FAILED_INTERNAL" \in Final
    OBVIOUS
  <2>2. /\ Calls(e) \in Seq(Call) /\ Calls(e) # <<>> /\ EndsWell(Calls(e))
        /\ Left(Calls(e)) = {"FAILED_INTERNAL", "reply"}
    BY <2>0, <2>1, TwoCalls, Zenon
  <2> QED  BY <1>9, <2>2 DEF Call
<1> QED  BY <1>1, <1>2, <1>3, <1>4, <1>5, <1>6, <1>7, <1>8, <1>9 DEF Endings

\* A change of how many messages of one attempt there are.
LEMMA Counts ==
  ASSUME TypeOK, NEW r \in Requests, NEW a \in Attempts, NEW k \in Nat,
         messages' = [messages EXCEPT ![r][a] = k],
         a = MaxAttempts + 1 => k = 0
  PROVE  /\ messages' \in [Requests -> [Attempts -> Nat]]
         /\ \A s \in Requests : messages'[s][MaxAttempts + 1] = 0
         /\ \A s \in Requests \ {r} : messages'[s] = messages[s]
         /\ \A b \in Attempts : messages'[r][b] = IF b = a THEN k ELSE messages[r][b]
<1>1. messages[r] \in [Attempts -> Nat] /\ messages \in [Requests -> [Attempts -> Nat]]
  BY DEF TypeOK
<1>2. messages' = [messages EXCEPT ![r] = [messages[r] EXCEPT ![a] = k]]
  BY <1>1
<1>3. [messages[r] EXCEPT ![a] = k] \in [Attempts -> Nat]
  BY <1>1
<1>4. messages' \in [Requests -> [Attempts -> Nat]] /\ \A s \in Requests \ {r} : messages'[s] = messages[s]
  BY <1>1, <1>2, <1>3
<1>5. messages'[r] = [messages[r] EXCEPT ![a] = k]
  BY <1>1, <1>2
<1>6. \A b \in Attempts : messages'[r][b] = IF b = a THEN k ELSE messages[r][b]
  BY <1>1, <1>5
<1>7. MaxAttempts + 1 \in Attempts
  BY HighlightMintAssumption DEF Attempts
<1> QED  BY <1>4, <1>6, <1>7 DEF TypeOK

\* A message is sent, of an attempt that there is.
LEMMA Sends ==
  ASSUME TypeOK, NEW r \in Requests, NEW b \in 0 .. MaxAttempts, Send(r, b)
  PROVE  /\ messages' \in [Requests -> [Attempts -> Nat]]
         /\ \A q \in Requests : messages'[q][MaxAttempts + 1] = 0
         /\ \A q \in Requests \ {r} : messages'[q] = messages[q]
<1>1. b \in Attempts /\ b # MaxAttempts + 1 /\ messages[r] \in [Attempts -> Nat]
  BY HighlightMintAssumption DEF Attempts, TypeOK
<1>2. messages' = [messages EXCEPT ![r][b] = messages[r][b] + 1] /\ messages[r][b] + 1 \in Nat
  BY <1>1 DEF Send
<1> PICK n \in Nat : n = messages[r][b] + 1
  BY <1>2
<1>3. messages' = [messages EXCEPT ![r][b] = n]
  BY <1>2
<1> QED  BY <1>1, <1>3, Counts

-----------------------------------------------------------------------------
(* Claims.                                                                 *)

\* A request that has not come to its mint has no transaction and no claim.
BeforeMint == {"start", "setUser", "readWallet", "setWallet", "check", "mint"}

NotYetMinted ==
    \A r \in Requests :
        /\ pc[r] \in BeforeMint => tx[r] = "none"
        /\ pc[r] \in BeforeMint \cup {"save", "saveFailed"} => status[r] = "none"
        /\ pc[r] = "saveFailed" => tx[r] = "reverted"

WorksOn(w, r) == worker[w] # NoWork /\ worker[w].claim = r

\* Whoever follows a claim finds it in the database.
FollowedIsSaved ==
    \A r \in Requests :
        /\ pc[r] = "queue" => status[r] # "none"
        /\ \A a \in Attempts : messages[r][a] > 0 => status[r] # "none"
        /\ \A w \in Workers : WorksOn(w, r) => status[r] # "none"

PastMint == {"TX_SUCCEEDED", "MEDIA_PROCESSING", "MEDIA_PROCESSED", "MEDIA_FAILED"}

\* The claims of which it may be said that they have media.
Credited == processed \cup turnedAway

\* What a worker takes its claim for and is about to write is so, and it asks
\* for another attempt when there is one.
Sound(k, transactions, told) ==
    /\ EndsWell(k.todo)
    /\ "TX_FAILED" \notin Left(k.todo)
    /\ k.local \in PastMint => transactions[k.claim] = "succeeded"
    /\ Left(k.todo) \cap PastMint # {} => transactions[k.claim] = "succeeded"
    /\ "MEDIA_PROCESSED" \in Left(k.todo) => k.claim \in told
    /\ "retry" \in Left(k.todo) => k.attempt < MaxAttempts

WorkersKnow ==
    \A w \in Workers : worker[w] # NoWork => Sound(worker[w], tx, Credited)

\* Statuses other than these tell of a transaction or of none.
FailedIsReverted ==
    \A r \in Requests : status[r] = "TX_FAILED" => tx[r] = "reverted"

\* The first half of MediaIsTold.
ProcessedIsSo ==
    \A r \in Requests : status[r] = "MEDIA_PROCESSED" => r \in processed \cup turnedAway

ClaimInv ==
    /\ TypeOK
    /\ NotYetMinted
    /\ FollowedIsSaved
    /\ MintedWhenSaid
    /\ WorkersKnow
    /\ FailedIsReverted
    /\ ProcessedIsSo

LEMMA InitClaim == Init => ClaimInv
<1> SUFFICES ASSUME Init PROVE ClaimInv
  OBVIOUS
<1>1. TypeOK
  BY HighlightMintAssumption DEF Init, TypeOK, Attempts
<1>2. NotYetMinted /\ FollowedIsSaved /\ WorkersKnow
  BY DEF Init, NotYetMinted, FollowedIsSaved, WorkersKnow, WorksOn, BeforeMint
<1>3. MintedWhenSaid /\ FailedIsReverted /\ ProcessedIsSo
  BY DEF Init, MintedWhenSaid, FailedIsReverted, ProcessedIsSo
<1> QED  BY <1>1, <1>2, <1>3 DEF ClaimInv

\* A request up to its transaction: locks and checks.
LEMMA EntryClaim ==
  ASSUME ClaimInv, NEW r \in Requests,
         pc' = [pc EXCEPT ![r] = pc'[r]],
         pc[r] \in BeforeMint \cup {"save", "saveFailed"} \/ pc'[r] \notin BeforeMint \cup {"save", "saveFailed"},
         pc[r] \in BeforeMint \/ pc'[r] \notin BeforeMint,
         pc'[r] # "saveFailed", pc'[r] # "queue",
         TypeOK', UNCHANGED <<tx, status, messages, media, worker>>
  PROVE  ClaimInv'
<1>1. \A s \in Requests \ {r} : pc'[s] = pc[s]
  BY DEF ClaimInv, TypeOK
<1>2. NotYetMinted' /\ FollowedIsSaved'
  BY <1>1 DEF ClaimInv, NotYetMinted, FollowedIsSaved, WorksOn
<1>3. WorkersKnow'
  BY DEF ClaimInv, WorkersKnow, Sound, Credited, media
<1> QED
  BY <1>2, <1>3 DEF ClaimInv, MintedWhenSaid, FailedIsReverted, ProcessedIsSo, media

\* The steps of a request that neither make nor save its claim.
Passes(r) ==
    \/ ReadUserLock(r) \/ SetUserLock(r) \/ ReadWalletLock(r) \/ SetWalletLock(r)
    \/ Check(r) \/ UnlockUser(r) \/ UnlockWallet(r) \/ CrashRequest(r)

Places == {"start", "setUser", "readWallet", "setWallet", "check", "mint", "save", "saveFailed",
           "queue", "unlockUser", "unlockWallet", "end"}

LEMMA PassesType ==
  ASSUME TypeOK, NEW r \in Requests, Passes(r)
  PROVE  TypeOK'
<1>1. UserOf(r) \in Users /\ walletOf[r] \in Wallets
  BY HighlightMintAssumption DEF TypeOK, UserOf
<1> USE DEF Goto, Fault, NoFault, ReadLock, Unlock, ReadUserLock, SetUserLock, ReadWalletLock,
            SetWalletLock, Check, UnlockUser, UnlockWallet, CrashRequest, Passes
<1>2. pc \in [Requests -> Places] /\ held \in SUBSET (Users \cup Wallets) /\ faults \in 0 .. MaxFaults
  BY DEF TypeOK, Places
<1>3. \E p \in Places : pc' = [pc EXCEPT ![r] = p]
  BY DEF Places
<1>4. pc' \in [Requests -> Places]
  BY <1>2, <1>3
<1>5. held' \in {held, held \cup {UserOf(r)}, held \cup {walletOf[r]}, held \ {UserOf(r)}, held \ {walletOf[r]}}
  OBVIOUS
<1>6. held' \in SUBSET (Users \cup Wallets)
  BY <1>1, <1>2, <1>5
<1>7. faults' = faults \/ (faults < MaxFaults /\ faults' = faults + 1)
  OBVIOUS
<1>8. faults' \in 0 .. MaxFaults
  BY <1>2, <1>7, HighlightMintAssumption
<1>9. overlapped' \in SUBSET Requests /\ stranded' \in SUBSET Requests
  BY DEF TypeOK, Inside, claimed
<1>10. UNCHANGED <<tx, status, messages, elsewhere>>
  BY DEF claimed
<1> QED  BY <1>4, <1>6, <1>8, <1>9, <1>10 DEF TypeOK, elsewhere, media, Places

LEMMA PassesClaim ==
  ASSUME ClaimInv, NEW r \in Requests, Passes(r)
  PROVE  ClaimInv'
<1>1. TypeOK /\ TypeOK'
  BY PassesType DEF ClaimInv
<1> USE DEF Goto, ReadLock, Unlock, ReadUserLock, SetUserLock, ReadWalletLock, SetWalletLock,
            Check, UnlockUser, UnlockWallet, CrashRequest
<1>2. UNCHANGED <<tx, status, messages, media, worker>>
  BY DEF Passes, claimed, elsewhere, media
<1>3. pc' = [pc EXCEPT ![r] = pc'[r]]
  BY <1>1 DEF Passes, TypeOK
<1>4. /\ pc[r] \in BeforeMint \/ pc'[r] \notin BeforeMint
      /\ pc[r] \in BeforeMint \/ pc'[r] \notin {"save", "saveFailed", "queue"}
      /\ pc'[r] \notin {"save", "saveFailed", "queue"}
  BY <1>1 DEF Passes, TypeOK, BeforeMint
<1> QED  BY <1>1, <1>2, <1>3, <1>4, EntryClaim DEF BeforeMint

\* The transaction is made and the claim saved and queued.
LEMMA MakeClaim ==
  ASSUME ClaimInv, NEW r \in Requests, ClaimMint(r) \/ SaveClaim(r) \/ QueueClaim(r)
  PROVE  ClaimInv'
<1> USE DEF Goto, Fault, NoFault
<1>1. TypeOK
  BY DEF ClaimInv
<1>2. CASE ClaimMint(r)
  <2>1. TypeOK'
    <3>1. pc' \in [Requests -> Places] /\ tx' \in [Requests -> {"none", "pending", "succeeded", "reverted"}]
      BY <1>1, <1>2 DEF ClaimMint, TypeOK, Places
    <3>2. faults' = faults \/ (faults < MaxFaults /\ faults' = faults + 1)
      BY <1>2 DEF ClaimMint
    <3>3. UNCHANGED <<held, status, messages, stranded, overlapped, elsewhere>>
      BY <1>2 DEF ClaimMint
    <3> QED  BY <1>1, <3>1, <3>2, <3>3, HighlightMintAssumption DEF TypeOK, elsewhere, media, Places
  <2>2. pc[r] = "mint" /\ pc'[r] \in {"save", "saveFailed", "unlockUser"}
    BY <1>1, <1>2 DEF ClaimMint, TypeOK
  <2>3. \A s \in Requests \ {r} : pc'[s] = pc[s] /\ tx'[s] = tx[s]
    BY <1>1, <1>2 DEF ClaimMint, TypeOK
  <2>4. pc'[r] = "saveFailed" => tx'[r] = "reverted"
    BY <1>1, <1>2 DEF ClaimMint, TypeOK
  <2>5. status[r] = "none" /\ UNCHANGED <<status, messages, media, worker>>
    BY <1>2 DEF ClaimMint, ClaimInv, NotYetMinted, BeforeMint, elsewhere, media
  <2>6. NotYetMinted' /\ FollowedIsSaved'
    BY <2>2, <2>3, <2>4, <2>5 DEF ClaimInv, NotYetMinted, FollowedIsSaved, BeforeMint, WorksOn
  <2>7. MintedWhenSaid' /\ FailedIsReverted' /\ ProcessedIsSo'
    BY <2>3, <2>5 DEF ClaimInv, MintedWhenSaid, FailedIsReverted, ProcessedIsSo, media
  <2>8. \A w \in Workers : worker[w] # NoWork => worker[w].claim \in Requests \ {r}
    BY <1>1, <2>5, WorkShape DEF ClaimInv, FollowedIsSaved, WorksOn
  <2>9. WorkersKnow'
    BY <2>3, <2>5, <2>8 DEF ClaimInv, WorkersKnow, Sound, Credited, media
  <2> QED  BY <2>1, <2>6, <2>7, <2>9 DEF ClaimInv
<1>3. CASE SaveClaim(r)
  <2>1. TypeOK'
    <3>1. pc' \in [Requests -> Places] /\ status' \in [Requests -> {"none"} \cup InFlight \cup Final]
      BY <1>1, <1>3 DEF SaveClaim, Save, TypeOK, Places, InFlight, Final
    <3>2. faults' = faults \/ (faults < MaxFaults /\ faults' = faults + 1)
      BY <1>3 DEF SaveClaim
    <3>3. UNCHANGED <<held, tx, messages, stranded, overlapped, elsewhere>>
      BY <1>3 DEF SaveClaim
    <3> QED  BY <1>1, <3>1, <3>2, <3>3, HighlightMintAssumption DEF TypeOK, elsewhere, media, Places
  <2>2. pc'[r] \in {"queue", "unlockUser"} /\ \A s \in Requests \ {r} : pc'[s] = pc[s] /\ status'[s] = status[s]
    BY <1>1, <1>3 DEF SaveClaim, Save, TypeOK
  <2>3. /\ pc'[r] = "queue" => status'[r] = "TX_PENDING"
        /\ status'[r] \in {status[r], "TX_PENDING", "TX_FAILED"}
        /\ status'[r] = "TX_FAILED" /\ status[r] # "TX_FAILED" => tx[r] = "reverted"
    BY <1>1, <1>3 DEF SaveClaim, Save, TypeOK, ClaimInv, NotYetMinted
  <2>4. UNCHANGED <<tx, messages, media, worker>>
    BY <1>3 DEF SaveClaim, elsewhere, media
  <2>5. status[r] = "none"
    BY <1>3 DEF SaveClaim, ClaimInv, NotYetMinted
  <2>6. NotYetMinted' /\ FollowedIsSaved'
    BY <2>2, <2>3, <2>4, <2>5 DEF ClaimInv, NotYetMinted, FollowedIsSaved, BeforeMint, WorksOn
  <2>7. WorkersKnow'
    BY <2>4 DEF ClaimInv, WorkersKnow, Sound, Credited, media
  <2> QED
    BY <2>1, <2>2, <2>3, <2>4, <2>5, <2>6, <2>7 DEF ClaimInv, MintedWhenSaid, FailedIsReverted,
       ProcessedIsSo, media
<1>4. CASE QueueClaim(r)
  <2>1. 0 \in Attempts /\ 0 # MaxAttempts + 1 /\ MaxAttempts + 1 \in Attempts
    BY HighlightMintAssumption DEF Attempts
  <2>2. messages[r][0] + 1 \in Nat
    BY <1>1, <2>1 DEF TypeOK
  <2>3. /\ messages' \in [Requests -> [Attempts -> Nat]]
        /\ \A s \in Requests : messages'[s][MaxAttempts + 1] = 0
        /\ \A s \in Requests \ {r} : messages'[s] = messages[s]
    <3>1. CASE messages' = messages
      BY <1>1, <3>1 DEF TypeOK
    <3>2. CASE messages' = [messages EXCEPT ![r][0] = @ + 1]
      <4>1. messages' = [messages EXCEPT ![r][0] = messages[r][0] + 1]
        BY <3>2
      <4> QED  BY <1>1, <2>1, <2>2, <4>1, Counts
    <3> QED  BY <1>4, <3>1, <3>2 DEF QueueClaim, Send
  <2>4. TypeOK'
    <3>1. pc' \in [Requests -> Places] /\ stranded' \in SUBSET Requests
      BY <1>1, <1>4 DEF QueueClaim, TypeOK, Places
    <3>2. faults' = faults \/ (faults < MaxFaults /\ faults' = faults + 1)
      BY <1>4 DEF QueueClaim
    <3>3. UNCHANGED <<held, tx, status, overlapped, elsewhere>>
      BY <1>4 DEF QueueClaim
    <3> QED  BY <1>1, <2>3, <3>1, <3>2, <3>3, HighlightMintAssumption DEF TypeOK, elsewhere, media, Places
  <2>5. pc[r] = "queue" /\ pc'[r] = "unlockUser" /\ \A s \in Requests \ {r} : pc'[s] = pc[s]
    BY <1>1, <1>4 DEF QueueClaim, TypeOK
  <2>6. status[r] # "none" /\ UNCHANGED <<tx, status, media, worker>>
    BY <1>4, <2>5 DEF QueueClaim, ClaimInv, FollowedIsSaved, elsewhere, media
  <2>7. NotYetMinted' /\ FollowedIsSaved'
    BY <2>3, <2>5, <2>6 DEF ClaimInv, NotYetMinted, FollowedIsSaved, BeforeMint, WorksOn
  <2>8. WorkersKnow'
    BY <2>6 DEF ClaimInv, WorkersKnow, Sound, Credited, media
  <2> QED
    BY <2>4, <2>6, <2>7, <2>8 DEF ClaimInv, MintedWhenSaid, FailedIsReverted, ProcessedIsSo, media
<1> QED  BY <1>2, <1>3, <1>4

\* What a step of a worker keeps the claims right by: it says nothing that is
\* not so, and goes on with a claim that it knows.
LEMMA WorkerClaim ==
  ASSUME ClaimInv, NEW w \in Workers, worker[w] # NoWork,
         NEW r \in Requests, r = worker[w].claim,
         NEW k \in {NoWork} \cup WorkOf, worker' = [worker EXCEPT ![w] = k],
         k # NoWork => k.claim = r /\ Sound(k, tx', Credited'),
         NEW s \in (InFlight \cup Final) \ {"TX_FAILED"},
         status' = status \/ status' = [status EXCEPT ![r] = s],
         status' # status /\ s \in PastMint => tx[r] = "succeeded",
         status' # status /\ s = "MEDIA_PROCESSED" => r \in processed \cup turnedAway,
         NEW b \in 0 .. MaxAttempts, messages' = messages \/ Send(r, b),
         processed \subseteq processed', processed' \subseteq Requests,
         turnedAway \subseteq turnedAway', turnedAway' \subseteq Requests,
         doubled' \subseteq Requests, stranded' \subseteq Requests, disturbed' \subseteq Requests,
         NoFault \/ Fault,
         UNCHANGED <<requests, tx>>
  PROVE  ClaimInv'
<1>1. TypeOK /\ MaxAttempts \in Nat /\ MaxFaults \in Nat
  BY HighlightMintAssumption DEF ClaimInv
<1>2. /\ status' \in [Requests -> {"none"} \cup InFlight \cup Final]
      /\ \A q \in Requests : status'[q] = status[q] \/ (q = r /\ status'[q] = s /\ status' # status)
  BY <1>1 DEF TypeOK
<1>3. b \in Attempts /\ b # MaxAttempts + 1 /\ messages[r] \in [Attempts -> Nat]
  BY <1>1 DEF Attempts, TypeOK
<1>4. /\ messages' \in [Requests -> [Attempts -> Nat]]
      /\ \A q \in Requests : messages'[q][MaxAttempts + 1] = 0
      /\ \A q \in Requests \ {r} : messages'[q] = messages[q]
  <2>1. CASE messages' = messages
    BY <1>1, <2>1 DEF TypeOK
  <2>2. CASE Send(r, b)
    BY <1>1, <2>2, Sends
  <2> QED  BY <2>1, <2>2
<1>5. /\ worker' \in [Workers -> {NoWork} \cup WorkOf]
      /\ worker'[w] = k
      /\ \A v \in Workers \ {w} : worker'[v] = worker[v]
  BY <1>1 DEF TypeOK
<1>6. faults' \in 0 .. MaxFaults
  BY <1>1 DEF NoFault, Fault, TypeOK
<1>7. TypeOK'
  BY <1>1, <1>2, <1>4, <1>5, <1>6 DEF TypeOK, requests
<1>8. status[r] # "none" /\ pc[r] \notin BeforeMint \cup {"save", "saveFailed"}
  BY <1>1 DEF ClaimInv, FollowedIsSaved, NotYetMinted, WorksOn
<1>9. s # "none" /\ s # "TX_FAILED"
  BY DEF InFlight, Final
<1>10. \A v \in Workers, q \in Requests : WorksOn(v, q)' => WorksOn(v, q)
  BY <1>5 DEF WorksOn
<1>11. NotYetMinted'
  BY <1>2, <1>8 DEF ClaimInv, NotYetMinted, requests
<1>12. FollowedIsSaved'
  BY <1>2, <1>4, <1>8, <1>9, <1>10 DEF ClaimInv, FollowedIsSaved, requests
<1>13. MintedWhenSaid' /\ FailedIsReverted' /\ ProcessedIsSo'
  BY <1>2, <1>9 DEF ClaimInv, MintedWhenSaid, PastMint, FailedIsReverted, ProcessedIsSo
<1>14. WorkersKnow'
  <2> SUFFICES ASSUME NEW v \in Workers, (worker[v] # NoWork)' PROVE Sound(worker'[v], tx', Credited')
    BY DEF WorkersKnow
  <2>1. CASE v = w
    BY <1>5, <2>1 DEF Sound, Credited
  <2>2. CASE v # w
    BY <1>5, <2>2 DEF ClaimInv, WorkersKnow, Sound, Credited
  <2> QED  BY <2>1, <2>2
<1> QED  BY <1>7, <1>11, <1>12, <1>13, <1>14 DEF ClaimInv

\* It is known how a handler ends.
LEMMA ConcludeClaim ==
  ASSUME ClaimInv, NEW w \in Workers, worker[w] # NoWork, NEW e \in Endings, Conclude(w, e),
         Left(Calls(e)) \cap PastMint # {} => tx[worker[w].claim] = "succeeded",
         "retry" \in Left(Calls(e)) => worker[w].attempt < MaxAttempts,
         e = "processed" => worker[w].claim \in processed' \cup turnedAway',
         processed \subseteq processed', processed' \subseteq Requests,
         turnedAway \subseteq turnedAway', turnedAway' \subseteq Requests
  PROVE  ClaimInv'
<1> DEFINE k == [worker[w] EXCEPT !.todo = Calls(e)]
<1> PICK r \in Requests : r = worker[w].claim
  BY WorkShape DEF ClaimInv
<1>1. TypeOK /\ worker[w] \in WorkOf
  BY WorkShape DEF ClaimInv
<1>2. Calls(e) \in Seq(Call)
  BY CallsShape
<1>3. k \in WorkOf /\ k.claim = r /\ k.local = worker[w].local /\ k.attempt = worker[w].attempt /\ k.todo = Calls(e)
  BY <1>1, <1>2 DEF WorkOf, Call
<1>4. /\ UNCHANGED <<requests, tx, status, messages, doubled, stranded, disturbed, faults>>
      /\ worker' = [worker EXCEPT ![w] = k]
  BY DEF Conclude, Do
<1> HIDE DEF k
<1>5. Sound(k, tx', Credited')
  <2>1. /\ EndsWell(Calls(e)) /\ "TX_FAILED" \notin Left(Calls(e))
        /\ "MEDIA_PROCESSED" \in Left(Calls(e)) => e = "processed"
    BY CallsShape
  <2>2. worker[w].local \in PastMint => tx[r] = "succeeded"
    BY DEF ClaimInv, WorkersKnow, Sound, Credited
  <2> QED  BY <1>3, <1>4, <2>1, <2>2 DEF Sound, Credited
<1>6. "TX_PENDING" \in (InFlight \cup Final) \ {"TX_FAILED"} /\ 0 \in 0 .. MaxAttempts
  BY HighlightMintAssumption DEF InFlight
<1>7. doubled' \subseteq Requests /\ stranded' \subseteq Requests /\ disturbed' \subseteq Requests /\ NoFault
  BY <1>1, <1>4 DEF TypeOK, NoFault
<1> QED  BY <1>3, <1>4, <1>5, <1>6, <1>7, WorkerClaim

\* A worker goes on to a status for which its claim was minted.
LEMMA SucceedClaim ==
  ASSUME ClaimInv, NEW w \in Workers, worker[w] # NoWork, worker[w].todo = <<>>, UNCHANGED media,
         NEW next \in {"TX_SUCCEEDED", "MEDIA_PROCESSING"}, Succeed(w, next),
         tx[worker[w].claim] = "succeeded"
  PROVE  ClaimInv'
<1> DEFINE k == [worker[w] EXCEPT !.local = next]
<1> PICK r \in Requests : r = worker[w].claim
  BY WorkShape DEF ClaimInv
<1>1. TypeOK /\ worker[w] \in WorkOf /\ next \in InFlight
  BY WorkShape DEF ClaimInv, InFlight
<1>2. k \in WorkOf /\ k.claim = r /\ k.local = next /\ k.attempt = worker[w].attempt /\ k.todo = worker[w].todo
  BY <1>1 DEF WorkOf
<1>3. /\ worker' = [worker EXCEPT ![w] = k] /\ status' = [status EXCEPT ![r] = next]
      /\ UNCHANGED <<requests, tx, messages, processed, turnedAway, doubled, stranded, disturbed, faults>>
  BY DEF Succeed, Do, SetStatus, media
<1> HIDE DEF k
<1>4. Sound(k, tx', Credited')
  BY <1>2, <1>3 DEF ClaimInv, WorkersKnow, Sound, Credited
<1>5. next \in (InFlight \cup Final) \ {"TX_FAILED"} /\ 0 \in 0 .. MaxAttempts /\ next # "MEDIA_PROCESSED"
  BY HighlightMintAssumption DEF InFlight
<1>6. doubled' \subseteq Requests /\ stranded' \subseteq Requests /\ disturbed' \subseteq Requests /\ NoFault
      /\ processed \subseteq Requests /\ turnedAway \subseteq Requests
  BY <1>1, <1>3 DEF TypeOK, NoFault
<1> QED  BY <1>2, <1>3, <1>4, <1>5, <1>6, WorkerClaim

\* The calls that end a handler.
LEMMA EndClaim ==
  ASSUME ClaimInv, NEW w \in Workers,
         WriteStatus(w) \/ CreateTask(w) \/ Reply(w) \/ CrashWorker(w)
  PROVE  ClaimInv'
<1> DEFINE t == worker[w].todo
           rest == [worker[w] EXCEPT !.todo = Tail(t)]
<1>1. TypeOK /\ worker[w] # NoWork /\ worker[w] \in WorkOf /\ t \in Seq(Call) /\ Sound(worker[w], tx, Credited)
  BY WorkShape DEF ClaimInv, WorkersKnow, WriteStatus, CreateTask, Reply, CrashWorker, Ending
<1> PICK r \in Requests : r = worker[w].claim
  BY <1>1, WorkShape
<1>2. worker[w].attempt \in 0 .. MaxAttempts /\ MaxAttempts \in Nat /\ 0 \in 0 .. MaxAttempts
  BY <1>1, WorkShape, HighlightMintAssumption
<1>3. NoWork \in {NoWork} \cup WorkOf /\ "TX_PENDING" \in (InFlight \cup Final) \ {"TX_FAILED"}
  BY DEF InFlight
<1>4. /\ processed \subseteq Requests /\ turnedAway \subseteq Requests
      /\ doubled \subseteq Requests /\ stranded \subseteq Requests /\ disturbed \subseteq Requests
  BY <1>1 DEF TypeOK
<1>5. ASSUME t # <<>>, Head(t) # "reply", UNCHANGED <<tx, processed, turnedAway>>
      PROVE  rest \in WorkOf /\ rest.claim = r /\ Sound(rest, tx', Credited')
  <2>1. Tail(t) \in Seq(Call) /\ Left(Tail(t)) \subseteq Left(t) /\ EndsWell(Tail(t))
    BY <1>1, <1>5, FirstOfLeft, RestEndsWell DEF Sound, Credited
  <2>2. /\ rest \in WorkOf /\ rest.claim = r /\ rest.local = worker[w].local
        /\ rest.attempt = worker[w].attempt /\ rest.todo = Tail(t)
    BY <1>1, <2>1 DEF WorkOf, Call
  <2> HIDE DEF rest
  <2>3. Sound(rest, tx', Credited')
    BY <1>1, <1>5, <2>1, <2>2 DEF Sound, Credited
  <2> QED  BY <2>2, <2>3
<1>6. CASE WriteStatus(w)
  <2> DEFINE s == Head(t)
  <2>1. t # <<>> /\ s \in InFlight \cup Final /\ s # "reply"
    BY <1>6 DEF WriteStatus, Ending, InFlight, Final
  <2>2. s \in Left(t) /\ s # "TX_FAILED"
    BY <1>1, <2>1, FirstOfLeft DEF Sound, Credited
  <2>3. /\ s \in PastMint => tx[r] = "succeeded"
        /\ s = "MEDIA_PROCESSED" => r \in processed \cup turnedAway
    BY <1>1, <2>2 DEF Sound, Credited
  <2>4. /\ UNCHANGED <<requests, tx, processed, turnedAway, messages, doubled>>
        /\ status' = status \/ status' = [status EXCEPT ![r] = s]
        /\ worker' = [worker EXCEPT ![w] = rest] \/ worker' = [worker EXCEPT ![w] = Failed(w)]
        /\ stranded' \subseteq stranded \cup {r} /\ disturbed' \subseteq disturbed \cup {r}
        /\ NoFault \/ Fault
    BY <1>6 DEF WriteStatus, SetStatus, Do, Rest, media
  <2>5. rest \in WorkOf /\ rest.claim = r /\ Sound(rest, tx', Credited')
    BY <1>5, <2>1, <2>4
  <2>6. Failed(w) \in WorkOf /\ Failed(w).claim = r /\ Sound(Failed(w), tx', Credited')
    <3> DEFINE f == [worker[w] EXCEPT !.todo = Calls("internal")]
    <3>1. "internal" \in Endings
      BY DEF Endings
    <3>2. /\ Calls("internal") \in Seq(Call) /\ EndsWell(Calls("internal"))
          /\ "TX_FAILED" \notin Left(Calls("internal")) /\ "retry" \notin Left(Calls("internal"))
          /\ Left(Calls("internal")) \cap PastMint = {} /\ "MEDIA_PROCESSED" \notin Left(Calls("internal"))
      BY <3>1, CallsShape DEF PastMint
    <3>3. /\ f \in WorkOf /\ f.claim = r /\ f.local = worker[w].local
          /\ f.attempt = worker[w].attempt /\ f.todo = Calls("internal")
      BY <1>1, <3>2 DEF WorkOf, Call
    <3>4. Failed(w) = f \/ Failed(w) = rest
      BY DEF Failed, Rest
    <3> HIDE DEF f, rest
    <3>5. Sound(f, tx', Credited')
      BY <1>1, <2>4, <3>2, <3>3 DEF Sound, Credited
    <3> QED  BY <2>5, <3>3, <3>4, <3>5
  <2> HIDE DEF rest, s
  <2> QED
    BY <1>1, <1>2, <1>4, <2>1, <2>2, <2>3, <2>4, <2>5, <2>6, WorkerClaim
<1>7. CASE CreateTask(w)
  <2>1. t # <<>> /\ Head(t) = "retry" /\ UNCHANGED <<requests, tx, status, processed, turnedAway>>
    BY <1>7 DEF CreateTask, Ending, media
  <2>2. worker[w].attempt < MaxAttempts
    BY <1>1, <2>1, FirstOfLeft DEF Sound, Credited
  <2>3. worker[w].attempt + 1 \in 0 .. MaxAttempts
    BY <1>2, <2>2
  <2>4. /\ messages' = messages \/ Send(r, worker[w].attempt + 1)
        /\ worker' = [worker EXCEPT ![w] = rest]
        /\ doubled' \subseteq doubled \cup {r} /\ stranded' \subseteq stranded \cup {r}
        /\ disturbed' \subseteq disturbed \cup {r}
        /\ NoFault \/ Fault
    BY <1>7 DEF CreateTask, NextAttempt, Do, Rest
  <2>5. rest \in WorkOf /\ rest.claim = r /\ Sound(rest, tx', Credited')
    BY <1>5, <2>1
  <2> HIDE DEF rest
  <2> QED  BY <1>1, <1>3, <1>4, <2>1, <2>3, <2>4, <2>5, WorkerClaim
<1>8. CASE Reply(w)
  <2>1. /\ UNCHANGED <<requests, tx, status, processed, turnedAway, messages, doubled, stranded, disturbed>>
        /\ worker' = [worker EXCEPT ![w] = NoWork] /\ NoFault
    BY <1>8 DEF Reply, Do, NoFault, media
  <2> QED  BY <1>1, <1>2, <1>3, <1>4, <2>1, WorkerClaim
<1>9. CASE CrashWorker(w)
  <2>1. /\ UNCHANGED <<requests, tx, status, processed, turnedAway, stranded>>
        /\ Send(r, worker[w].attempt)
        /\ worker' = [worker EXCEPT ![w] = NoWork] /\ Fault
        /\ doubled' \subseteq doubled \cup {r} /\ disturbed' \subseteq disturbed \cup {r}
    BY <1>9 DEF CrashWorker, Do, media
  <2> QED  BY <1>1, <1>2, <1>3, <1>4, <2>1, WorkerClaim
<1> QED  BY <1>6, <1>7, <1>8, <1>9

\* The queue does not wait for the worker.
LEMMA RedeliverClaim ==
  ASSUME ClaimInv, NEW w \in Workers, Redeliver(w)
  PROVE  ClaimInv'
<1>1. TypeOK /\ worker[w] # NoWork /\ worker[w] \in WorkOf
  BY WorkShape DEF ClaimInv, Redeliver
<1> PICK r \in Requests : r = worker[w].claim
  BY <1>1, WorkShape
<1>2. worker[w].attempt \in 0 .. MaxAttempts /\ "TX_PENDING" \in (InFlight \cup Final) \ {"TX_FAILED"}
  BY <1>1, WorkShape DEF InFlight
<1>3. /\ UNCHANGED <<requests, tx, status, processed, turnedAway, worker, stranded>>
      /\ Send(r, worker[w].attempt) /\ Fault
      /\ doubled' \subseteq doubled \cup {r} /\ disturbed' \subseteq disturbed \cup {r}
  BY DEF Redeliver, media
<1>4. /\ processed \subseteq Requests /\ turnedAway \subseteq Requests
      /\ doubled \subseteq Requests /\ stranded \subseteq Requests /\ disturbed \subseteq Requests
  BY <1>1 DEF TypeOK
<1>5. worker' = [worker EXCEPT ![w] = worker[w]]
  BY <1>1, <1>3 DEF TypeOK
<1>6. Sound(worker[w], tx', Credited')
  BY <1>1, <1>3 DEF ClaimInv, WorkersKnow, Sound, Credited
<1> QED  BY <1>1, <1>2, <1>3, <1>4, <1>5, <1>6, WorkerClaim

\* A message is delivered, and its claim is read or not.
LEMMA TakeClaim ==
  ASSUME ClaimInv, NEW w \in Workers, NEW r \in Requests, NEW a \in Attempts, Take(w, r, a)
  PROVE  ClaimInv'
<1>1. TypeOK
  BY DEF ClaimInv
<1>2. /\ UNCHANGED <<walletOf, owned, held, pc, tx, status, processed, turnedAway, overlapped, doubled, stranded>>
      /\ disturbed' \subseteq Requests /\ (NoFault \/ Fault)
  BY <1>1 DEF Take, requests, media, TypeOK
<1>3. faults' \in 0 .. MaxFaults
  BY <1>1, <1>2, HighlightMintAssumption DEF TypeOK, Fault, NoFault
<1>4. messages[r][a] \in Nat /\ messages[r][a] > 0 /\ a # MaxAttempts + 1 /\ status[r] # "none"
  BY <1>1 DEF Take, TypeOK, ClaimInv, FollowedIsSaved
<1>5. messages' = [messages EXCEPT ![r][a] = messages[r][a] - 1] /\ messages[r][a] - 1 \in Nat
  BY <1>4 DEF Take
<1>6. /\ messages' \in [Requests -> [Attempts -> Nat]]
      /\ \A s \in Requests : messages'[s][MaxAttempts + 1] = 0
      /\ \A s \in Requests \ {r} : messages'[s] = messages[s]
  BY <1>1, <1>4, <1>5, Counts
<1>7. PICK k : /\ worker' = [worker EXCEPT ![w] = k]
               /\ \/ k = Work(r, a, status[r], <<>>)
                  \/ k = Work(r, a, "FAILED_INTERNAL", Calls("internal"))
  BY DEF Take, Do, Resumes
<1>8. /\ k \in WorkOf /\ k.claim = r
      /\ \/ k.local = status[r] /\ k.todo = <<>>
         \/ k.local = "FAILED_INTERNAL" /\ k.todo = Calls("internal")
  <2>1. Calls("internal") \in Seq(Call) /\ <<>> \in Seq(Call)
    BY CallsShape DEF Endings
  <2>2. a \in 0 .. MaxAttempts /\ status[r] \in InFlight \cup Final /\ "FAILED_INTERNAL" \in InFlight \cup Final
    BY <1>1, <1>4, HighlightMintAssumption DEF Attempts, TypeOK, Final
  <2>3. \A l \in InFlight \cup Final, t \in Seq(Call) :
          /\ Work(r, a, l, t) \in WorkOf /\ Work(r, a, l, t).claim = r
          /\ Work(r, a, l, t).local = l /\ Work(r, a, l, t).todo = t
    BY <2>2 DEF Work, WorkOf, Call
  <2>4. CASE k = Work(r, a, status[r], <<>>)
    BY <2>1, <2>2, <2>3, <2>4
  <2>5. CASE k = Work(r, a, "FAILED_INTERNAL", Calls("internal"))
    BY <2>1, <2>2, <2>3, <2>5
  <2> QED  BY <1>7, <2>4, <2>5
<1>9. Sound(k, tx', Credited')
  <2>1. Left(<<>>) = {} /\ EndsWell(<<>>)
    BY DEF Left, EndsWell
  <2>2. /\ EndsWell(Calls("internal"))
        /\ "TX_FAILED" \notin Left(Calls("internal")) /\ "retry" \notin Left(Calls("internal"))
        /\ Left(Calls("internal")) \cap PastMint = {} /\ "MEDIA_PROCESSED" \notin Left(Calls("internal"))
    BY CallsShape DEF Endings, PastMint
  <2>3. status[r] \in PastMint => tx[r] = "succeeded"
    BY DEF ClaimInv, MintedWhenSaid, PastMint
  <2>4. "FAILED_INTERNAL" \notin PastMint
    BY DEF PastMint
  <2> QED  BY <1>2, <1>8, <2>1, <2>2, <2>3, <2>4 DEF Sound, Credited
<1>10. /\ worker' \in [Workers -> {NoWork} \cup WorkOf]
       /\ worker'[w] = k
       /\ \A v \in Workers \ {w} : worker'[v] = worker[v]
  BY <1>1, <1>7, <1>8 DEF TypeOK
<1>11. TypeOK'
  BY <1>1, <1>2, <1>3, <1>6, <1>10 DEF TypeOK
<1>12. FollowedIsSaved'
  <2>1. \A s \in Requests : status[s] = "none" => \A b \in Attempts : ~(messages'[s][b] > 0)
    BY <1>2, <1>4, <1>6 DEF ClaimInv, FollowedIsSaved
  <2>2. \A s \in Requests, v \in Workers : WorksOn(v, s)' => WorksOn(v, s) \/ s = r
    BY <1>8, <1>10 DEF WorksOn
  <2> QED  BY <1>2, <1>4, <2>1, <2>2 DEF ClaimInv, FollowedIsSaved
<1>13. WorkersKnow'
  <2> SUFFICES ASSUME NEW v \in Workers, (worker[v] # NoWork)' PROVE Sound(worker'[v], tx', Credited')
    BY DEF WorkersKnow
  <2>1. CASE v = w
    BY <1>9, <1>10, <2>1 DEF Sound, Credited
  <2>2. CASE v # w
    BY <1>2, <1>10, <2>2 DEF ClaimInv, WorkersKnow, Sound, Credited
  <2> QED  BY <2>1, <2>2
<1> QED
  BY <1>2, <1>11, <1>12, <1>13 DEF ClaimInv, NotYetMinted, MintedWhenSaid, FailedIsReverted, ProcessedIsSo

\* The environment.
LEMMA WorldClaim ==
  ASSUME ClaimInv,
         \/ \E r \in Requests : Execute(r)
         \/ \E key \in Users \cup Wallets : Expire(key)
         \/ \E u, v \in Wallets : MoveWallet(u, v)
  PROVE  ClaimInv'
<1>1. TypeOK /\ MaxFaults \in Nat
  BY HighlightMintAssumption DEF ClaimInv
<1>2. CASE \E r \in Requests : Execute(r)
  <2> PICK r \in Requests : Execute(r)
    BY <1>2
  <2>1. tx' \in [Requests -> {"none", "pending", "succeeded", "reverted"}]
    BY <1>1 DEF Execute, TypeOK
  <2>2. \A s \in Requests : tx'[s] = tx[s] \/ tx[s] = "pending"
    BY <1>1 DEF Execute, TypeOK
  <2>3. UNCHANGED <<requests, status, media, messages, worker, doubled, stranded, disturbed, faults>>
    BY DEF Execute
  <2>4. TypeOK'
    BY <1>1, <2>1, <2>3 DEF TypeOK, requests, media
  <2>5. NotYetMinted' /\ FollowedIsSaved'
    BY <2>2, <2>3 DEF ClaimInv, NotYetMinted, FollowedIsSaved, WorksOn, requests
  <2>6. \A w \in Workers : worker[w] # NoWork => worker[w].claim \in Requests
    BY <1>1, WorkShape
  <2> QED
    BY <2>2, <2>3, <2>4, <2>5, <2>6 DEF ClaimInv, MintedWhenSaid, FailedIsReverted, ProcessedIsSo, WorkersKnow,
       Sound, Credited, media
<1>3. CASE ~\E r \in Requests : Execute(r)
  <2>1. /\ UNCHANGED <<walletOf, pc, tx, status, messages, media, worker, overlapped, doubled, stranded,
                     disturbed>>
        /\ held' \in SUBSET (Users \cup Wallets) /\ owned' \in SUBSET Wallets
        /\ faults' = faults \/ (faults < MaxFaults /\ faults' = faults + 1)
    BY <1>1, <1>3 DEF Expire, MoveWallet, Fault, TypeOK, claimed, elsewhere, media
  <2>2. TypeOK'
    BY <1>1, <2>1 DEF TypeOK, media
  <2> QED
    BY <2>1, <2>2 DEF ClaimInv, NotYetMinted, FollowedIsSaved, WorksOn, MintedWhenSaid,
       FailedIsReverted, ProcessedIsSo, WorkersKnow, Sound, Credited, media
<1> QED  BY <1>2, <1>3

\* The steps with which a worker tracks its claim.
LEMMA TrackClaim ==
  ASSUME ClaimInv, NEW w \in Workers,
         GiveUp(w) \/ Ended(w) \/ WaitForMinted(w) \/ WaitForSynced(w) \/ RunPipeline(w)
  PROVE  ClaimInv'
<1>1. /\ TypeOK /\ worker[w] # NoWork /\ worker[w].todo = <<>>
      /\ processed \subseteq Requests /\ turnedAway \subseteq Requests
  BY DEF ClaimInv, TypeOK, GiveUp, Ended, WaitForMinted, WaitForSynced, RunPipeline, Tracks
<1> PICK r \in Requests : r = worker[w].claim
  BY <1>1, WorkShape
<1>2. worker[w].local \in PastMint => tx[r] = "succeeded"
  BY <1>1 DEF ClaimInv, WorkersKnow, Sound
<1>3. ~Exhausted(worker[w].attempt) => worker[w].attempt < MaxAttempts
  BY <1>1, WorkShape, HighlightMintAssumption DEF Exhausted
<1>4. ASSUME NEW e \in Endings, Conclude(w, e), UNCHANGED media, e # "processed",
             e \in {"stillPending", "stillSyncing", "badToken", "badNoMedia", "noMedia"} => ~Exhausted(worker[w].attempt),
             e \in {"stillSyncing", "badToken", "badNoMedia", "noMedia", "exhausted"} => tx[r] = "succeeded"
      PROVE  ClaimInv'
  <2>1. UNCHANGED <<processed, turnedAway>>
    BY <1>4 DEF media
  <2>2. /\ Left(Calls(e)) \cap PastMint # {} => tx[r] = "succeeded"
        /\ "retry" \in Left(Calls(e)) => worker[w].attempt < MaxAttempts
    BY <1>3, <1>4, CallsShape DEF Endings, PastMint
  <2> QED  BY <1>1, <1>4, <2>1, <2>2, ConcludeClaim
<1>5. CASE GiveUp(w)
  <2>1. PICK e \in {"exhausted", "internal"} :
           Conclude(w, e) /\ (e = "exhausted" => worker[w].local = "MEDIA_PROCESSING")
    BY <1>5 DEF GiveUp
  <2>2. UNCHANGED media /\ "MEDIA_PROCESSING" \in PastMint
    BY <1>5 DEF GiveUp, PastMint
  <2> QED  BY <1>2, <1>4, <2>1, <2>2 DEF Endings
<1>6. CASE Ended(w)
  BY <1>4, <1>6 DEF Ended, Endings
<1>7. CASE WaitForMinted(w)
  <2>1. UNCHANGED media /\ ~Exhausted(worker[w].attempt)
    BY <1>7 DEF WaitForMinted, Tracks
  <2>2. \/ tx[r] = "succeeded" /\ Succeed(w, "TX_SUCCEEDED")
        \/ tx[r] = "succeeded" /\ Conclude(w, "noMedia")
        \/ \E e \in {"stillPending", "internal"} : Conclude(w, e)
    BY <1>7 DEF WaitForMinted, WhenUnminted
  <2>3. CASE tx[r] = "succeeded" /\ Succeed(w, "TX_SUCCEEDED")
    BY <1>1, <2>1, <2>3, SucceedClaim
  <2>4. CASE tx[r] = "succeeded" /\ Conclude(w, "noMedia")
    BY <1>4, <2>1, <2>4 DEF Endings
  <2>5. ASSUME NEW e \in {"stillPending", "internal"}, Conclude(w, e) PROVE ClaimInv'
    BY <1>4, <2>1, <2>5 DEF Endings
  <2> QED  BY <2>2, <2>3, <2>4, <2>5
<1>8. CASE WaitForSynced(w)
  <2>1. UNCHANGED media /\ ~Exhausted(worker[w].attempt) /\ tx[r] = "succeeded"
    BY <1>2, <1>8 DEF WaitForSynced, Tracks, PastMint
  <2>2. CASE Succeed(w, "MEDIA_PROCESSING")
    BY <1>1, <2>1, <2>2, SucceedClaim
  <2>3. ASSUME NEW e \in {"stillSyncing", "internal"}, Conclude(w, e) PROVE ClaimInv'
    BY <1>4, <2>1, <2>3 DEF Endings
  <2> QED  BY <1>8, <2>2, <2>3 DEF WaitForSynced
<1>9. CASE RunPipeline(w)
  <2>1. ~Exhausted(worker[w].attempt) /\ tx[r] = "succeeded"
    BY <1>2, <1>9 DEF RunPipeline, Tracks, PastMint
  <2>2. CASE /\ Conclude(w, "processed")
             /\ \/ processed' = processed \cup {r} /\ UNCHANGED turnedAway
                \/ turnedAway' = turnedAway \cup {r} /\ UNCHANGED processed
    <3>1. /\ processed \subseteq processed' /\ processed' \subseteq Requests
          /\ turnedAway \subseteq turnedAway' /\ turnedAway' \subseteq Requests
          /\ r \in processed' \cup turnedAway'
      BY <1>1, <2>2
    <3>2. "processed" \in Endings
      BY DEF Endings
    <3>3. "retry" \in Left(Calls("processed")) => worker[w].attempt < MaxAttempts
      BY <1>3, <2>1
    <3>4. tx[worker[w].claim] = "succeeded"
      BY <2>1
    <3> QED  BY <1>1, <2>2, <3>1, <3>2, <3>3, <3>4, ConcludeClaim
  <2>3. ASSUME NEW e \in {"badToken", "badNoMedia", "internal"}, Conclude(w, e), UNCHANGED media PROVE ClaimInv'
    BY <1>4, <2>1, <2>3 DEF Endings
  <2> QED  BY <1>9, <2>2, <2>3 DEF RunPipeline, RunError
<1> QED  BY <1>5, <1>6, <1>7, <1>8, <1>9

LEMMA NextClaim == ClaimInv /\ [Next]_vars => ClaimInv'
<1> SUFFICES ASSUME ClaimInv, [Next]_vars PROVE ClaimInv'
  OBVIOUS
<1>1. CASE UNCHANGED vars
  BY <1>1 DEF vars, media, ClaimInv, TypeOK, NotYetMinted, FollowedIsSaved, WorksOn, MintedWhenSaid,
     FailedIsReverted, ProcessedIsSo, WorkersKnow, Sound, Credited
<1>2. ASSUME NEW r \in Requests, RequestStep(r) \/ CrashRequest(r) PROVE ClaimInv'
  BY <1>2, PassesClaim, MakeClaim DEF RequestStep, Passes
<1>3. ASSUME NEW w \in Workers, WorkerStep(w) \/ CrashWorker(w) \/ Redeliver(w) PROVE ClaimInv'
  BY <1>3, TakeClaim, TrackClaim, EndClaim, RedeliverClaim DEF WorkerStep
<1> QED  BY <1>1, <1>2, <1>3, WorldClaim DEF Next

\* The invariant of claims, their messages and their workers.
THEOREM ClaimCorrect == Spec => []ClaimInv
<1> QED  BY InitClaim, NextClaim, PTL DEF Spec

-----------------------------------------------------------------------------
\* A request that is through, and whose claim was never saved.
Unsaved(q) == pc[q] \in {"unlockUser", "unlockWallet", "end"} /\ status[q] = "none"

Excused(r, s) == {r, s} \subseteq overlapped \/ Unsaved(r) \/ Unsaved(s)

\* Requests that conflict were let in together, or the later one has found the
\* claim of the earlier one.
MintInv ==
    \A r, s \in Requests : Conflict(r, s) =>
        /\ r \in Inside /\ s \in Inside => {r, s} \subseteq overlapped
        /\ pc[r] = "mint" /\ Executed(s) => Excused(r, s)
        /\ Executed(r) /\ Executed(s) => Excused(r, s)

LEMMA InitMint == Init => MintInv
  BY DEF Init, MintInv, Inside, Executed

\* A handler writes the status of the claim it works on only.
LEMMA WorkersWrite ==
  ASSUME ClaimInv, NEW w \in Workers, WorkerStep(w) \/ CrashWorker(w) \/ Redeliver(w)
  PROVE  /\ \A r \in Requests : status'[r] = status[r] \/ WorksOn(w, r)
         /\ UNCHANGED <<walletOf, owned, held, pc, overlapped, tx>>
<1>1. TypeOK
  BY DEF ClaimInv
<1>2. CASE GiveUp(w) \/ Ended(w)
  BY <1>2 DEF GiveUp, Ended, Conclude, requests
<1>3. CASE WaitForMinted(w) \/ WaitForSynced(w) \/ RunPipeline(w)
  BY <1>1, <1>3 DEF WaitForMinted, WaitForSynced, RunPipeline, Tracks, Conclude, Succeed, SetStatus, requests,
     WorksOn, TypeOK
<1>4. CASE WriteStatus(w)
  BY <1>1, <1>4 DEF WriteStatus, SetStatus, Ending, requests, WorksOn, TypeOK
<1>5. CASE CreateTask(w) \/ Reply(w) \/ CrashWorker(w) \/ Redeliver(w) \/ \E r \in Requests, a \in Attempts : Take(w, r, a)
  BY <1>5 DEF CreateTask, Reply, CrashWorker, Redeliver, Take, requests
<1> QED  BY <1>2, <1>3, <1>4, <1>5 DEF WorkerStep

\* Steps of Next, as far as requests are concerned: no step but that of the
\* second lock, of the check and of the mint lets a request in, to its mint, or
\* has a transaction made; a request that is through stays so.
LEMMA OthersMint ==
  ASSUME ClaimInv, [Next]_vars
  PROVE  /\ UNCHANGED walletOf /\ overlapped \subseteq overlapped'
         /\ \A s \in Requests : ~SetWalletLock(s) /\ s \in Inside' => s \in Inside
         /\ \A s \in Requests : ~Check(s) /\ pc'[s] = "mint" => pc[s] = "mint"
         /\ \A s \in Requests : ~ClaimMint(s) /\ Executed(s)' => Executed(s)
         /\ \A s \in Requests : Unsaved(s) => Unsaved(s)'
<1> DEFINE Kept ==
         /\ UNCHANGED walletOf /\ overlapped \subseteq overlapped'
         /\ \A s \in Requests : ~SetWalletLock(s) /\ s \in Inside' => s \in Inside
         /\ \A s \in Requests : ~Check(s) /\ pc'[s] = "mint" => pc[s] = "mint"
         /\ \A s \in Requests : ~ClaimMint(s) /\ Executed(s)' => Executed(s)
         /\ \A s \in Requests : Unsaved(s) => Unsaved(s)'
<1>1. TypeOK
  BY DEF ClaimInv
<1>2. ASSUME NEW r \in Requests, RequestStep(r) \/ CrashRequest(r) PROVE Kept
  <2> USE DEF Goto, ReadLock, Unlock, ReadUserLock, SetUserLock, ReadWalletLock, UnlockUser, UnlockWallet
  <2>1. /\ \A s \in Requests \ {r} : pc'[s] = pc[s] /\ tx'[s] = tx[s] /\ status'[s] = status[s]
        /\ UNCHANGED walletOf /\ overlapped \subseteq overlapped'
    BY <1>1, <1>2 DEF RequestStep, CrashRequest, SetWalletLock, Check, ClaimMint, SaveClaim, Save, QueueClaim,
       TypeOK, claimed, elsewhere, media
  <2>2. CASE ReadUserLock(r) \/ SetUserLock(r) \/ ReadWalletLock(r)
    BY <1>1, <2>1, <2>2 DEF TypeOK, claimed, Inside, Executed, Unsaved
  <2>3. CASE SetWalletLock(r)
    <3>1. pc[r] = "setWallet" /\ pc'[r] = "check" /\ UNCHANGED <<tx, status>>
      BY <1>1, <2>3 DEF SetWalletLock, TypeOK, claimed
    <3> QED  BY <1>1, <2>1, <2>3, <3>1 DEF Inside, Executed, Unsaved
  <2>4. CASE Check(r)
    BY <1>1, <2>1, <2>4 DEF Check, TypeOK, claimed, Inside, Executed, Unsaved
  <2>5. CASE ClaimMint(r)
    BY <1>1, <2>1, <2>5 DEF ClaimMint, TypeOK, Inside, Executed, Unsaved
  <2>6. CASE SaveClaim(r) \/ QueueClaim(r)
    BY <1>1, <2>1, <2>6 DEF SaveClaim, QueueClaim, TypeOK, Inside, Executed, Unsaved
  <2>7. CASE UnlockUser(r) \/ UnlockWallet(r) \/ CrashRequest(r)
    BY <1>1, <2>1, <2>7 DEF CrashRequest, TypeOK, claimed, Inside, Executed, Unsaved
  <2> QED  BY <1>2, <2>2, <2>3, <2>4, <2>5, <2>6, <2>7 DEF RequestStep
<1>3. ASSUME NEW w \in Workers, WorkerStep(w) \/ CrashWorker(w) \/ Redeliver(w) PROVE Kept
  <2>1. \A s \in Requests : status[s] = "none" => status'[s] = status[s]
    BY <1>3, WorkersWrite DEF ClaimInv, FollowedIsSaved
  <2>2. UNCHANGED <<walletOf, pc, overlapped, tx>>
    BY <1>3, WorkersWrite
  <2> QED  BY <2>1, <2>2 DEF Inside, Executed, Unsaved
<1>4. ASSUME UNCHANGED <<walletOf, pc, overlapped, status>>,
             \A s \in Requests : tx'[s] = tx[s] \/ tx[s] = "pending"
      PROVE  Kept
  BY <1>4 DEF Inside, Executed, Unsaved
<1>5. CASE \E r \in Requests : Execute(r)
  BY <1>1, <1>4, <1>5 DEF Execute, requests, TypeOK
<1>6. CASE (\E u, v \in Wallets : MoveWallet(u, v)) \/ (\E key \in Users \cup Wallets : Expire(key))
  BY <1>4, <1>6 DEF MoveWallet, Expire, claimed, elsewhere
<1>7. CASE UNCHANGED vars
  BY <1>4, <1>7 DEF vars
<1> QED  BY <1>2, <1>3, <1>5, <1>6, <1>7 DEF Next

LEMMA NextMint == ClaimInv /\ MintInv /\ [Next]_vars => MintInv'
<1> SUFFICES ASSUME ClaimInv, MintInv, [Next]_vars PROVE MintInv'
  OBVIOUS
<1>0. \A p, q \in Requests : Conflict(p, q)' => Conflict(p, q)
  BY OthersMint DEF Conflict, UserOf
<1> SUFFICES ASSUME NEW r \in Requests, NEW s \in Requests, Conflict(r, s)
             PROVE  (/\ r \in Inside /\ s \in Inside => {r, s} \subseteq overlapped
                     /\ pc[r] = "mint" /\ Executed(s) => Excused(r, s)
                     /\ Executed(r) /\ Executed(s) => Excused(r, s))'
  BY <1>0 DEF MintInv
<1>1. Conflict(s, r)
  BY DEF Conflict
<1>2. TypeOK
  BY DEF ClaimInv
<1>3. Excused(r, s) => Excused(r, s)'
  BY OthersMint DEF Excused
<1>4. ASSUME NEW p \in Requests, NEW q \in Requests, Conflict(p, q), (p \in Inside)', (q \in Inside)'
      PROVE  ({p, q} \subseteq overlapped)'
  <2>1. CASE ~SetWalletLock(p) /\ ~SetWalletLock(q)
    BY <1>4, <2>1, OthersMint DEF MintInv
  <2>2. ASSUME NEW x \in Requests, NEW y \in Requests, Conflict(x, y), SetWalletLock(x), (y \in Inside)'
        PROVE  ({x, y} \subseteq overlapped)'
    <3>1. x # y /\ pc'[y] = pc[y]
      BY <1>2, <2>2 DEF SetWalletLock, Goto, TypeOK, Conflict
    <3>2. y \in {z \in Inside : Conflict(x, z)}
      BY <2>2, <3>1 DEF Inside
    <3> QED  BY <2>2, <3>2 DEF SetWalletLock
  <2>3. Conflict(q, p)
    BY <1>4 DEF Conflict
  <2> QED  BY <1>4, <2>1, <2>2, <2>3
<1>5. ASSUME NEW p \in Requests, NEW q \in Requests, Conflict(p, q), pc'[p] = "mint", Executed(q)'
      PROVE  Excused(p, q)'
  <2>1. CASE (q \in Inside)'
    BY <1>4, <1>5, <2>1 DEF Inside, Excused
  <2>2. CASE (q \notin Inside)' /\ ClaimMint(q)
    <3>1. p \in Inside /\ q \in Inside
      BY <1>2, <1>5, <2>2 DEF ClaimMint, Goto, TypeOK, Inside, Conflict
    <3> QED  BY <1>5, <3>1, OthersMint DEF MintInv, Excused
  <2>3. CASE (q \notin Inside)' /\ ~ClaimMint(q)
    <3>1. Executed(q)
      BY <1>5, <2>3, OthersMint
    <3>2. CASE ~Check(p)
      <4>1. pc[p] = "mint"
        BY <1>5, <3>2, OthersMint
      <4> QED  BY <1>5, <3>1, <4>1, OthersMint DEF MintInv, Excused
    <3>3. CASE Check(p)
      <4>1. ~AlreadyClaimed(p) /\ pc'[q] = pc[q] /\ status' = status
        BY <1>2, <1>5, <3>3 DEF Check, Goto, TypeOK, Conflict, claimed
      <4>2. status[q] \notin Minted \cup Pending
        BY <1>5, <4>1 DEF AlreadyClaimed
      <4>3. status[q] \in {"none", "TX_FAILED"}
        BY <1>2, <4>2 DEF TypeOK, InFlight, Final, Minted, Pending
      <4>4. status[q] = "none" /\ pc[q] \notin BeforeMint
        BY <3>1, <4>3 DEF ClaimInv, FailedIsReverted, NotYetMinted, Executed
      <4>5. pc[q] \in {"unlockUser", "unlockWallet", "end"}
        BY <1>2, <2>3, <4>1, <4>4 DEF TypeOK, Inside, BeforeMint
      <4> QED  BY <4>1, <4>4, <4>5 DEF Unsaved, Excused
    <3> QED  BY <3>2, <3>3
  <2> QED  BY <2>1, <2>2, <2>3
<1>6. ASSUME NEW p \in Requests, NEW q \in Requests, Conflict(p, q), ClaimMint(p), Executed(q)'
      PROVE  Excused(p, q)'
  <2>1. pc[p] = "mint" /\ p # q /\ tx'[q] = tx[q]
    BY <1>2, <1>6 DEF ClaimMint, TypeOK, Conflict
  <2>2. Executed(q)
    BY <1>6, <2>1 DEF Executed
  <2> QED  BY <1>6, <2>1, <2>2, OthersMint DEF MintInv, Excused
<1>7. ASSUME Executed(r)', Executed(s)' PROVE Excused(r, s)'
  <2>1. CASE ~ClaimMint(r) /\ ~ClaimMint(s)
    BY <1>3, <1>7, <2>1, OthersMint DEF MintInv
  <2>2. CASE ClaimMint(r)
    BY <1>6, <1>7, <2>2
  <2>3. CASE ClaimMint(s)
    BY <1>1, <1>6, <1>7, <2>3 DEF Excused
  <2> QED  BY <2>1, <2>2, <2>3
<1>8. (pc[r] = "mint" /\ Executed(s) => Excused(r, s))'
  BY <1>5
<1>9. (r \in Inside /\ s \in Inside => {r, s} \subseteq overlapped)'
  BY <1>4
<1> QED  BY <1>7, <1>8, <1>9

-----------------------------------------------------------------------------
-----------------------------------------------------------------------------
(* The one who follows a claim.                                            *)

Queueing == BeforeMint \cup {"save", "saveFailed", "queue"}

\* One message or one active worker follows the claim.
Alone(r) ==
    /\ \A a \in Attempts : messages[r][a] <= 1
    /\ \A a, b \in Attempts : messages[r][a] > 0 /\ messages[r][b] > 0 => a = b
    /\ \A a \in Attempts, w \in Workers : messages[r][a] > 0 => ~Active(w, r)
    /\ \A v, w \in Workers : Active(v, r) /\ Active(w, r) => v = w

\* Nobody follows a claim whose message has not been sent.
Unqueued(r) ==
    /\ pc[r] \in Queueing =>
          /\ \A a \in Attempts : messages[r][a] = 0
          /\ \A w \in Workers : ~WorksOn(w, r)
          /\ r \notin processed
    /\ pc[r] = "queue" => status[r] = "TX_PENDING"

\* A claim that has come to an end is followed only after a failure, and its
\* worker can do no more than say that it failed.
Back(r) ==
    status[r] \in Final =>
        /\ \A a \in Attempts : messages[r][a] > 0 => r \in disturbed
        /\ \A w \in Workers : Active(w, r) =>
              /\ r \in disturbed
              /\ worker[w].todo \in {<<>>, <<"FAILED_INTERNAL", "reply">>}

\* A worker that tracks its claim knows its status.
Agrees(r) ==
    \A w \in Workers : Active(w, r) /\ worker[w].todo = <<>> => worker[w].local = status[r]

\* Without a failure, nothing comes between a run and the status that says so.
Told(r) ==
    r \in processed \ disturbed =>
        /\ status[r] # "MEDIA_FAILED"
        /\ \A a \in Attempts : messages[r][a] = 0
        /\ \A w \in Workers : Active(w, r) => worker[w].todo = <<"MEDIA_PROCESSED", "reply">>

Single(r) == Alone(r) /\ Unqueued(r) /\ Back(r) /\ Agrees(r) /\ Told(r)

\* Claims that never had two messages.
Follower == \A r \in Requests \ doubled : Single(r)

LEMMA InitFollower == Init => Follower
  BY DEF Init, Follower, Single, Alone, Unqueued, Back, Agrees, Told, Active, WorksOn

\* Steps that have to do with other claims, or take a worker away.
LEMMA Untouched ==
  ASSUME NEW r \in Requests, Single(r), messages'[r] = messages[r], status'[r] = status[r],
         pc'[r] = pc[r] \/ pc'[r] \notin Queueing,
         r \in processed' => r \in processed, r \in disturbed => r \in disturbed',
         \A w \in Workers : WorksOn(w, r)' => WorksOn(w, r) /\ worker'[w] = worker[w]
  PROVE  Single(r)'
<1>1. \A w \in Workers : Active(w, r)' => Active(w, r) /\ worker'[w] = worker[w]
  BY DEF Active, WorksOn
<1>2. Alone(r)'
  BY <1>1 DEF Single, Alone
<1>3. Unqueued(r)'
  BY DEF Single, Unqueued, Queueing
<1>4. Back(r)'
  BY <1>1 DEF Single, Back
<1>5. Agrees(r)'
  BY <1>1 DEF Single, Agrees
<1>6. Told(r)'
  BY <1>1 DEF Single, Told
<1> QED  BY <1>2, <1>3, <1>4, <1>5, <1>6 DEF Single

\* A step leaves the claim with neither.
LEMMA Nobody ==
  ASSUME NEW r \in Requests,
         \A v \in Workers : ~WorksOn(v, r)', \A b \in Attempts : messages'[r][b] = 0,
         pc'[r] = "queue" => status'[r] = "TX_PENDING", r \notin processed'
  PROVE  Single(r)'
<1>1. \A v \in Workers : ~Active(v, r)'
  BY DEF Active, WorksOn
<1> QED  BY <1>1 DEF Single, Alone, Unqueued, Back, Agrees, Told

\* A step leaves at most one message, of attempt a, and no active worker.
LEMMA OneMessage ==
  ASSUME NEW r \in Requests, NEW a,
         \A v \in Workers : ~Active(v, r)',
         \A b \in Attempts : messages'[r][b] \in {0, 1} /\ (messages'[r][b] > 0 => b = a),
         status'[r] \notin Final \/ r \in disturbed',
         pc'[r] \notin Queueing,
         r \notin processed' \/ r \in disturbed'
  PROVE  Single(r)'
<1>1. \A b \in Attempts : messages'[r][b] <= 1
  OBVIOUS
<1>2. Alone(r)'
  BY <1>1 DEF Alone
<1>3. Unqueued(r)'
  BY DEF Unqueued, Queueing
<1> QED  BY <1>2, <1>3 DEF Single, Back, Agrees, Told

\* A step leaves one worker, and no message.
LEMMA OneWorker ==
  ASSUME NEW r \in Requests, NEW w \in Workers,
         \A v \in Workers : Active(v, r)' => v = w,
         \A b \in Attempts : messages'[r][b] = 0,
         pc'[r] \notin Queueing,
         Active(w, r)' /\ status'[r] \in Final =>
            r \in disturbed' /\ worker'[w].todo \in {<<>>, <<"FAILED_INTERNAL", "reply">>},
         Active(w, r)' /\ worker'[w].todo = <<>> => worker'[w].local = status'[r],
         r \in processed' \ disturbed' =>
            /\ status'[r] # "MEDIA_FAILED"
            /\ Active(w, r)' => worker'[w].todo = <<"MEDIA_PROCESSED", "reply">>
  PROVE  Single(r)'
<1>1. Alone(r)'
  BY DEF Alone
<1>2. Unqueued(r)'
  BY DEF Unqueued, Queueing
<1>3. Back(r)'
  BY DEF Back
<1>4. Agrees(r)'
  BY DEF Agrees
<1>5. Told(r)'
  BY DEF Told
<1> QED  BY <1>1, <1>2, <1>3, <1>4, <1>5 DEF Single

\* What one worker does about one claim leaves the others alone.
OnlyOf(w, r) ==
    /\ \A v \in Workers \ {w} : worker'[v] = worker[v]
    /\ worker'[w] # NoWork => worker'[w].claim = r
    /\ \A s \in Requests \ {r} :
          /\ messages'[s] = messages[s]
          /\ status'[s] = status[s]
          /\ s \in processed' => s \in processed
    /\ disturbed \subseteq disturbed'
    /\ doubled \subseteq doubled'
    /\ pc' = pc

LEMMA OthersFollow ==
  ASSUME Follower, NEW w \in Workers, NEW r \in Requests, OnlyOf(w, r), r \notin doubled' => Single(r)'
  PROVE  Follower'
<1> SUFFICES ASSUME NEW s \in Requests \ doubled', s # r PROVE Single(s)'
  BY DEF Follower
<1>1. Single(s)
  BY DEF Follower, OnlyOf
<1>2. \A v \in Workers : WorksOn(v, s)' => WorksOn(v, s) /\ worker'[v] = worker[v]
  BY DEF WorksOn, OnlyOf
<1> QED  BY <1>1, <1>2, Untouched DEF OnlyOf

\* The active worker of a claim that has one follower.
LEMMA TheOne ==
  ASSUME ClaimInv, NEW w \in Workers, NEW r \in Requests, Single(r), Active(w, r)
  PROVE  /\ \A b \in Attempts : messages[r][b] = 0
         /\ \A v \in Workers : Active(v, r) => v = w
         /\ pc[r] \notin Queueing
<1>1. \A b \in Attempts : messages[r][b] \in Nat /\ ~(messages[r][b] > 0)
  BY DEF ClaimInv, TypeOK, Single, Alone
<1>2. WorksOn(w, r)
  BY DEF Active, WorksOn
<1> QED  BY <1>1, <1>2 DEF Single, Alone, Unqueued

\* It is known how a handler ends.
LEMMA ConcludeFollower ==
  ASSUME ClaimInv, Follower, NEW w \in Workers, worker[w] # NoWork, worker[w].todo = <<>>,
         NEW e \in Endings, Conclude(w, e),
         worker[w].local \in Final => e \in {"ended", "internal"},
         processed' = processed \/ (e = "processed" /\ processed' = processed \cup {worker[w].claim})
  PROVE  Follower'
<1> PICK r \in Requests : r = worker[w].claim
  BY WorkShape DEF ClaimInv
<1>1. TypeOK /\ worker[w] \in WorkOf
  BY WorkShape DEF ClaimInv
<1>2. /\ \A v \in Workers \ {w} : worker'[v] = worker[v]
      /\ worker'[w].claim = r /\ worker'[w].todo = Calls(e)
      /\ UNCHANGED <<pc, status, messages, doubled, disturbed>>
  BY <1>1 DEF Conclude, Do, requests, TypeOK, WorkOf
<1>3. OnlyOf(w, r)
  BY <1>2 DEF OnlyOf
<1>4. ASSUME Single(r) PROVE Single(r)'
  <2>1. Active(w, r)
    BY DEF Active
  <2>2. /\ \A b \in Attempts : messages[r][b] = 0
        /\ \A v \in Workers : Active(v, r) => v = w
        /\ pc[r] \notin Queueing
    BY <1>4, <2>1, TheOne
  <2>3. \A v \in Workers : Active(v, r)' => v = w
    BY <1>2, <2>2 DEF Active
  <2>4. worker[w].local = status[r] /\ (status[r] \in Final => r \in disturbed)
    BY <1>4, <2>1 DEF Single, Agrees, Back
  <2>5. worker'[w].todo # <<>>
    BY <1>2, CallsShape
  <2>6. ASSUME Active(w, r)', status'[r] \in Final
        PROVE  r \in disturbed' /\ worker'[w].todo = <<"FAILED_INTERNAL", "reply">>
    <3>1. e = "internal"
      <4>1. e = "ended" => worker'[w].todo = <<"reply">>
        BY <1>2 DEF Calls
      <4> QED  BY <1>2, <2>4, <2>6, <4>1 DEF Active
    <3> QED  BY <1>2, <2>4, <2>6, <3>1 DEF Calls
  <2>7. ASSUME r \in processed' \ disturbed'
        PROVE  status'[r] # "MEDIA_FAILED" /\ worker'[w].todo = <<"MEDIA_PROCESSED", "reply">>
    <3>1. r \notin processed
      <4>1. r \in processed => worker[w].todo = <<"MEDIA_PROCESSED", "reply">>
        BY <1>2, <1>4, <2>1, <2>7 DEF Single, Told
      <4>2. <<"MEDIA_PROCESSED", "reply">> # <<>>
        OBVIOUS
      <4> QED  BY <4>1, <4>2
    <3>2. e = "processed"
      BY <2>7, <3>1
    <3>3. status[r] \notin Final
      BY <2>4, <3>2
    <3> QED  BY <1>2, <3>2, <3>3 DEF Calls, Final
  <2> QED  BY <1>2, <2>2, <2>3, <2>5, <2>6, <2>7, OneWorker
<1> QED  BY <1>2, <1>3, <1>4, OthersFollow DEF Follower

\* A worker goes on: its claim's status with it.
LEMMA SucceedFollower ==
  ASSUME ClaimInv, Follower, NEW w \in Workers, worker[w] # NoWork, worker[w].todo = <<>>,
         NEW next \in {"TX_SUCCEEDED", "MEDIA_PROCESSING"}, Succeed(w, next), UNCHANGED media
  PROVE  Follower'
<1> PICK r \in Requests : r = worker[w].claim
  BY WorkShape DEF ClaimInv
<1>1. TypeOK /\ worker[w] \in WorkOf
  BY WorkShape DEF ClaimInv
<1>2. /\ \A v \in Workers \ {w} : worker'[v] = worker[v]
      /\ worker'[w].claim = r /\ worker'[w].local = next /\ worker'[w].todo = <<>>
      /\ status'[r] = next /\ \A s \in Requests \ {r} : status'[s] = status[s]
      /\ UNCHANGED <<pc, messages, processed, doubled, disturbed>>
  BY <1>1 DEF Succeed, Do, SetStatus, requests, media, TypeOK, WorkOf
<1>3. OnlyOf(w, r)
  BY <1>2 DEF OnlyOf
<1>4. ASSUME Single(r) PROVE Single(r)'
  <2>1. Active(w, r)
    BY DEF Active
  <2>2. /\ \A b \in Attempts : messages[r][b] = 0
        /\ \A v \in Workers : Active(v, r) => v = w
        /\ pc[r] \notin Queueing
    BY <1>4, <2>1, TheOne
  <2>3. \A v \in Workers : Active(v, r)' => v = w
    BY <1>2, <2>2 DEF Active
  <2>4. r \in processed \ disturbed => worker[w].todo = <<"MEDIA_PROCESSED", "reply">>
    BY <1>4, <2>1 DEF Single, Told
  <2>5. <<"MEDIA_PROCESSED", "reply">> # <<>>
    OBVIOUS
  <2>6. r \notin processed' \ disturbed'
    BY <1>2, <2>4, <2>5
  <2>7. status'[r] \notin Final /\ worker'[w].local = status'[r]
    BY <1>2 DEF Final
  <2> QED  BY <1>2, <2>2, <2>3, <2>6, <2>7, OneWorker
<1> QED  BY <1>2, <1>3, <1>4, OthersFollow DEF Follower

\* A handler writes the status that comes next.
LEMMA WriteFollower ==
  ASSUME ClaimInv, Follower, NEW w \in Workers, WriteStatus(w)
  PROVE  Follower'
<1> DEFINE t == worker[w].todo
           s == Head(t)
<1>1. TypeOK /\ worker[w] # NoWork /\ worker[w] \in WorkOf /\ t \in Seq(Call) /\ EndsWell(t) /\ t # <<>>
  BY WorkShape DEF ClaimInv, WorkersKnow, Sound, WriteStatus, Ending
<1> PICK r \in Requests : r = worker[w].claim
  BY <1>1, WorkShape
<1>2. s # "reply" /\ s # "retry"
  BY DEF WriteStatus, InFlight, Final
<1>3. Tail(t) # <<>> /\ (s \in Final => Tail(t) = <<"reply">>)
  BY <1>1, <1>2, RestEndsWell
<1>4. /\ \A v \in Workers \ {w} : worker'[v] = worker[v]
      /\ worker'[w] = Rest(w) \/ (worker'[w] = Failed(w) /\ r \in disturbed')
      /\ \A q \in Requests \ {r} : status'[q] = status[q]
      /\ \/ status'[r] = s
         \/ status'[r] = status[r] /\ worker'[w] = Failed(w) /\ r \in disturbed'
      /\ disturbed \subseteq disturbed'
      /\ UNCHANGED <<pc, messages, processed, doubled>>
  BY <1>1 DEF WriteStatus, SetStatus, Do, requests, media, TypeOK
<1>5. Rest(w).claim = r /\ Rest(w).todo = Tail(t)
  BY <1>1 DEF Rest, WorkOf
<1>6. /\ Failed(w).claim = r
      /\ Failed(w).todo = IF s = "MEDIA_PROCESSED" THEN <<"FAILED_INTERNAL", "reply">> ELSE Tail(t)
  BY <1>1, <1>5 DEF Failed, Calls, WorkOf
<1>7. OnlyOf(w, r)
  BY <1>4, <1>5, <1>6 DEF OnlyOf
<1>8. ASSUME Single(r) PROVE Single(r)'
  <2>1. t # <<"reply">>
    <3>1. Head(<<"reply">>) = "reply"
      OBVIOUS
    <3> QED  BY <1>2, <3>1
  <2>2. Active(w, r)
    BY <1>1, <2>1 DEF Active
  <2>3. /\ \A b \in Attempts : messages[r][b] = 0
        /\ \A v \in Workers : Active(v, r) => v = w
        /\ pc[r] \notin Queueing
    BY <1>8, <2>2, TheOne
  <2>4. \A v \in Workers : Active(v, r)' => v = w
    BY <1>4, <2>3 DEF Active
  <2>5. status[r] \in Final => r \in disturbed /\ t = <<"FAILED_INTERNAL", "reply">>
    BY <1>1, <1>8, <2>2 DEF Single, Back
  <2>6. worker'[w].todo # <<>>
    <3>1. <<"FAILED_INTERNAL", "reply">> # <<>>
      OBVIOUS
    <3> QED  BY <1>3, <1>4, <1>5, <1>6, <3>1
  <2>7. ASSUME Active(w, r)', status'[r] \in Final
        PROVE  r \in disturbed' /\ worker'[w].todo = <<"FAILED_INTERNAL", "reply">>
    <3>1. s \in Final
      <4>1. Head(<<"FAILED_INTERNAL", "reply">>) = "FAILED_INTERNAL"
        OBVIOUS
      <4> QED  BY <1>4, <2>5, <2>7, <4>1 DEF Final
    <3>2. worker'[w].todo # Tail(t)
      BY <1>3, <2>7, <3>1 DEF Active
    <3> QED  BY <1>4, <1>5, <1>6, <3>2
  <2>8. ASSUME r \in processed' \ disturbed'
        PROVE  status'[r] # "MEDIA_FAILED" /\ ~Active(w, r)'
    <3>1. t = <<"MEDIA_PROCESSED", "reply">>
      BY <1>4, <1>8, <2>2, <2>8 DEF Single, Told
    <3>2. s = "MEDIA_PROCESSED"
      BY <3>1
    <3>3. worker'[w].todo = <<"reply">> /\ status'[r] = "MEDIA_PROCESSED"
      BY <1>3, <1>4, <1>5, <2>8, <3>2 DEF Final
    <3> QED  BY <3>3 DEF Active
  <2> QED  BY <1>4, <2>3, <2>4, <2>6, <2>7, <2>8, OneWorker
<1> QED  BY <1>4, <1>7, <1>8, OthersFollow DEF Follower

\* A handler creates the next task.
LEMMA TaskFollower ==
  ASSUME ClaimInv, Follower, NEW w \in Workers, CreateTask(w)
  PROVE  Follower'
<1> DEFINE t == worker[w].todo
           a == worker[w].attempt + 1
<1>1. /\ TypeOK /\ worker[w] # NoWork /\ worker[w] \in WorkOf /\ t \in Seq(Call) /\ EndsWell(t)
      /\ t # <<>> /\ Head(t) = "retry"
  BY WorkShape DEF ClaimInv, WorkersKnow, Sound, CreateTask, Ending
<1> PICK r \in Requests : r = worker[w].claim
  BY <1>1, WorkShape
<1>2. a \in Attempts
  BY <1>1, WorkShape, HighlightMintAssumption DEF Attempts
<1>3. /\ \A v \in Workers \ {w} : worker'[v] = worker[v]
      /\ worker'[w] = Rest(w)
      /\ UNCHANGED <<pc, status, processed>>
      /\ \/ /\ messages' = [messages EXCEPT ![r][a] = @ + 1]
            /\ Tail(t) = <<"reply">> \/ r \in doubled'
         \/ messages' = messages /\ r \in disturbed'
      /\ disturbed \subseteq disturbed' /\ doubled \subseteq doubled'
  BY <1>1 DEF CreateTask, Send, NextAttempt, Do, requests, media, TypeOK
<1>4. Rest(w).claim = r /\ Rest(w).todo = Tail(t) /\ Tail(t) # <<>>
  BY <1>1, RestEndsWell DEF Rest, WorkOf
<1>5. \A q \in Requests \ {r} : messages'[q] = messages[q]
  BY <1>1, <1>3 DEF TypeOK
<1>6. OnlyOf(w, r)
  BY <1>3, <1>4, <1>5 DEF OnlyOf
<1>7. ASSUME Single(r), r \notin doubled' PROVE Single(r)'
  <2>1. /\ Head(<<"reply">>) = "reply"
        /\ Head(<<"FAILED_INTERNAL", "reply">>) = "FAILED_INTERNAL"
        /\ Head(<<"MEDIA_PROCESSED", "reply">>) = "MEDIA_PROCESSED"
    OBVIOUS
  <2>2. t \notin {<<>>, <<"reply">>, <<"FAILED_INTERNAL", "reply">>, <<"MEDIA_PROCESSED", "reply">>}
    BY <1>1, <2>1
  <2>3. Active(w, r)
    BY <1>1, <2>2 DEF Active
  <2>4. /\ \A b \in Attempts : messages[r][b] = 0
        /\ \A v \in Workers : Active(v, r) => v = w
        /\ pc[r] \notin Queueing
    BY <1>7, <2>3, TheOne
  <2>5. \A v \in Workers : Active(v, r)' => v = w
    BY <1>3, <2>4 DEF Active
  <2>6. status[r] \notin Final
    BY <1>7, <2>2, <2>3 DEF Single, Back
  <2>7. r \notin processed \ disturbed
    BY <1>7, <2>2, <2>3 DEF Single, Told
  <2>8. CASE messages' = [messages EXCEPT ![r][a] = @ + 1] /\ Tail(t) = <<"reply">>
    <3>1. \A v \in Workers : ~Active(v, r)'
      BY <1>3, <1>4, <2>5, <2>8 DEF Active
    <3>2. messages'[r] = [messages[r] EXCEPT ![a] = messages[r][a] + 1] /\ messages[r] \in [Attempts -> Nat]
      BY <1>1, <1>2, <2>8 DEF TypeOK
    <3>3. \A b \in Attempts : messages'[r][b] \in {0, 1} /\ (messages'[r][b] > 0 => b = a)
      BY <1>2, <2>4, <3>2
    <3>4. status'[r] \notin Final /\ pc'[r] \notin Queueing /\ (r \notin processed' \/ r \in disturbed')
      BY <1>3, <2>4, <2>6, <2>7
    <3> QED  BY <3>1, <3>3, <3>4, OneMessage
  <2>9. CASE messages' = messages /\ r \in disturbed'
    BY <1>3, <1>4, <2>4, <2>5, <2>6, <2>9, OneWorker
  <2> QED  BY <1>3, <1>7, <2>8, <2>9
<1> QED  BY <1>3, <1>6, <1>7, OthersFollow DEF Follower

\* The answer and the crash of a handler.
LEMMA LeaveFollower ==
  ASSUME ClaimInv, Follower, NEW w \in Workers, Reply(w) \/ CrashWorker(w) \/ Redeliver(w)
  PROVE  Follower'
<1> DEFINE a == worker[w].attempt
<1>1. TypeOK /\ worker[w] # NoWork /\ worker[w] \in WorkOf
  BY WorkShape DEF ClaimInv, Reply, CrashWorker, Redeliver, Ending
<1> PICK r \in Requests : r = worker[w].claim
  BY <1>1, WorkShape
<1>2. a \in Attempts
  BY <1>1, WorkShape, HighlightMintAssumption DEF Attempts
<1>3. /\ UNCHANGED <<pc, status, processed>>
      /\ messages' = messages \/ messages' = [messages EXCEPT ![r][a] = @ + 1]
      /\ worker' = worker \/ worker' = [worker EXCEPT ![w] = NoWork]
      /\ disturbed \subseteq disturbed' /\ doubled \subseteq doubled'
  BY DEF Reply, CrashWorker, Redeliver, Send, Do, requests, media
<1>4. \A q \in Requests \ {r} : messages'[q] = messages[q]
  BY <1>1, <1>3 DEF TypeOK
<1>5. OnlyOf(w, r)
  BY <1>1, <1>3, <1>4 DEF OnlyOf, TypeOK
<1>6. CASE Reply(w)
  <2>1. messages' = messages /\ worker' = [worker EXCEPT ![w] = NoWork]
    BY <1>6 DEF Reply, Do
  <2>2. \A v \in Workers : WorksOn(v, r)' => WorksOn(v, r) /\ worker'[v] = worker[v]
    BY <1>1, <2>1 DEF WorksOn, TypeOK
  <2>3. Single(r) => Single(r)'
    BY <1>3, <2>1, <2>2, Untouched
  <2> QED  BY <1>3, <1>5, <2>3, OthersFollow DEF Follower
<1>7. CASE CrashWorker(w)
  <2>1. ASSUME Single(r), r \notin doubled' PROVE Single(r)'
    <3>1. /\ messages' = [messages EXCEPT ![r][a] = @ + 1]
          /\ worker' = [worker EXCEPT ![w] = NoWork]
          /\ r \in disturbed'
          /\ \A b \in Attempts : ~(messages[r][b] > 0)
          /\ \A v \in Workers \ {w} : ~Active(v, r)
      BY <1>7, <2>1 DEF CrashWorker, Send, Do
    <3>2. \A v \in Workers : ~Active(v, r)'
      BY <1>1, <3>1 DEF Active, TypeOK
    <3>3. messages'[r] = [messages[r] EXCEPT ![a] = messages[r][a] + 1] /\ messages[r] \in [Attempts -> Nat]
      BY <1>1, <1>2, <3>1 DEF TypeOK
    <3>4. \A b \in Attempts : messages[r][b] = 0
      BY <3>1, <3>3
    <3>5. \A b \in Attempts : messages'[r][b] \in {0, 1} /\ (messages'[r][b] > 0 => b = a)
      BY <1>2, <3>3, <3>4
    <3>6. pc'[r] \notin Queueing
      BY <1>1, <1>3, <2>1 DEF Single, Unqueued, WorksOn
    <3> QED  BY <3>1, <3>2, <3>5, <3>6, OneMessage
  <2> QED  BY <1>3, <1>5, <2>1, OthersFollow DEF Follower
<1>8. CASE Redeliver(w)
  <2>1. r \in doubled'
    BY <1>8 DEF Redeliver
  <2> QED  BY <1>5, <2>1, OthersFollow
<1> QED  BY <1>6, <1>7, <1>8

\* A message is delivered, and its claim is read or not.
LEMMA TakeFollower ==
  ASSUME ClaimInv, Follower, NEW w \in Workers, NEW r \in Requests, NEW a \in Attempts, Take(w, r, a)
  PROVE  Follower'
<1>1. TypeOK
  BY DEF ClaimInv
<1>2. /\ messages[r] \in [Attempts -> Nat] /\ messages[r][a] > 0 /\ worker[w] = NoWork
      /\ messages' = [messages EXCEPT ![r][a] = messages[r][a] - 1]
      /\ UNCHANGED <<pc, status, processed, doubled>> /\ disturbed \subseteq disturbed'
  BY <1>1 DEF Take, requests, media, TypeOK
<1>3. /\ messages'[r] = [messages[r] EXCEPT ![a] = messages[r][a] - 1]
      /\ \A s \in Requests \ {r} : messages'[s] = messages[s]
  BY <1>1, <1>2 DEF TypeOK
<1>4. /\ \A v \in Workers \ {w} : worker'[v] = worker[v]
      /\ worker'[w].claim = r
      /\ \/ worker'[w].todo = <<>> /\ worker'[w].local = status[r]
         \/ worker'[w].todo = <<"FAILED_INTERNAL", "reply">> /\ r \in disturbed'
  BY <1>1 DEF Take, Do, Resumes, Work, Calls, TypeOK
<1>5. OnlyOf(w, r)
  BY <1>2, <1>3, <1>4 DEF OnlyOf
<1>6. ASSUME Single(r) PROVE Single(r)'
  <2>1. /\ \A b \in Attempts : messages[r][b] = IF b = a THEN 1 ELSE 0
        /\ \A v \in Workers : ~Active(v, r)
    <3>1. /\ \A b \in Attempts : messages[r][b] \in Nat
          /\ messages[r][a] <= 1
          /\ \A b \in Attempts : messages[r][b] > 0 => b = a
          /\ \A v \in Workers : ~Active(v, r)
      BY <1>2, <1>6 DEF Single, Alone
    <3> QED  BY <1>2, <3>1
  <2>2. \A b \in Attempts : messages'[r][b] = 0
    BY <1>2, <1>3, <2>1
  <2>3. \A v \in Workers : Active(v, r)' => v = w
    BY <1>4, <2>1 DEF Active
  <2>4. pc'[r] \notin Queueing
    BY <1>2, <1>6 DEF Single, Unqueued
  <2>5. status[r] \in Final => r \in disturbed
    BY <1>2, <1>6 DEF Single, Back
  <2>6. r \notin processed \ disturbed
    BY <1>2, <1>6 DEF Single, Told
  <2>7. <<"FAILED_INTERNAL", "reply">> # <<>>
    OBVIOUS
  <2> QED  BY <1>2, <1>4, <2>2, <2>3, <2>4, <2>5, <2>6, <2>7, OneWorker
<1> QED  BY <1>2, <1>5, <1>6, OthersFollow DEF Follower

\* A request saves its claim and sends its message.
LEMMA RequestFollower ==
  ASSUME ClaimInv, Follower, NEW r \in Requests, RequestStep(r) \/ CrashRequest(r)
  PROVE  Follower'
<1>1. TypeOK
  BY DEF ClaimInv
<1> USE DEF Goto, ReadLock, Unlock, ReadUserLock, SetUserLock, ReadWalletLock, SetWalletLock, UnlockUser,
            UnlockWallet, Check, ClaimMint, CrashRequest
<1>2. UNCHANGED <<worker, processed, doubled, disturbed>>
  BY DEF RequestStep, SaveClaim, QueueClaim, elsewhere, media
<1>3. \A s \in Requests : \A v \in Workers : WorksOn(v, s)' => WorksOn(v, s) /\ worker'[v] = worker[v]
  BY <1>2 DEF WorksOn
<1>4. \A s \in Requests \ {r} : pc'[s] = pc[s] /\ status'[s] = status[s] /\ messages'[s] = messages[s]
  BY <1>1 DEF RequestStep, SaveClaim, Save, QueueClaim, Send, TypeOK, claimed
<1>5. \A s \in Requests \ {r} : Single(s) => Single(s)'
  BY <1>2, <1>3, <1>4, Untouched
<1>6. ASSUME Single(r), SaveClaim(r) PROVE Single(r)'
  <2>1. /\ \A b \in Attempts : messages[r][b] = 0
        /\ \A v \in Workers : ~WorksOn(v, r)
        /\ r \notin processed
    BY <1>6 DEF SaveClaim, Single, Unqueued, Queueing
  <2>2. messages' = messages /\ (pc'[r] = "queue" => status'[r] = "TX_PENDING")
    BY <1>1, <1>6 DEF SaveClaim, Save, TypeOK
  <2>3. \A v \in Workers : ~WorksOn(v, r)'
    BY <1>3, <2>1
  <2>4. \A b \in Attempts : messages'[r][b] = 0
    BY <2>1, <2>2
  <2> QED  BY <1>2, <2>1, <2>2, <2>3, <2>4, Nobody
<1>7. ASSUME Single(r), QueueClaim(r) PROVE Single(r)'
  <2>1. /\ \A b \in Attempts : messages[r][b] = 0
        /\ \A v \in Workers : ~WorksOn(v, r)
        /\ r \notin processed
        /\ status[r] = "TX_PENDING"
    BY <1>7 DEF QueueClaim, Single, Unqueued, Queueing
  <2>2. pc'[r] = "unlockUser" /\ status'[r] = "TX_PENDING"
    BY <1>1, <1>7, <2>1 DEF QueueClaim, TypeOK
  <2>3. \A v \in Workers : ~Active(v, r)'
    BY <1>3, <2>1 DEF WorksOn, Active
  <2>4. \A b \in Attempts : messages'[r][b] \in {0, 1} /\ (messages'[r][b] > 0 => b = 0)
    <3>1. CASE messages' = messages
      BY <2>1, <3>1
    <3>2. CASE Send(r, 0)
      <4>1. 0 \in Attempts
        BY HighlightMintAssumption DEF Attempts
      <4>2. messages'[r] = [messages[r] EXCEPT ![0] = messages[r][0] + 1] /\ messages[r] \in [Attempts -> Nat]
        BY <1>1, <3>2, <4>1 DEF Send, TypeOK
      <4> QED  BY <2>1, <4>1, <4>2
    <3> QED  BY <1>7, <3>1, <3>2 DEF QueueClaim
  <2>5. status'[r] \notin Final
    BY <2>2 DEF Final
  <2>6. pc'[r] \notin Queueing
    BY <2>2 DEF BeforeMint, Queueing
  <2> QED  BY <1>2, <2>1, <2>3, <2>4, <2>5, <2>6, OneMessage
<1>8. ASSUME Single(r), ~SaveClaim(r), ~QueueClaim(r) PROVE Single(r)'
  <2>1. UNCHANGED <<status, messages>>
    BY <1>8 DEF RequestStep, claimed
  <2>2. pc[r] \in Queueing \/ pc'[r] \notin Queueing
    BY <1>1, <1>8 DEF RequestStep, BeforeMint, Queueing, TypeOK
  <2>3. pc'[r] # "queue"
    BY <1>1, <1>8 DEF RequestStep, TypeOK
  <2>4. CASE pc'[r] \in Queueing
    <3>1. /\ \A b \in Attempts : messages[r][b] = 0
          /\ \A v \in Workers : ~WorksOn(v, r)
          /\ r \notin processed
      BY <1>8, <2>2, <2>4 DEF Single, Unqueued
    <3>2. \A v \in Workers : ~WorksOn(v, r)'
      BY <1>3, <3>1
    <3>3. \A b \in Attempts : messages'[r][b] = 0
      BY <2>1, <3>1
    <3> QED  BY <1>2, <2>3, <3>1, <3>2, <3>3, Nobody
  <2>5. CASE pc'[r] \notin Queueing
    BY <1>2, <1>3, <1>8, <2>1, <2>5, Untouched
  <2> QED  BY <2>4, <2>5
<1> QED  BY <1>2, <1>5, <1>6, <1>7, <1>8 DEF Follower

\* A worker tracks its claim.
LEMMA TrackFollower ==
  ASSUME ClaimInv, Follower, NEW w \in Workers,
         GiveUp(w) \/ Ended(w) \/ WaitForMinted(w) \/ WaitForSynced(w) \/ RunPipeline(w)
  PROVE  Follower'
<1>1. worker[w] # NoWork /\ worker[w].todo = <<>>
  BY DEF GiveUp, Ended, WaitForMinted, WaitForSynced, RunPipeline, Tracks
<1>2. ASSUME NEW e \in Endings, Conclude(w, e), UNCHANGED media,
             worker[w].local \in Final => e \in {"ended", "internal"}
      PROVE  Follower'
  BY <1>1, <1>2, ConcludeFollower DEF media
<1>3. CASE GiveUp(w)
  BY <1>2, <1>3 DEF GiveUp, Endings, Final
<1>4. CASE Ended(w)
  BY <1>2, <1>4 DEF Ended, Endings
<1>5. CASE WaitForMinted(w) \/ WaitForSynced(w)
  <2>1. UNCHANGED media /\ worker[w].local \notin Final
    BY <1>5 DEF WaitForMinted, WaitForSynced, Tracks, Final
  <2>2. \/ \E e \in Endings : Conclude(w, e)
        \/ \E next \in {"TX_SUCCEEDED", "MEDIA_PROCESSING"} : Succeed(w, next)
    BY <1>5 DEF WaitForMinted, WaitForSynced, WhenUnminted, Endings
  <2> QED  BY <1>1, <1>2, <2>1, <2>2, SucceedFollower
<1>6. CASE RunPipeline(w)
  <2>1. worker[w].local \notin Final
    BY <1>6 DEF RunPipeline, Tracks, Final
  <2>2. PICK e \in Endings : /\ Conclude(w, e)
                             /\ \/ processed' = processed
                                \/ e = "processed" /\ processed' = processed \cup {worker[w].claim}
    BY <1>6 DEF RunPipeline, RunError, Endings, media
  <2> QED  BY <1>1, <2>1, <2>2, ConcludeFollower
<1> QED  BY <1>3, <1>4, <1>5, <1>6

LEMMA NextFollower == ClaimInv /\ Follower /\ [Next]_vars => Follower'
<1> SUFFICES ASSUME ClaimInv, Follower, [Next]_vars PROVE Follower'
  OBVIOUS
<1>1. ASSUME NEW w \in Workers, WorkerStep(w) \/ CrashWorker(w) \/ Redeliver(w) PROVE Follower'
  BY <1>1, TakeFollower, TrackFollower, WriteFollower, TaskFollower, LeaveFollower DEF WorkerStep
<1>2. ASSUME UNCHANGED <<pc, status, messages, worker, processed, doubled, disturbed>> PROVE Follower'
  <2>1. \A s \in Requests : \A v \in Workers : WorksOn(v, s)' => WorksOn(v, s) /\ worker'[v] = worker[v]
    BY <1>2 DEF WorksOn
  <2>2. \A s \in Requests : Single(s) => Single(s)'
    BY <1>2, <2>1, Untouched
  <2> QED  BY <1>2, <2>2 DEF Follower
<1>3. CASE \/ \E r \in Requests : Execute(r)
           \/ \E key \in Users \cup Wallets : Expire(key)
           \/ \E u, v \in Wallets : MoveWallet(u, v)
           \/ UNCHANGED vars
  BY <1>2, <1>3 DEF Execute, Expire, MoveWallet, requests, media, claimed, elsewhere, vars
<1> QED  BY <1>1, <1>3, RequestFollower DEF Next

LEMMA FinalStep ==
  ASSUME ClaimInv, Follower, [Next]_vars, NEW r \in Requests \ doubled, status[r] \in Final
  PROVE  status'[r] = status[r] \/ (status'[r] = "FAILED_INTERNAL" /\ r \in disturbed)
<1>1. TypeOK
  BY DEF ClaimInv
<1>2. ASSUME NEW q \in Requests, RequestStep(q) \/ CrashRequest(q) PROVE status'[r] = status[r]
  <2>1. CASE SaveClaim(q)
    <3>1. status[q] = "none"
      BY <2>1 DEF SaveClaim, ClaimInv, NotYetMinted
    <3>2. q # r
      BY <3>1 DEF Final
    <3> QED  BY <1>1, <2>1, <3>2 DEF SaveClaim, Save, TypeOK
  <2> QED
    BY <1>2, <2>1 DEF RequestStep, CrashRequest, ReadUserLock, SetUserLock, ReadWalletLock, SetWalletLock, ReadLock,
       Check, ClaimMint, QueueClaim, UnlockUser, UnlockWallet, Unlock, claimed
<1>3. ASSUME NEW w \in Workers, WorkerStep(w) \/ CrashWorker(w) \/ Redeliver(w)
      PROVE  status'[r] = status[r] \/ (status'[r] = "FAILED_INTERNAL" /\ r \in disturbed)
  <2>1. CASE ~WorksOn(w, r)
    BY <1>3, <2>1, WorkersWrite
  <2>2. CASE WorksOn(w, r) /\ WriteStatus(w)
    <3>1. /\ worker[w] # NoWork /\ worker[w].claim = r /\ worker[w].todo # <<>>
          /\ Head(worker[w].todo) \in InFlight \cup Final
          /\ status'[r] = status[r] \/ status'[r] = Head(worker[w].todo)
      BY <1>1, <2>2 DEF WorksOn, WriteStatus, Ending, SetStatus, TypeOK
    <3>2. Head(<<"reply">>) = "reply" /\ Head(<<"FAILED_INTERNAL", "reply">>) = "FAILED_INTERNAL"
      OBVIOUS
    <3>3. worker[w].todo # <<"reply">>
      BY <3>1, <3>2 DEF InFlight, Final
    <3>4. Active(w, r)
      BY <3>1, <3>3 DEF Active
    <3>5. r \in disturbed /\ worker[w].todo = <<"FAILED_INTERNAL", "reply">>
      BY <3>1, <3>4 DEF Follower, Single, Back
    <3> QED  BY <3>1, <3>2, <3>5
  <2>3. CASE WorksOn(w, r) /\ ~WriteStatus(w) /\ worker[w].todo # <<>>
    BY <1>3, <2>3 DEF WorkerStep, WorksOn, Take, GiveUp, Ended, WaitForMinted, WaitForSynced, RunPipeline, Tracks,
       CreateTask, Reply, CrashWorker, Redeliver
  <2>4. CASE WorksOn(w, r) /\ worker[w].todo = <<>>
    <3>1. Active(w, r)
      <4>1. <<>> # <<"reply">>
        OBVIOUS
      <4> QED  BY <2>4, <4>1 DEF WorksOn, Active
    <3>2. worker[w].local \in Final
      BY <2>4, <3>1 DEF Follower, Single, Agrees
    <3>3. ~WaitForMinted(w) /\ ~WaitForSynced(w) /\ ~RunPipeline(w)
      BY <3>2 DEF WaitForMinted, WaitForSynced, RunPipeline, Tracks, Final
    <3> QED
      BY <1>3, <2>4, <3>3 DEF WorkerStep, WorksOn, Take, GiveUp, Ended, Conclude, WriteStatus, CreateTask, Reply,
         Ending, CrashWorker, Redeliver
  <2> QED  BY <2>1, <2>2, <2>3, <2>4
<1>4. CASE \/ \E q \in Requests : Execute(q)
           \/ \E key \in Users \cup Wallets : Expire(key)
           \/ \E u, v \in Wallets : MoveWallet(u, v)
           \/ UNCHANGED vars
  BY <1>4 DEF Execute, Expire, MoveWallet, claimed, vars
<1> QED  BY <1>2, <1>3, <1>4 DEF Next

-----------------------------------------------------------------------------
(* The theorems.                                                           *)

\* A claim is not said to be minted before its transaction has succeeded, and
\* no message of it asks for more attempts than there are.
THEOREM ClaimsAreTrue == Spec => []ClaimsInv
<1>1. ClaimInv => ClaimsInv
  BY DEF ClaimInv, ClaimsInv
<1> QED  BY <1>1, ClaimCorrect, PTL

\* A client is not told MEDIA_PROCESSED of a claim that no run has processed
\* and from which none was turned away, nor MEDIA_FAILED of one that a run has
\* processed, but for two messages or a failure.
THEOREM MediaIsToldTruly == Spec => []MediaIsTold
<1>1. ClaimInv /\ Follower => MediaIsTold
  BY DEF ClaimInv, ProcessedIsSo, Follower, Single, Told, MediaIsTold
<1>2. Spec => [](ClaimInv /\ Follower)
  BY ClaimCorrect, InitFollower, NextFollower, PTL DEF Spec
<1> QED  BY <1>1, <1>2, PTL

\* Two mints of a user or an address come of two requests that were let in
\* together, or of a mint whose claim was not saved, and of nothing else.
THEOREM OneMintEach == Spec => []OneMint
<1>1. MintInv => OneMint
  BY DEF MintInv, OneMint, Excused, Unsaved
<1> QED  BY <1>1, InitMint, NextMint, ClaimCorrect, PTL DEF Spec

\* A claim that never had two messages does not leave its end, unless a failure
\* has brought its handler back to it: then it may become an internal failure.
THEOREM FinalIsFinal == Spec => FinalStays
<1>1. ClaimInv /\ Follower /\ [Next]_vars =>
         [\A r \in Requests \ doubled : status[r] \in Final =>
             \/ status'[r] = status[r]
             \/ status'[r] = "FAILED_INTERNAL" /\ r \in disturbed]_vars
  BY FinalStep
<1>2. Spec => [](ClaimInv /\ Follower)
  BY ClaimCorrect, InitFollower, NextFollower, PTL DEF Spec
<1> QED  BY <1>1, <1>2, PTL DEF Spec, FinalStays
====
