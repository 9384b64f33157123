--------------------------- MODULE BatcherProofs ---------------------------
(***************************************************************************)
(* Proofs about Batcher, for any number of calls and parameters, any size  *)
(* of the batches, with and without a cache and errors.                    *)
(***************************************************************************)
EXTENDS Batcher, FiniteSetTheorems, TLAPS

-----------------------------------------------------------------------------
(* The inductive invariant.                                                *)

\* A call that has taken a batch finds it in the map, and its parameter in it
\* at the place it was told.
InBatch == {"count", "lock", "bump", "submit", "close", "bumpFull", "wait"}
Placed == {"submit", "close", "bumpFull", "wait"}

CallSound(c) ==
    /\ pc[c] \in InBatch => id[c] \in DOMAIN batches
    /\ pc[c] \in Placed =>
          /\ index[c] \in DOMAIN Batch(c).params
          /\ Batch(c).params[index[c]] = param[c]

\* The parts of one batch agree: it is open and waits for its timer, or was
\* closed and is called for once, then it has results for its parameters.
BatchSound(b, B) ==
    /\ Len(B.params) <= MaxBatchSize
    /\ B.open => Len(B.params) < MaxBatchSize
    /\ \A i, j \in DOMAIN B.params : B.params[i] = B.params[j] => i = j
    /\ B.open => ~B.done /\ B.invoked = 0 /\ B.timer = IF B.params = <<>> THEN "off" ELSE "sleeping"
    /\ B.invoked \in {0, 1}
    /\ B.invoked = 1 =>
          /\ DOMAIN B.results = DOMAIN B.params
          /\ \A i \in DOMAIN B.params : B.results[i] \in {Error, Result(B.params[i], b)}
    /\ B.done => B.invoked = 1
    /\ B.timer = "submit" => B.invoked = 0
    /\ B.timer = "close" => B.invoked = 1
    /\ B.timer \in {"submit", "close"} => ~B.open /\ ~B.done

Submits(c, b) == id[c] = b /\ pc[c] \in {"submit", "close"}

\* A closed batch that is not done has its timer or one call to submit it.
Supervised(b) ==
    /\ ~batches[b].open /\ ~batches[b].done /\ batches[b].timer \notin {"submit", "close"} =>
          \E c \in Calls : Submits(c, b)
    /\ \A c \in Calls : Submits(c, b) =>
          /\ ~batches[b].open /\ ~batches[b].done /\ batches[b].timer \in {"off", "sleeping"}
          /\ pc[c] = "submit" => batches[b].invoked = 0
          /\ pc[c] = "close" => batches[b].invoked = 1
    /\ \A c, d \in Calls : Submits(c, b) /\ Submits(d, b) => c = d

\* What may be known of a parameter: a result of a batch that has it, or a
\* primed one.
Known(p, v) ==
    \/ v = PrimedResult(p)
    \/ \E b \in DOMAIN batches : v = Result(p, b) /\ p \in Range(batches[b].params)

Inv ==
    /\ TypeOK
    /\ \A c \in Calls : CallSound(c)
    /\ \A b \in DOMAIN batches : BatchSound(b, batches[b]) /\ Supervised(b)
    /\ \A p \in DOMAIN resultCache : Known(p, resultCache[p])
    /\ \A c \in Calls : pc[c] = "returned" => answer[c] = Error \/ Known(param[c], answer[c])

LEMMA InitInv == Init => Inv
  BY DEF Init, Inv, TypeOK, CallSound, InBatch, Placed, Locations

-----------------------------------------------------------------------------
(* What a step that changes one batch leaves to be shown.                  *)

\* The parameters of batches stay where they are.
Grows ==
    /\ DOMAIN batches \subseteq DOMAIN batches'
    /\ \A b \in DOMAIN batches : \A i \in DOMAIN batches[b].params :
          i \in DOMAIN batches'[b].params /\ batches'[b].params[i] = batches[b].params[i]

LEMMA GrowsKnown == ASSUME Grows, NEW p, NEW v, Known(p, v) PROVE Known(p, v)'
<1>1. CASE v = PrimedResult(p)
  BY <1>1 DEF Known
<1>2. ASSUME NEW b \in DOMAIN batches, v = Result(p, b), p \in Range(batches[b].params) PROVE Known(p, v)'
  <2>1. PICK i \in DOMAIN batches[b].params : batches[b].params[i] = p
    BY <1>2 DEF Range
  <2>2. p \in Range(batches'[b].params) /\ b \in DOMAIN batches'
    BY <2>1 DEF Grows, Range
  <2> QED  BY <1>2, <2>2 DEF Known
<1> QED  BY <1>1, <1>2 DEF Known

\* Calls that do not move stay where they were.
LEMMA GrowsCalls ==
  ASSUME Grows, NEW c \in Calls, CallSound(c), pc'[c] = pc[c] \/ pc'[c] \notin InBatch \/
         (pc[c] \in InBatch /\ pc'[c] \notin Placed) \/ (pc[c] \in Placed /\ pc'[c] \in Placed),
         id'[c] = id[c], index'[c] = index[c], param'[c] = param[c]
  PROVE  CallSound(c)'
  BY DEF CallSound, Grows, Batch, Placed, InBatch

\* One batch changes, and is sound: so are all, and the other ones as supervised as before.
LEMMA OneBatch ==
  ASSUME TypeOK, \A d \in DOMAIN batches : BatchSound(d, batches[d]),
         NEW b \in DOMAIN batches, NEW B \in BatchType, BatchSound(b, B),
         batches' = [batches EXCEPT ![b] = B],
         \A i \in DOMAIN batches[b].params : i \in DOMAIN B.params /\ B.params[i] = batches[b].params[i]
  PROVE  /\ DOMAIN batches' = DOMAIN batches
         /\ batches' \in [DOMAIN batches' -> BatchType]
         /\ batches'[b] = B
         /\ \A d \in DOMAIN batches \ {b} : batches'[d] = batches[d]
         /\ \A d \in DOMAIN batches' : BatchSound(d, batches'[d])
         /\ Grows
<1>1. /\ DOMAIN batches' = DOMAIN batches
      /\ batches' \in [DOMAIN batches' -> BatchType]
      /\ batches'[b] = B
      /\ \A d \in DOMAIN batches \ {b} : batches'[d] = batches[d]
  BY DEF TypeOK
<1>2. \A d \in DOMAIN batches' : BatchSound(d, batches'[d])
  BY <1>1
<1> QED  BY <1>1, <1>2 DEF Grows

\* The batches whose state of supervision and whose submitting calls stay.
LEMMA SupervisionKept ==
  ASSUME NEW d, Supervised(d),
         /\ batches'[d].open = batches[d].open
         /\ batches'[d].done = batches[d].done
         /\ batches'[d].timer = batches[d].timer
         /\ batches'[d].invoked = batches[d].invoked,
         \A c \in Calls : Submits(c, d) => Submits(c, d)' /\ pc'[c] = pc[c],
         \A c \in Calls : Submits(c, d)' => Submits(c, d)
  PROVE  Supervised(d)'
<1>1. (\A c \in Calls : Submits(c, d) =>
          /\ ~batches[d].open /\ ~batches[d].done /\ batches[d].timer \in {"off", "sleeping"}
          /\ pc[c] = "submit" => batches[d].invoked = 0
          /\ pc[c] = "close" => batches[d].invoked = 1)'
  BY DEF Supervised
<1>2. (\A c, e \in Calls : Submits(c, d) /\ Submits(e, d) => c = e)'
  BY DEF Supervised
<1>3. (~batches[d].open /\ ~batches[d].done /\ batches[d].timer \notin {"submit", "close"} =>
          \E c \in Calls : Submits(c, d))'
  BY DEF Supervised
<1> QED  BY <1>1, <1>2, <1>3 DEF Supervised
-----------------------------------------------------------------------------
(* The steps of a call.                                                    *)

\* What is cached and what was answered stays known.
LEMMA KnownKept ==
  ASSUME Inv, Grows, UNCHANGED <<resultCache, param, answer>>
  PROVE  /\ (\A p \in DOMAIN resultCache : Known(p, resultCache[p]))'
         /\ \A x \in Calls : pc[x] = "returned" => (answer[x] = Error \/ Known(param[x], answer[x]))'
<1>1. (\A p \in DOMAIN resultCache : Known(p, resultCache[p]))'
  <2> SUFFICES ASSUME NEW p \in DOMAIN resultCache PROVE Known(p, resultCache[p])'
    OBVIOUS
  <2>1. PICK v : v = resultCache[p] /\ Known(p, v)
    BY DEF Inv
  <2>2. resultCache'[p] = v /\ Known(p, v)'
    BY <2>1, GrowsKnown
  <2> QED  BY <2>2
<1>2. ASSUME NEW x \in Calls, pc[x] = "returned", answer'[x] # Error
      PROVE  Known(param[x], answer[x])'
  <2>1. PICK p, v : p = param[x] /\ v = answer[x] /\ Known(p, v)
    BY <1>2 DEF Inv
  <2>2. param'[x] = p /\ answer'[x] = v /\ Known(p, v)'
    BY <2>1, GrowsKnown
  <2> QED  BY <2>2
<1> QED  BY <1>1, <1>2

\* What the steps of a call on its way to a thunk have in common.
LEMMA CallMoves ==
  ASSUME Inv, NEW c \in Calls, TypeOK', Grows, UNCHANGED <<resultCache, param, answer>>,
         \A x \in Calls \ {c} : pc'[x] = pc[x] /\ id'[x] = id[x] /\ index'[x] = index[x],
         pc'[c] # "returned", CallSound(c)',
         \A b \in DOMAIN batches' : BatchSound(b, batches'[b]) /\ Supervised(b)'
  PROVE  Inv'
<1>1. \A x \in Calls : CallSound(x)'
  <2> SUFFICES ASSUME NEW x \in Calls \ {c} PROVE CallSound(x)'
    OBVIOUS
  <2>1. pc'[x] = pc[x] /\ id'[x] = id[x] /\ index'[x] = index[x] /\ param'[x] = param[x] /\ CallSound(x)
    BY DEF Inv
  <2> QED  BY <2>1, GrowsCalls
<1>2. (\A x \in Calls : pc[x] = "returned" => answer[x] = Error \/ Known(param[x], answer[x]))'
  BY KnownKept
<1> QED  BY <1>1, <1>2, KnownKept DEF Inv

\* What the steps of a timer have in common.
LEMMA TimerMoves ==
  ASSUME Inv, TypeOK', Grows, UNCHANGED <<resultCache, locals>>,
         \A b \in DOMAIN batches' : BatchSound(b, batches'[b]) /\ Supervised(b)'
  PROVE  Inv'
<1>1. \A x \in Calls : CallSound(x)'
  BY GrowsCalls DEF Inv, locals
<1>2. (\A x \in Calls : pc[x] = "returned" => answer[x] = Error \/ Known(param[x], answer[x]))'
  BY KnownKept DEF locals
<1> QED  BY <1>1, <1>2, KnownKept DEF Inv, locals

\* The batch is found or made.
LEMMA LoadStep == ASSUME Inv, NEW c \in Calls, LoadBatch(c) PROVE Inv'
<1>1. TypeOK
  BY DEF Inv
<1> PICK n \in Nat : n = currentBatchID
  BY <1>1 DEF TypeOK
<1>2. /\ DOMAIN batches' = DOMAIN batches \cup {n}
      /\ batches' \in [DOMAIN batches' -> {NewBatch} \cup {batches[d] : d \in DOMAIN batches}]
      /\ \A d \in DOMAIN batches : batches'[d] = batches[d]
      /\ n \notin DOMAIN batches => batches'[n] = NewBatch
  BY DEF LoadBatch, LoadOrStore
<1>3. NewBatch \in BatchType /\ \A b : BatchSound(b, NewBatch)
  BY BatcherAssumption DEF NewBatch, BatchType, BatchSound
<1>4. /\ \A x \in Calls \ {c} : pc'[x] = pc[x] /\ id'[x] = id[x] /\ index'[x] = index[x]
      /\ pc[c] = "readID" /\ pc'[c] = "count" /\ id'[c] = n
      /\ UNCHANGED <<currentBatchID, resultCache, param, answer, index>>
  BY <1>1 DEF LoadBatch, Goto, TypeOK
<1>5. pc' \in [Calls -> Locations] /\ id' \in [Calls -> Nat]
  BY <1>1 DEF LoadBatch, Goto, TypeOK, Locations
<1>6. batches' \in [DOMAIN batches' -> BatchType] /\ DOMAIN batches' \subseteq Nat
  BY <1>1, <1>2, <1>3 DEF TypeOK
<1>7. TypeOK'
  BY <1>1, <1>4, <1>5, <1>6 DEF TypeOK
<1>8. Grows
  BY <1>2 DEF Grows
<1>9. CallSound(c)'
  BY <1>2, <1>4 DEF CallSound, Placed
<1>10. ASSUME NEW b \in DOMAIN batches' PROVE BatchSound(b, batches'[b]) /\ Supervised(b)'
  <2>1. \A x \in Calls : Submits(x, b)' => x # c /\ Submits(x, b)
    BY <1>4 DEF Submits
  <2>2. \A x \in Calls : Submits(x, b) => Submits(x, b)' /\ pc'[x] = pc[x]
    BY <1>4 DEF Submits
  <2>3. CASE b \in DOMAIN batches
    BY <1>2, <2>1, <2>2, <2>3, SupervisionKept DEF Inv
  <2>4. CASE b \notin DOMAIN batches
    <3>1. batches'[b] = NewBatch
      BY <1>2, <2>4
    <3>2. \A x \in Calls : ~Submits(x, b)
      BY <2>4 DEF Inv, CallSound, Submits, InBatch
    <3>3. batches'[b].open /\ \A x \in Calls : ~Submits(x, b)'
      BY <2>1, <3>1, <3>2 DEF NewBatch
    <3> QED  BY <1>3, <3>1, <3>3 DEF Supervised
  <2> QED  BY <2>3, <2>4
<1> QED  BY <1>4, <1>7, <1>8, <1>9, <1>10, CallMoves

LEMMA CountStep == ASSUME Inv, NEW c \in Calls, CountCaller(c) PROVE Inv'
<1>1. TypeOK
  BY DEF Inv
<1> PICK b \in DOMAIN batches : b = id[c]
  BY DEF Inv, CallSound, CountCaller, InBatch
<1> DEFINE B == [batches[b] EXCEPT !.numCallers = @ + 1]
<1>2. batches[b] \in BatchType
  BY <1>1 DEF TypeOK
<1>3. B \in BatchType /\ BatchSound(b, B)
  BY <1>2 DEF BatchType, BatchSound, Inv
<1>4. batches' = [batches EXCEPT ![b] = B]
  BY DEF CountCaller
<1>5. /\ B.params = batches[b].params /\ B.open = batches[b].open /\ B.done = batches[b].done
      /\ B.timer = batches[b].timer /\ B.invoked = batches[b].invoked
  BY <1>2 DEF BatchType
<1>6. /\ DOMAIN batches' = DOMAIN batches
      /\ batches' \in [DOMAIN batches' -> BatchType]
      /\ batches'[b] = B
      /\ \A d \in DOMAIN batches \ {b} : batches'[d] = batches[d]
      /\ \A d \in DOMAIN batches' : BatchSound(d, batches'[d])
      /\ Grows
  <2> HIDE DEF B
  <2> QED  BY <1>1, <1>3, <1>4, <1>5, OneBatch DEF Inv
<1>7. /\ \A x \in Calls \ {c} : pc'[x] = pc[x] /\ id'[x] = id[x] /\ index'[x] = index[x]
      /\ pc[c] = "count" /\ pc'[c] \in {"bump", "lock"} /\ id'[c] = b
      /\ UNCHANGED <<currentBatchID, resultCache, param, answer, id, index>>
  BY <1>1 DEF CountCaller, Goto, TypeOK
<1>8. TypeOK'
  <2>1. pc' \in [Calls -> Locations]
    BY <1>1 DEF CountCaller, Goto, TypeOK, Locations
  <2> QED  BY <1>1, <1>6, <1>7, <2>1 DEF TypeOK
<1>9. CallSound(c)'
  BY <1>6, <1>7 DEF CallSound, Placed
<1>10. ASSUME NEW d \in DOMAIN batches' PROVE Supervised(d)'
  <2>1. \A x \in Calls : Submits(x, d)' <=> Submits(x, d)
    BY <1>7 DEF Submits
  <2>2. \A x \in Calls : Submits(x, d) => pc'[x] = pc[x]
    BY <1>7 DEF Submits
  <2>3. /\ batches'[d].open = batches[d].open /\ batches'[d].done = batches[d].done
        /\ batches'[d].timer = batches[d].timer /\ batches'[d].invoked = batches[d].invoked
    BY <1>5, <1>6
  <2> QED  BY <1>6, <2>1, <2>2, <2>3, SupervisionKept DEF Inv
<1> QED  BY <1>6, <1>7, <1>8, <1>9, <1>10, CallMoves

\* currentBatchID moves on.
LEMMA BumpStep == ASSUME Inv, NEW c \in Calls, TryNextBatch(c) \/ LeaveFullBatch(c) PROVE Inv'
<1>1. TypeOK
  BY DEF Inv
<1>2. /\ \A x \in Calls \ {c} : pc'[x] = pc[x] /\ id'[x] = id[x] /\ index'[x] = index[x]
      /\ \/ pc[c] = "bump" /\ pc'[c] = "readID"
         \/ pc[c] = "bumpFull" /\ pc'[c] = "wait"
      /\ UNCHANGED <<batches, resultCache, param, answer, id, index>>
  BY <1>1 DEF TryNextBatch, LeaveFullBatch, Goto, TypeOK
<1>3. TypeOK'
  <2>1. pc' \in [Calls -> Locations]
    BY <1>1 DEF TryNextBatch, LeaveFullBatch, Goto, TypeOK, Locations
  <2>2. currentBatchID' \in Nat
    BY <1>1 DEF TryNextBatch, LeaveFullBatch, CompareAndSwap, TypeOK
  <2> QED  BY <1>1, <1>2, <2>1, <2>2 DEF TypeOK
<1>4. Grows
  BY <1>2 DEF Grows
<1>5. CallSound(c)'
  BY <1>2 DEF Inv, CallSound, Placed, InBatch, Batch
<1>6. ASSUME NEW d \in DOMAIN batches' PROVE BatchSound(d, batches'[d]) /\ Supervised(d)'
  <2>1. \A x \in Calls : Submits(x, d)' <=> Submits(x, d)
    BY <1>2 DEF Submits
  <2>2. \A x \in Calls : Submits(x, d) => pc'[x] = pc[x]
    BY <1>2 DEF Submits
  <2> QED  BY <1>2, <2>1, <2>2, SupervisionKept DEF Inv
<1> QED  BY <1>2, <1>3, <1>4, <1>5, <1>6, CallMoves

\* The place of a call's parameter in an open batch, without changing it, or
\* the way on to the next batch.
LEMMA FoundStep ==
  ASSUME Inv, NEW c \in Calls, AddParam(c), UNCHANGED batches
  PROVE  Inv'
<1>1. TypeOK
  BY DEF Inv
<1> PICK b \in DOMAIN batches : b = id[c]
  BY DEF Inv, CallSound, AddParam, InBatch
<1>2. batches[b] \in BatchType /\ batches[b].params \in Seq(Params)
  BY <1>1 DEF TypeOK, BatchType
<1>3. \/ pc' = [pc EXCEPT ![c] = "bump"] /\ index' = index
      \/ \E i \in DOMAIN batches[b].params :
            /\ batches[b].params[i] = param[c]
            /\ pc' = [pc EXCEPT ![c] = "wait"]
            /\ index' = [index EXCEPT ![c] = i]
  <2>1. CASE \E i \in Places(c) : index' = [index EXCEPT ![c] = i] /\ Goto(c, "wait")
    BY <2>1 DEF Places, Goto, Batch
  <2>2. CASE ~Batch(c).open /\ Goto(c, "bump") /\ UNCHANGED <<batches, index>>
    BY <2>2 DEF Goto
  <2>3. CASE /\ Places(c) = {} /\ Batch(c).open
             /\ batches' = [batches EXCEPT ![id[c]].params = Append(@, param[c]),
                     ![id[c]].timer = IF Len(Batch(c).params) + 1 = 1 THEN "sleeping" ELSE @,
                     ![id[c]].open = ~(Len(Batch(c).params) + 1 = MaxBatchSize)]
    <3> DEFINE B == [batches[b] EXCEPT !.params = Append(@, param[c]),
                        !.timer = IF Len(batches[b].params) + 1 = 1 THEN "sleeping" ELSE @,
                        !.open = ~(Len(batches[b].params) + 1 = MaxBatchSize)]
    <3>1. batches' = [batches EXCEPT ![b] = B]
      BY <2>3 DEF Batch
    <3>2. B.params = Append(batches[b].params, param[c])
      BY <1>2 DEF BatchType
    <3>3. batches'[b].params = Append(batches[b].params, param[c])
      <4> HIDE DEF B
      <4> QED  BY <3>1, <3>2
    <3>4. Len(Append(batches[b].params, param[c])) = Len(batches[b].params) + 1 /\ param[c] \in Params
      BY <1>1, <1>2 DEF TypeOK
    <3> QED  BY <1>2, <3>3, <3>4
  <2> QED  BY <2>1, <2>2, <2>3 DEF AddParam
<1>4. /\ \A x \in Calls \ {c} : pc'[x] = pc[x] /\ id'[x] = id[x] /\ index'[x] = index[x]
      /\ pc[c] = "lock" /\ pc'[c] \in {"bump", "wait"}
      /\ UNCHANGED <<currentBatchID, resultCache, param, answer, id>>
  BY <1>1, <1>3 DEF AddParam, TypeOK
<1>5. TypeOK'
  <2>1. pc' \in [Calls -> Locations]
    BY <1>1, <1>3 DEF TypeOK, Locations
  <2>2. index' \in [Calls -> Nat]
    <3>1. \A i \in DOMAIN batches[b].params : i \in Nat
      BY <1>2
    <3>2. \E i \in Nat : index' = index \/ index' = [index EXCEPT ![c] = i]
      BY <1>3, <3>1
    <3>3. index \in [Calls -> Nat]
      BY <1>1 DEF TypeOK
    <3> QED  BY <3>2, <3>3
  <2> QED  BY <1>1, <1>4, <2>1, <2>2 DEF TypeOK
<1>6. Grows
  BY DEF Grows
<1>7. CallSound(c)'
  BY <1>1, <1>3, <1>4 DEF CallSound, Placed, Batch, TypeOK
<1>8. ASSUME NEW d \in DOMAIN batches' PROVE BatchSound(d, batches'[d]) /\ Supervised(d)'
  <2>1. \A x \in Calls : Submits(x, d)' <=> Submits(x, d)
    BY <1>4 DEF Submits
  <2>2. \A x \in Calls : Submits(x, d) => pc'[x] = pc[x]
    BY <1>4 DEF Submits
  <2> QED  BY <2>1, <2>2, SupervisionKept DEF Inv
<1> QED  BY <1>4, <1>5, <1>6, <1>7, <1>8, CallMoves

\* The parameter is appended: the first one starts the timer, the last one
\* closes the batch and has the call submit it.
LEMMA AppendStep ==
  ASSUME Inv, NEW c \in Calls, AddParam(c), ~UNCHANGED batches
  PROVE  Inv'
<1>1. TypeOK
  BY DEF Inv
<1> PICK b \in DOMAIN batches : b = id[c]
  BY DEF Inv, CallSound, AddParam, InBatch
<1> DEFINE n == Len(batches[b].params) + 1
           B == [batches[b] EXCEPT !.params = Append(@, param[c]),
                    !.timer = IF n = 1 THEN "sleeping" ELSE @, !.open = ~(n = MaxBatchSize)]
<1>2. /\ batches[b] \in BatchType /\ batches[b].params \in Seq(Params) /\ param[c] \in Params
      /\ MaxBatchSize \in Nat \ {0}
  BY <1>1, BatcherAssumption DEF TypeOK, BatchType
<1>3. /\ batches[b].open /\ Places(c) = {}
      /\ batches' = [batches EXCEPT ![b] = B]
      /\ index' = [index EXCEPT ![c] = n]
      /\ pc' = [pc EXCEPT ![c] = IF n = MaxBatchSize THEN "submit" ELSE "wait"]
  BY DEF AddParam, Goto, Batch
<1>4. /\ B.params = Append(batches[b].params, param[c])
      /\ B.timer = IF n = 1 THEN "sleeping" ELSE batches[b].timer
      /\ B.open <=> n # MaxBatchSize
      /\ B.done = batches[b].done /\ B.invoked = batches[b].invoked
      /\ B.results = batches[b].results /\ B.numCallers = batches[b].numCallers
  BY <1>2 DEF BatchType
<1>5. B \in BatchType
  <2>1. /\ Append(batches[b].params, param[c]) \in Seq(Params)
        /\ (IF n = 1 THEN "sleeping" ELSE batches[b].timer) \in {"off", "sleeping", "submit", "close"}
        /\ (~(n = MaxBatchSize)) \in BOOLEAN
    BY <1>2 DEF BatchType
  <2> QED  BY <1>2, <2>1 DEF BatchType
<1>6. BatchSound(b, batches[b])
  BY DEF Inv
<1>7. /\ n \in Nat /\ n <= MaxBatchSize /\ Len(B.params) = n /\ DOMAIN B.params = 1 .. n
      /\ \A i \in DOMAIN batches[b].params : i \in DOMAIN B.params /\ B.params[i] = batches[b].params[i]
      /\ B.params[n] = param[c]
      /\ DOMAIN batches[b].params = 1 .. n - 1
  BY <1>2, <1>3, <1>4, <1>6 DEF BatchSound
<1>8. BatchSound(b, B)
  <2>1. \A i, j \in DOMAIN B.params : B.params[i] = B.params[j] => i = j
    <3>1. \A i \in DOMAIN batches[b].params : batches[b].params[i] # param[c]
      BY <1>3 DEF Places, Batch
    <3> QED  BY <1>6, <1>7, <3>1 DEF BatchSound
  <2>2. /\ ~batches[b].done /\ batches[b].invoked = 0 /\ batches[b].timer \in {"off", "sleeping"}
        /\ n > 1 => batches[b].timer = "sleeping"
    BY <1>2, <1>3, <1>6 DEF BatchSound
  <2>3. B.timer = "sleeping" /\ B.params # <<>>
    BY <1>2, <1>4, <1>7, <2>2
  <2>4. Len(B.params) <= MaxBatchSize /\ (B.open => Len(B.params) < MaxBatchSize)
    BY <1>2, <1>4, <1>7
  <2>5. ~B.done /\ B.invoked = 0
    BY <1>4, <2>2
  <2> HIDE DEF B
  <2> QED  BY <2>1, <2>3, <2>4, <2>5 DEF BatchSound
<1>9. /\ DOMAIN batches' = DOMAIN batches
      /\ batches' \in [DOMAIN batches' -> BatchType]
      /\ batches'[b] = B
      /\ \A d \in DOMAIN batches \ {b} : batches'[d] = batches[d]
      /\ \A d \in DOMAIN batches' : BatchSound(d, batches'[d])
      /\ Grows
  <2> HIDE DEF B
  <2> QED  BY <1>1, <1>3, <1>5, <1>7, <1>8, OneBatch DEF Inv
<1>10. /\ \A x \in Calls \ {c} : pc'[x] = pc[x] /\ id'[x] = id[x] /\ index'[x] = index[x]
       /\ pc[c] = "lock" /\ pc'[c] = (IF n = MaxBatchSize THEN "submit" ELSE "wait")
       /\ index'[c] = n
       /\ UNCHANGED <<currentBatchID, resultCache, param, answer, id>>
  BY <1>1, <1>3 DEF AddParam, TypeOK
<1>11. TypeOK'
  <2>1. pc' \in [Calls -> Locations]
    BY <1>1, <1>3 DEF TypeOK, Locations
  <2>2. index' \in [Calls -> Nat]
    BY <1>1, <1>3, <1>7 DEF TypeOK
  <2> QED  BY <1>1, <1>9, <1>10, <2>1, <2>2 DEF TypeOK
<1>12. CallSound(c)'
  <2>1. n \in DOMAIN B.params
    BY <1>2, <1>7
  <2> HIDE DEF B
  <2> QED  BY <1>7, <1>9, <1>10, <2>1 DEF CallSound, Batch
<1>13. \A x \in Calls : ~Submits(x, b)
  BY <1>3 DEF Inv, Supervised
<1>14. ASSUME NEW d \in DOMAIN batches' PROVE Supervised(d)'
  <2>1. CASE d # b
    <3>1. \A x \in Calls : Submits(x, d)' <=> Submits(x, d)
      BY <1>10, <2>1 DEF Submits
    <3>2. \A x \in Calls : Submits(x, d) => pc'[x] = pc[x]
      BY <1>10 DEF Submits
    <3> QED  BY <1>9, <2>1, <3>1, <3>2, SupervisionKept DEF Inv
  <2>2. CASE d = b
    <3>1. ~B.done /\ B.invoked = 0 /\ B.timer \in {"off", "sleeping"}
      BY <1>3, <1>4, <1>6 DEF BatchSound
    <3>2. \A x \in Calls : Submits(x, b)' => x = c /\ pc'[c] = "submit" /\ n = MaxBatchSize
      BY <1>10, <1>13 DEF Submits
    <3>3. n = MaxBatchSize => Submits(c, b)'
      BY <1>10 DEF Submits
    <3>4. ~batches'[b].open <=> n = MaxBatchSize
      BY <1>4, <1>9
    <3> HIDE DEF B, n
    <3> QED  BY <1>9, <2>2, <3>1, <3>2, <3>3, <3>4 DEF Supervised
  <2> QED  BY <2>1, <2>2
<1> QED
  <2> HIDE DEF B, n
  <2> QED  BY <1>9, <1>10, <1>11, <1>12, <1>14, CallMoves

\* A batch is called for.
LEMMA OutcomeSound ==
  ASSUME Inv, NEW b \in DOMAIN batches, NEW results \in Outcomes(b), batches[b].invoked = 0, ~batches[b].open
  PROVE  /\ results \in Seq({Error} \cup [param : Params, batch : Nat])
         /\ DOMAIN results = DOMAIN batches[b].params
         /\ \A i \in DOMAIN batches[b].params : results[i] \in {Error, Result(batches[b].params[i], b)}
<1>1. TypeOK
  BY DEF Inv
<1>2. batches[b].params \in Seq(Params) /\ b \in Nat
  BY <1>1 DEF TypeOK, BatchType
<1>3. PICK failed : results = [i \in DOMAIN batches[b].params |->
                        IF i \in failed THEN Error ELSE Result(batches[b].params[i], b)]
  BY DEF Outcomes
<1>4. \A i \in DOMAIN batches[b].params : results[i] \in {Error, Result(batches[b].params[i], b)}
  BY <1>3
<1>5. \A i \in DOMAIN batches[b].params : Result(batches[b].params[i], b) \in [param : Params, batch : Nat]
  BY <1>2 DEF Result
<1>6. DOMAIN batches[b].params = 1 .. Len(batches[b].params) /\ Len(batches[b].params) \in Nat
  BY <1>2
<1>7. results \in [1 .. Len(batches[b].params) -> {Error} \cup [param : Params, batch : Nat]]
  BY <1>3, <1>5, <1>6
<1> QED  BY <1>3, <1>4, <1>6, <1>7

\* The batch with the results: it has as much of its parameters as it had.
InvokedBy(b, results, timer) ==
    [batches[b] EXCEPT !.results = results, !.invoked = @ + 1, !.timer = timer]

LEMMA InvokedSound ==
  ASSUME Inv, NEW b \in DOMAIN batches, NEW results \in Outcomes(b), NEW timer \in {"off", "sleeping", "close"},
         batches[b].invoked = 0, ~batches[b].open, ~batches[b].done, NEW B, B = InvokedBy(b, results, timer)
  PROVE  /\ B \in BatchType /\ BatchSound(b, B)
         /\ B.params = batches[b].params /\ ~B.open /\ ~B.done /\ B.invoked = 1 /\ B.timer = timer
<1>1. batches[b] \in BatchType /\ BatchSound(b, batches[b])
  BY DEF Inv, TypeOK
<1>2. /\ results \in Seq({Error} \cup [param : Params, batch : Nat])
      /\ DOMAIN results = DOMAIN batches[b].params
      /\ \A i \in DOMAIN batches[b].params : results[i] \in {Error, Result(batches[b].params[i], b)}
  BY OutcomeSound
<1>3. /\ B.params = batches[b].params /\ (B.open <=> batches[b].open) /\ (B.done <=> batches[b].done)
      /\ B.invoked = 1 /\ B.timer = timer /\ B.results = results
  BY <1>1 DEF BatchType, InvokedBy
<1>4. B \in BatchType
  <2>1. batches[b].invoked + 1 \in Nat /\ timer \in {"off", "sleeping", "submit", "close"}
    BY <1>1 DEF BatchType
  <2>2. [batches[b] EXCEPT !.results = results, !.invoked = batches[b].invoked + 1, !.timer = timer] \in BatchType
    BY <1>1, <1>2, <2>1 DEF BatchType
  <2> QED  BY <2>2 DEF InvokedBy
<1>5. BatchSound(b, B)
  BY <1>1, <1>2, <1>3 DEF BatchSound
<1> QED  BY <1>3, <1>4, <1>5

\* The call that filled the batch calls for it.
LEMMA SubmitStep == ASSUME Inv, NEW c \in Calls, Submit(c) PROVE Inv'
<1>1. TypeOK
  BY DEF Inv
<1> PICK b \in DOMAIN batches : b = id[c]
  BY DEF Inv, CallSound, Submit, InBatch
<1>2. PICK results \in Outcomes(b) : batches' = [batches EXCEPT ![b] = Invoked(b, results)]
  BY DEF Submit
<1>3. Submits(c, b) /\ pc[c] = "submit"
  BY DEF Submit, Submits
<1>4. /\ batches[b] \in BatchType /\ batches[b].invoked = 0 /\ ~batches[b].open /\ ~batches[b].done
      /\ batches[b].timer \in {"off", "sleeping"}
  BY <1>1, <1>3 DEF Inv, Supervised, TypeOK
<1>5. PICK B : B = Invoked(b, results)
  OBVIOUS
<1>6. B = InvokedBy(b, results, batches[b].timer)
  BY <1>4, <1>5 DEF Invoked, BatchType, InvokedBy
<1>7. /\ B \in BatchType /\ BatchSound(b, B)
      /\ B.params = batches[b].params /\ ~B.open /\ ~B.done /\ B.invoked = 1 /\ B.timer = batches[b].timer
  <2> PICK timer \in {"off", "sleeping", "close"} : timer = batches[b].timer
    BY <1>4
  <2>1. B = InvokedBy(b, results, timer)
    BY <1>6
  <2> QED  BY <1>4, <2>1, InvokedSound
<1>8. /\ DOMAIN batches' = DOMAIN batches
      /\ batches' \in [DOMAIN batches' -> BatchType]
      /\ batches'[b] = B
      /\ \A d \in DOMAIN batches \ {b} : batches'[d] = batches[d]
      /\ \A d \in DOMAIN batches' : BatchSound(d, batches'[d])
      /\ Grows
  BY <1>1, <1>2, <1>5, <1>7, OneBatch DEF Inv
<1>9. /\ \A x \in Calls \ {c} : pc'[x] = pc[x] /\ id'[x] = id[x] /\ index'[x] = index[x]
      /\ pc'[c] = "close"
      /\ UNCHANGED <<currentBatchID, resultCache, param, answer, id, index>>
  BY <1>1 DEF Submit, Goto, TypeOK
<1>10. TypeOK'
  <2>1. pc' \in [Calls -> Locations]
    BY <1>1 DEF Submit, Goto, TypeOK, Locations
  <2> QED  BY <1>1, <1>8, <1>9, <2>1 DEF TypeOK
<1>11. CallSound(c)'
  BY <1>3, <1>7, <1>8, <1>9 DEF Inv, CallSound, Placed, InBatch, Batch
<1>12. ASSUME NEW d \in DOMAIN batches' PROVE Supervised(d)'
  <2>1. \A x \in Calls : Submits(x, d)' <=> Submits(x, d)
    BY <1>3, <1>9 DEF Submits
  <2>2. CASE d # b
    <3>1. \A x \in Calls : Submits(x, d) => pc'[x] = pc[x]
      BY <1>3, <1>9, <2>2 DEF Submits
    <3> QED  BY <1>8, <2>1, <2>2, <3>1, SupervisionKept DEF Inv
  <2>3. CASE d = b
    <3>1. \A x \in Calls : Submits(x, b)' => x = c
      BY <1>3, <1>8, <2>1, <2>3 DEF Inv, Supervised
    <3>2. Submits(c, b)'
      BY <1>3, <2>1, <2>3
    <3> QED  BY <1>4, <1>7, <1>8, <1>9, <2>3, <3>1, <3>2 DEF Supervised
  <2> QED  BY <2>2, <2>3
<1> QED  BY <1>8, <1>9, <1>10, <1>11, <1>12, CallMoves

\* It closes the batch's channel.
LEMMA CloseDoneStep == ASSUME Inv, NEW c \in Calls, CloseDone(c) PROVE Inv'
<1>1. TypeOK
  BY DEF Inv
<1> PICK b \in DOMAIN batches : b = id[c]
  BY DEF Inv, CallSound, CloseDone, InBatch
<1>2. Submits(c, b) /\ pc[c] = "close"
  BY DEF CloseDone, Submits
<1>3. /\ batches[b] \in BatchType /\ batches[b].invoked = 1 /\ ~batches[b].open /\ ~batches[b].done
      /\ batches[b].timer \in {"off", "sleeping"} /\ BatchSound(b, batches[b])
  BY <1>1, <1>2 DEF Inv, Supervised, TypeOK
<1>4. PICK B : B = [batches[b] EXCEPT !.done = TRUE]
  OBVIOUS
<1>5. /\ B.params = batches[b].params /\ ~B.open /\ B.done /\ B.invoked = 1 /\ B.timer = batches[b].timer
      /\ B.results = batches[b].results
  BY <1>3, <1>4 DEF BatchType
<1>6. B \in BatchType
  BY <1>3, <1>4 DEF BatchType
<1>7. BatchSound(b, B)
  BY <1>3, <1>5 DEF BatchSound
<1>8. /\ DOMAIN batches' = DOMAIN batches
      /\ batches' \in [DOMAIN batches' -> BatchType]
      /\ batches'[b] = B
      /\ \A d \in DOMAIN batches \ {b} : batches'[d] = batches[d]
      /\ \A d \in DOMAIN batches' : BatchSound(d, batches'[d])
      /\ Grows
  <2>1. batches' = [batches EXCEPT ![b] = B]
    BY <1>4 DEF CloseDone
  <2> QED  BY <1>1, <1>5, <1>6, <1>7, <2>1, OneBatch DEF Inv
<1>9. /\ \A x \in Calls \ {c} : pc'[x] = pc[x] /\ id'[x] = id[x] /\ index'[x] = index[x]
      /\ pc'[c] = "bumpFull"
      /\ UNCHANGED <<currentBatchID, resultCache, param, answer, id, index>>
  BY <1>1 DEF CloseDone, Goto, TypeOK
<1>10. TypeOK'
  <2>1. pc' \in [Calls -> Locations]
    BY <1>1 DEF CloseDone, Goto, TypeOK, Locations
  <2> QED  BY <1>1, <1>8, <1>9, <2>1 DEF TypeOK
<1>11. CallSound(c)'
  BY <1>2, <1>5, <1>8, <1>9 DEF Inv, CallSound, Placed, InBatch, Batch
<1>12. ASSUME NEW d \in DOMAIN batches' PROVE Supervised(d)'
  <2>1. CASE d # b
    <3>1. \A x \in Calls : Submits(x, d)' <=> Submits(x, d)
      BY <1>2, <1>9, <2>1 DEF Submits
    <3>2. \A x \in Calls : Submits(x, d) => pc'[x] = pc[x]
      BY <1>2, <1>9, <2>1 DEF Submits
    <3> QED  BY <1>8, <2>1, <3>1, <3>2, SupervisionKept DEF Inv
  <2>2. CASE d = b
    <3>1. \A x \in Calls : Submits(x, b) => x = c
      BY <1>2 DEF Inv, Supervised
    <3>2. \A x \in Calls : ~Submits(x, b)'
      BY <1>9, <3>1 DEF Submits
    <3> QED  BY <1>5, <1>8, <2>2, <3>2 DEF Supervised
  <2> QED  BY <2>1, <2>2
<1> QED  BY <1>8, <1>9, <1>10, <1>11, <1>12, CallMoves

-----------------------------------------------------------------------------
(* The steps of a timer.                                                   *)

\* What changes in one batch without a call.
LEMMA TimerChange ==
  ASSUME Inv, NEW b \in DOMAIN batches, NEW B \in BatchType, BatchSound(b, B), B.params = batches[b].params,
         batches' = [batches EXCEPT ![b] = B], UNCHANGED <<currentBatchID, resultCache, locals>>,
         Supervised(b)'
  PROVE  Inv'
<1>1. /\ DOMAIN batches' = DOMAIN batches
      /\ batches' \in [DOMAIN batches' -> BatchType]
      /\ batches'[b] = B
      /\ \A d \in DOMAIN batches \ {b} : batches'[d] = batches[d]
      /\ \A d \in DOMAIN batches' : BatchSound(d, batches'[d])
      /\ Grows
  BY OneBatch DEF Inv
<1>2. TypeOK'
  BY <1>1 DEF Inv, TypeOK, locals
<1>3. ASSUME NEW d \in DOMAIN batches', d # b PROVE Supervised(d)'
  <2>1. \A x \in Calls : pc'[x] = pc[x] /\ (Submits(x, d)' <=> Submits(x, d))
    BY DEF Submits, locals
  <2> QED  BY <1>1, <1>3, <2>1, SupervisionKept DEF Inv
<1> QED  BY <1>1, <1>2, <1>3, TimerMoves

\* The timer has slept: it closes the batch, unless a call has.
LEMMA TimeoutStep == ASSUME Inv, NEW b \in DOMAIN batches, TimeoutBatch(b) PROVE Inv'
<1>1. batches[b] \in BatchType /\ BatchSound(b, batches[b]) /\ Supervised(b) /\ batches[b].timer = "sleeping"
  BY DEF Inv, TypeOK, TimeoutBatch
<1>2. PICK timer : timer = IF batches[b].open THEN "submit" ELSE "off"
  OBVIOUS
<1>3. PICK B : B = [batches[b] EXCEPT !.timer = timer, !.open = FALSE]
  OBVIOUS
<1>4. batches' = [batches EXCEPT ![b] = B] /\ UNCHANGED <<currentBatchID, resultCache, locals>>
  BY <1>2, <1>3 DEF TimeoutBatch
<1>5. /\ B.params = batches[b].params /\ ~B.open /\ (B.done <=> batches[b].done) /\ B.timer = timer
      /\ B.invoked = batches[b].invoked /\ B.results = batches[b].results
  BY <1>1, <1>3 DEF BatchType
<1>6. B \in BatchType
  BY <1>1, <1>2, <1>3 DEF BatchType
<1>7. BatchSound(b, B)
  BY <1>1, <1>2, <1>5 DEF BatchSound
<1>8. Supervised(b)'
  <2>1. \A x \in Calls : pc'[x] = pc[x] /\ (Submits(x, b)' <=> Submits(x, b))
    BY <1>4 DEF Submits, locals
  <2>2. batches'[b] = B
    BY <1>4 DEF Inv, TypeOK
  <2>3. CASE batches[b].open
    <3>1. \A x \in Calls : ~Submits(x, b)'
      BY <1>1, <2>1, <2>3 DEF Supervised
    <3> QED  BY <1>2, <1>5, <2>2, <2>3, <3>1 DEF Supervised
  <2>4. CASE ~batches[b].open
    BY <1>1, <1>2, <1>5, <2>1, <2>2, <2>4 DEF Supervised
  <2> QED  BY <2>3, <2>4
<1> QED  BY <1>4, <1>5, <1>6, <1>7, <1>8, TimerChange

LEMMA TimerSubmitStep == ASSUME Inv, NEW b \in DOMAIN batches, TimerSubmit(b) PROVE Inv'
<1>1. /\ batches[b] \in BatchType /\ BatchSound(b, batches[b]) /\ Supervised(b)
      /\ batches[b].timer = "submit"
  BY DEF Inv, TypeOK, TimerSubmit
<1>2. PICK results \in Outcomes(b) :
          batches' = [batches EXCEPT ![b] = [Invoked(b, results) EXCEPT !.timer = "close"]]
  BY DEF TimerSubmit
<1>3. PICK B : B = [Invoked(b, results) EXCEPT !.timer = "close"]
  OBVIOUS
<1>4. B = InvokedBy(b, results, "close")
  BY <1>1, <1>3 DEF Invoked, BatchType, InvokedBy
<1>5. /\ B \in BatchType /\ BatchSound(b, B)
      /\ B.params = batches[b].params /\ ~B.open /\ ~B.done /\ B.invoked = 1 /\ B.timer = "close"
  <2>1. batches[b].invoked = 0 /\ ~batches[b].open /\ ~batches[b].done
    BY <1>1 DEF BatchSound
  <2> PICK timer \in {"off", "sleeping", "close"} : timer = "close"
    OBVIOUS
  <2>2. B = InvokedBy(b, results, timer)
    BY <1>4
  <2> QED  BY <2>1, <2>2, InvokedSound
<1>6. Supervised(b)'
  <2>1. \A x \in Calls : ~Submits(x, b)'
    BY <1>1 DEF Supervised, TimerSubmit, Submits, locals
  <2>2. batches'[b] = B
    BY <1>2, <1>3 DEF Inv, TypeOK
  <2> QED  BY <1>5, <2>1, <2>2 DEF Supervised
<1>7. batches' = [batches EXCEPT ![b] = B] /\ UNCHANGED <<currentBatchID, resultCache, locals>>
  BY <1>2, <1>3 DEF TimerSubmit
<1> QED  BY <1>5, <1>6, <1>7, TimerChange

LEMMA TimerCloseDoneStep == ASSUME Inv, NEW b \in DOMAIN batches, TimerCloseDone(b) PROVE Inv'
<1>1. /\ batches[b] \in BatchType /\ BatchSound(b, batches[b]) /\ Supervised(b)
      /\ batches[b].timer = "close"
  BY DEF Inv, TypeOK, TimerCloseDone
<1>2. PICK B : B = [batches[b] EXCEPT !.timer = "off", !.done = TRUE]
  OBVIOUS
<1>3. batches' = [batches EXCEPT ![b] = B] /\ UNCHANGED <<currentBatchID, resultCache, locals>>
  BY <1>2 DEF TimerCloseDone
<1>4. /\ B.params = batches[b].params /\ (B.open <=> batches[b].open) /\ B.done /\ B.timer = "off"
      /\ B.invoked = batches[b].invoked /\ B.results = batches[b].results
  BY <1>1, <1>2 DEF BatchType
<1>5. B \in BatchType
  BY <1>1, <1>2 DEF BatchType
<1>6. BatchSound(b, B)
  BY <1>1, <1>4 DEF BatchSound
<1>7. Supervised(b)'
  <2>1. \A x \in Calls : ~Submits(x, b)'
    BY <1>1, <1>3 DEF Supervised, Submits, locals
  <2>2. batches'[b] = B
    BY <1>3 DEF Inv, TypeOK
  <2> QED  BY <1>4, <2>1, <2>2 DEF Supervised
<1> QED  BY <1>3, <1>4, <1>5, <1>6, <1>7, TimerChange

-----------------------------------------------------------------------------
(* The cache and the answers.                                              *)

LEMMA KnownResult == ASSUME TypeOK, NEW p \in Params, NEW v, Known(p, v) PROVE v \in Results
  BY DEF TypeOK, Known, Results, Result

\* The steps that leave the batches alone and move at most one call, to its end.
LEMMA AnswerMoves ==
  ASSUME Inv, NEW P \in SUBSET Calls, UNCHANGED <<currentBatchID, batches, param, id, index>>,
         resultCache' \in [DOMAIN resultCache' -> Results], DOMAIN resultCache' \subseteq Params,
         \A p \in DOMAIN resultCache' : Known(p, resultCache'[p]),
         pc' \in [Calls -> Locations], answer' \in [Calls -> {None, Error} \cup Results],
         \A x \in Calls \ P : pc'[x] = pc[x] /\ answer'[x] = answer[x],
         \A x \in P : /\ pc'[x] \notin InBatch /\ pc[x] \notin {"submit", "close"}
                      /\ pc'[x] = "returned" => answer'[x] = Error \/ Known(param[x], answer'[x])
  PROVE  Inv'
<1>1. TypeOK'
  BY DEF Inv, TypeOK
<1>2. Grows
  BY DEF Grows
<1>3. \A x \in Calls : CallSound(x)'
  BY <1>2, GrowsCalls DEF Inv
<1>4. ASSUME NEW b \in DOMAIN batches' PROVE BatchSound(b, batches'[b]) /\ Supervised(b)'
  <2>1. \A x \in Calls : (Submits(x, b)' <=> Submits(x, b)) /\ (Submits(x, b) => pc'[x] = pc[x])
    BY DEF Submits, InBatch
  <2> QED  BY <2>1, SupervisionKept DEF Inv
<1>5. \A p, v : Known(p, v) => Known(p, v)'
  BY <1>2, GrowsKnown
<1>6. (\A p \in DOMAIN resultCache : Known(p, resultCache[p]))'
  <2> SUFFICES ASSUME NEW p \in DOMAIN resultCache' PROVE Known(p, resultCache[p])'
    OBVIOUS
  <2> PICK v : v = resultCache'[p] /\ Known(p, v)
    OBVIOUS
  <2> QED  BY <1>5
<1>7. (\A x \in Calls : pc[x] = "returned" => answer[x] = Error \/ Known(param[x], answer[x]))'
  <2> SUFFICES ASSUME NEW x \in Calls, pc'[x] = "returned", answer'[x] # Error
               PROVE  Known(param[x], answer[x])'
    OBVIOUS
  <2>1. PICK p, v : p = param[x] /\ v = answer'[x] /\ Known(p, v)
    BY DEF Inv
  <2> QED  BY <1>5, <2>1
<1> QED  BY <1>1, <1>3, <1>4, <1>6, <1>7 DEF Inv

\* A call comes in: it is answered from the cache, or sets out for a batch.
LEMMA DoThunkStep == ASSUME Inv, NEW c \in Calls, DoThunk(c) PROVE Inv'
<1>1. TypeOK
  BY DEF Inv
<1>2. /\ pc[c] = "new" /\ pc'[c] \in {"readID", "returned"}
      /\ pc' \in [Calls -> Locations]
      /\ \A x \in Calls \ {c} : pc'[x] = pc[x]
      /\ UNCHANGED <<currentBatchID, batches, resultCache, param, id, index>>
  BY <1>1 DEF DoThunk, Goto, TypeOK, Locations
<1>3. CASE pc'[c] = "returned"
  <2>1. /\ param[c] \in DOMAIN resultCache
        /\ answer' = [answer EXCEPT ![c] = resultCache[param[c]]]
    BY <1>1, <1>3 DEF DoThunk, Goto, TypeOK
  <2>2. answer' \in [Calls -> {None, Error} \cup Results]
    BY <1>1, <2>1 DEF TypeOK
  <2>3. \A x \in Calls \ {c} : answer'[x] = answer[x]
    BY <1>1, <2>1 DEF TypeOK
  <2>4. Known(param[c], answer'[c])
    <3>1. PICK v : v = resultCache[param[c]] /\ Known(param[c], v)
      BY <2>1 DEF Inv
    <3>2. answer'[c] = v
      BY <1>1, <2>1, <3>1 DEF TypeOK
    <3> QED  BY <3>1, <3>2
  <2> PICK P \in SUBSET Calls : P = {c}
    OBVIOUS
  <2>5. /\ resultCache' \in [DOMAIN resultCache' -> Results] /\ DOMAIN resultCache' \subseteq Params
        /\ \A p \in DOMAIN resultCache' : Known(p, resultCache'[p])
    BY <1>1, <1>2 DEF TypeOK, Inv
  <2> QED  BY <1>2, <1>3, <2>2, <2>3, <2>4, <2>5, AnswerMoves DEF InBatch
<1>4. CASE pc'[c] = "readID"
  <2>1. answer' = answer
    BY <1>1, <1>4 DEF DoThunk, Goto, TypeOK
  <2> PICK P \in SUBSET Calls : P = {c}
    OBVIOUS
  <2>2. /\ resultCache' \in [DOMAIN resultCache' -> Results] /\ DOMAIN resultCache' \subseteq Params
        /\ \A p \in DOMAIN resultCache' : Known(p, resultCache'[p])
        /\ answer' \in [Calls -> {None, Error} \cup Results]
    BY <1>1, <1>2, <2>1 DEF TypeOK, Inv
  <2> QED  BY <1>2, <1>4, <2>1, <2>2, AnswerMoves DEF InBatch
<1> QED  BY <1>2, <1>3, <1>4

\* A cache that takes a known result holds known results.
LEMMA StoredKnown ==
  ASSUME Inv, NEW p \in Params, NEW v, Known(p, v), NEW cache, cache = Stored(p, v)
  PROVE  /\ cache \in [DOMAIN cache -> Results] /\ DOMAIN cache \subseteq Params
         /\ \A q \in DOMAIN cache : Known(q, cache[q])
<1>1. /\ DOMAIN cache = DOMAIN resultCache \cup {p}
      /\ cache = [q \in DOMAIN cache |-> IF q \in DOMAIN resultCache THEN resultCache[q] ELSE v]
  BY DEF Stored, LoadOrStore
<1>2. v \in Results
  BY KnownResult DEF Inv
<1>3. resultCache \in [DOMAIN resultCache -> Results] /\ DOMAIN resultCache \subseteq Params
  BY DEF Inv, TypeOK
<1>4. \A q \in DOMAIN cache : Known(q, cache[q])
  <2> SUFFICES ASSUME NEW q \in DOMAIN cache PROVE Known(q, cache[q])
    OBVIOUS
  <2>1. CASE q \in DOMAIN resultCache
    <3>1. cache[q] = resultCache[q] /\ Known(q, resultCache[q])
      BY <1>1, <2>1 DEF Inv
    <3> QED  BY <3>1
  <2>2. CASE q \notin DOMAIN resultCache
    <3>1. cache[q] = v /\ q = p
      BY <1>1, <2>2
    <3> QED  BY <3>1
  <2> QED  BY <2>1, <2>2
<1>5. cache \in [DOMAIN cache -> Results]
  BY <1>1, <1>2, <1>3
<1> QED  BY <1>1, <1>3, <1>4, <1>5

\* A call's batch is done: it has the call's result, or an error.
LEMMA ReturnedSound ==
  ASSUME Inv, NEW c \in Calls, Thunk(c)
  PROVE  Returned(c) = Error \/ Known(param[c], Returned(c))
<1>1. PICK b \in DOMAIN batches : b = id[c]
  BY DEF Inv, CallSound, Thunk, InBatch
<1>2. index[c] \in DOMAIN batches[b].params /\ batches[b].params[index[c]] = param[c]
  BY <1>1 DEF Inv, CallSound, Thunk, Placed, Batch
<1>3. batches[b].done /\ BatchSound(b, batches[b])
  BY <1>1 DEF Inv, Thunk, Batch
<1>4. /\ DOMAIN batches[b].results = DOMAIN batches[b].params
      /\ batches[b].results[index[c]] \in {Error, Result(param[c], b)}
  BY <1>2, <1>3 DEF BatchSound
<1>5. Returned(c) \in {Error, Result(param[c], b)}
  BY <1>1, <1>2, <1>4 DEF Returned, Batch
<1>6. param[c] \in Range(batches[b].params)
  BY <1>2 DEF Range
<1> QED  BY <1>5, <1>6 DEF Known

LEMMA ThunkStep == ASSUME Inv, NEW c \in Calls, Thunk(c) PROVE Inv'
<1>1. TypeOK
  BY DEF Inv
<1>2. PICK v : v = Returned(c)
  OBVIOUS
<1>3. v = Error \/ Known(param[c], v)
  BY <1>2, ReturnedSound
<1>4. v \in {Error} \cup Results /\ param[c] \in Params
  BY <1>1, <1>3, KnownResult DEF TypeOK
<1>5. /\ pc[c] = "wait" /\ pc'[c] = "returned" /\ answer'[c] = v
      /\ pc' \in [Calls -> Locations]
      /\ \A x \in Calls \ {c} : pc'[x] = pc[x] /\ answer'[x] = answer[x]
      /\ UNCHANGED <<currentBatchID, batches, param, id, index>>
  BY <1>1, <1>2 DEF Thunk, Goto, TypeOK, Locations
<1>6. answer' \in [Calls -> {None, Error} \cup Results]
  BY <1>1, <1>2, <1>4 DEF Thunk, TypeOK
<1>7. /\ resultCache' \in [DOMAIN resultCache' -> Results] /\ DOMAIN resultCache' \subseteq Params
      /\ \A p \in DOMAIN resultCache' : Known(p, resultCache'[p])
  <2>1. CASE UNCHANGED resultCache
    BY <1>1, <2>1 DEF Inv, TypeOK
  <2>2. CASE v # Error /\ resultCache' = Stored(param[c], v)
    <3>1. PICK cache : cache = Stored(param[c], v)
      OBVIOUS
    <3> QED  BY <1>3, <1>4, <2>2, <3>1, StoredKnown
  <2> QED  BY <1>2, <2>1, <2>2 DEF Thunk
<1> PICK P \in SUBSET Calls : P = {c}
  OBVIOUS
<1> QED  BY <1>3, <1>5, <1>6, <1>7, AnswerMoves DEF InBatch

LEMMA PrimeStep == ASSUME Inv, NEW p \in Primable, Prime(p) PROVE Inv'
<1>1. TypeOK /\ p \in Params
  BY BatcherAssumption DEF Inv
<1>2. PICK v, cache : v = PrimedResult(p) /\ cache = Stored(p, v)
  OBVIOUS
<1>3. Known(p, v)
  BY <1>2 DEF Known
<1>4. /\ resultCache' \in [DOMAIN resultCache' -> Results] /\ DOMAIN resultCache' \subseteq Params
      /\ \A q \in DOMAIN resultCache' : Known(q, resultCache'[q])
  BY <1>1, <1>2, <1>3, StoredKnown DEF Prime
<1>5. /\ UNCHANGED <<currentBatchID, batches, param, id, index, pc, answer>>
      /\ pc' \in [Calls -> Locations] /\ answer' \in [Calls -> {None, Error} \cup Results]
  BY <1>1 DEF Prime, locals, TypeOK
<1> PICK P \in SUBSET Calls : P = {}
  OBVIOUS
<1> QED  BY <1>4, <1>5, AnswerMoves

LEMMA NextInv == Inv /\ [Next]_vars => Inv'
<1> SUFFICES ASSUME Inv, [Next]_vars PROVE Inv'
  OBVIOUS
<1>1. ASSUME NEW c \in Calls, DoThunk(c) \/ Step(c) PROVE Inv'
  <2>1. CASE AddParam(c)
    BY <2>1, FoundStep, AppendStep
  <2> QED  BY <1>1, <2>1, DoThunkStep, LoadStep, CountStep, BumpStep, SubmitStep, CloseDoneStep, ThunkStep DEF Step
<1>2. ASSUME NEW b \in DOMAIN batches, TimerStep(b) PROVE Inv'
  BY <1>2, TimeoutStep, TimerSubmitStep, TimerCloseDoneStep DEF TimerStep
<1>3. ASSUME NEW p \in Primable, Prime(p) PROVE Inv'
  BY <1>3, PrimeStep
<1>4. CASE UNCHANGED vars
  <2>1. UNCHANGED <<currentBatchID, batches, resultCache, param, pc, id, index, answer>>
    BY <1>4 DEF vars, locals
  <2>2. TypeOK' /\ (\A c \in Calls : CallSound(c))'
    BY <2>1 DEF Inv, TypeOK, CallSound, Batch
  <2>3. (\A b \in DOMAIN batches : BatchSound(b, batches[b]) /\ Supervised(b))'
    BY <2>1 DEF Inv, Supervised, Submits
  <2>4. Grows
    BY <2>1 DEF Grows
  <2> QED  BY <2>1, <2>2, <2>3, <2>4, KnownKept DEF Inv
<1> QED  BY <1>1, <1>2, <1>3, <1>4 DEF Next

-----------------------------------------------------------------------------
(* The theorems.                                                           *)

\* The batches are what the comments promise, for any number of concurrent
\* calls and batches: sets of at most maxBatchSize parameters, each called for
\* once, by the call that fills it or by its timer.
THEOREM BatchesCorrect == Spec => []BatchInv
<1>1. Inv => BatchInv
  <2> SUFFICES ASSUME Inv PROVE BatchInv
    OBVIOUS
  <2>1. BatchesAreSets
    BY DEF Inv, BatchesAreSets, BatchSound
  <2>2. ASSUME NEW b \in DOMAIN batches
        PROVE  /\ batches[b].invoked <= 1
               /\ batches[b].open /\ batches[b].params # <<>> => batches[b].timer = "sleeping"
               /\ ~batches[b].open /\ ~batches[b].done =>
                      batches[b].timer \in {"submit", "close"} \/ Submitters(b) # {}
               /\ batches[b].timer \in {"submit", "close"} => Submitters(b) = {}
    BY DEF Inv, BatchSound, Supervised, Submitters, Submits
  <2>3. ASSUME NEW b \in DOMAIN batches PROVE Cardinality(Submitters(b)) <= 1
    <3>1. CASE Submitters(b) = {}
      BY <3>1, FS_EmptySet
    <3>2. CASE Submitters(b) # {}
      <4>1. \A c, d \in Submitters(b) : c = d
        BY DEF Inv, Supervised, Submitters, Submits
      <4>2. PICK c : c \in Submitters(b)
        BY <3>2
      <4>3. Submitters(b) = {c}
        BY <4>1, <4>2
      <4> QED  BY <4>3, FS_Singleton
    <3> QED  BY <3>1, <3>2
  <2> QED  BY <2>1, <2>2, <2>3 DEF BatchInv, OneSubmitter, Inv
<1> QED  BY <1>1, InitInv, NextInv, PTL DEF Spec

\* No call is given the result of another parameter, or none.
THEOREM AnswersCorrect == Spec => []AnswersAreOwn
<1>1. Inv => AnswersAreOwn
  BY DEF Inv, AnswersAreOwn, Known
<1> QED  BY <1>1, InitInv, NextInv, PTL DEF Spec

\* What is cached for a parameter stays, whoever else has a result for it.
THEOREM CachedIsFinal == Spec => CacheIsFinal
<1>1. ASSUME NEW p, NEW v, NEW q \in DOMAIN resultCache, resultCache' = Stored(p, v)
      PROVE  q \in DOMAIN resultCache' /\ resultCache'[q] = resultCache[q]
  BY <1>1 DEF Stored, LoadOrStore
<1>2. ASSUME [Next]_vars, ~UNCHANGED resultCache
      PROVE  \E p, v : resultCache' = Stored(p, v)
  BY <1>2 DEF Next, DoThunk, Step, LoadBatch, CountCaller, TryNextBatch, AddParam, Submit, CloseDone,
     LeaveFullBatch, Thunk, TimerStep, TimeoutBatch, TimerSubmit, TimerCloseDone, Prime, vars
<1>3. [Next]_vars => [\A p \in DOMAIN resultCache :
                        p \in DOMAIN resultCache' /\ resultCache'[p] = resultCache[p]]_resultCache
  BY <1>1, <1>2
<1> QED  BY <1>3, PTL DEF Spec, CacheIsFinal

=============================================================================
