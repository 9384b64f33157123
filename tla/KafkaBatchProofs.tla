-------------------------- MODULE KafkaBatchProofs --------------------------
(***************************************************************************)
(* Proofs about KafkaBatch, for any number of consumers and messages, any  *)
(* size of a batch, and any number of failures; where a result depends on  *)
(* which failures there may be, or on what messages hold, the theorem says *)
(* so.                                                                     *)
(***************************************************************************)
EXTENDS KafkaBatch, FiniteSetTheorems, TLAPS

-----------------------------------------------------------------------------
(* The inductive invariants.                                               *)

\* What a consumer holds, whether it is still the owner or not.
Held(c) ==
    /\ Len(entries[c]) <= MaxSize
    /\ Len(entries[c]) <= position[c]
    /\ pc[c] = "read" => Len(entries[c]) < MaxSize
    /\ pc[c] = "read" /\ c \notin assigned => entries[c] = <<>>
    /\ pc[c] \in {"down", "restart"} => owner # c /\ c \notin assigned
    /\ pc[c] = "down" => entries[c] = <<>>
    /\ entries[c] = <<>> => parsing[c] = {}
    /\ pc[c] \in {"write", "commit"} => parsing[c] = {} /\ \A e \in errors[c] : ~e[2]
    /\ \A i \in DOMAIN entries[c] : entries[c][i] # Blank => topic[entries[c][i]] = "usable"

\* A poisoned message that was delivered to the owner is yet to be parsed, or
\* has left an error that is fatal.
Warned(c) ==
    owner = c =>
        /\ c \in assigned
        /\ committed <= position[c]
        /\ \A o \in committed + 1 .. position[c] : topic[o] = "poison" =>
              (\E w \in parsing[c] : w[1] = o) \/ \E e \in errors[c] : e[2]

Inv ==
    /\ TypeOK
    /\ \A o \in Offsets : topic[o] \in Contents
    /\ PoisonIsNotPassed
    /\ \A c \in Consumers : Held(c) /\ Warned(c)

\* No batch is submitted again after its errors were taken out of it.
Clean == "empty" \notin Contents \/ Faults \cap {"write", "commit"} = {}

\* The entries are those of the messages behind the committed offset, each
\* parsed, yet to be parsed, or with an error of its own.
Raw(c) ==
    /\ position[c] = committed + Len(entries[c])
    /\ \A i \in DOMAIN entries[c] :
          \/ entries[c][i] = committed + i
          \/ entries[c][i] = Blank /\ <<committed + i, i>> \in parsing[c]
          \/ entries[c][i] = Blank /\ topic[committed + i] # "usable"
    /\ \A i \in DOMAIN entries[c] : topic[committed + i] # "usable" =>
          <<committed + i, i>> \in parsing[c] \/ <<i, Fatal(committed + i)>> \in errors[c]
    /\ \A e \in errors[c] :
          /\ e[1] \in DOMAIN entries[c] /\ e[2] = Fatal(committed + e[1])
          /\ topic[committed + e[1]] # "usable"
    /\ \A w \in parsing[c] : w[2] \in DOMAIN entries[c] /\ w[1] = committed + w[2]

\* The entries are the usable messages behind the committed offset, in order.
Compact(c) ==
    /\ \A o \in committed + 1 .. position[c] :
          topic[o] = "usable" => o \in Range(entries[c])
    /\ \A i \in DOMAIN entries[c] : entries[c][i] \in committed + 1 .. position[c]
    /\ \A i, j \in DOMAIN entries[c] : i < j => entries[c][i] < entries[c][j]

Writing(c) == pc[c] \in {"write", "commit"}

\* What is behind the committed offset its owner has, and writes.
Owned(c) ==
    owner = c =>
        /\ ~Writing(c) \/ "empty" \notin Contents => Raw(c)
        /\ Writing(c) => Compact(c)
        /\ pc[c] = "commit" => Range(entries[c]) \subseteq written

\* A batch that nothing was added to has no errors, unless it was compacted.
Fresh(c) ==
    (pc[c] \in {"read", "down"} \/ (pc[c] = "submit" /\ caller[c] # "close")) =>
        (entries[c] = <<>> => errors[c] = {})

SkipInv ==
    /\ OnlyEmptySkipped
    /\ \A c \in Consumers : Owned(c) /\ Fresh(c)

\* Without an expulsion who submits is the owner.
RowInv ==
    /\ RowIsCurrent
    /\ \A c \in assigned : owner = c
    /\ \A c \in Consumers : pc[c] \in {"submit", "write", "commit"} => c \in assigned
    /\ \A c \in Consumers : pc[c] = "commit" =>
          \A o \in 1 .. position[c] : topic[o] = "usable" => row >= o
-----------------------------------------------------------------------------
(* Compaction.                                                             *)

\* How many of the indices in K are smaller.
Rank(K, i) == Cardinality({j \in K : j < i})

\* Every rank is that of an index: ranks differ, and there are as many.
LEMMA Ranks ==
  ASSUME NEW n \in Nat, NEW K \in SUBSET (1 .. n)
  PROVE  /\ Cardinality(K) \in Nat /\ Cardinality(K) <= n
         /\ \A i \in K : Rank(K, i) \in Nat /\ Rank(K, i) < Cardinality(K)
         /\ \A i, j \in K : i < j => Rank(K, i) < Rank(K, j)
         /\ \A k \in 1 .. Cardinality(K) : \E i \in K : Rank(K, i) = k - 1
<1>1. IsFiniteSet(1 .. n) /\ Cardinality(1 .. n) = n
  <2>1. PICK k \in Int : k = 1
    OBVIOUS
  <2>2. IsFiniteSet(k .. n) /\ Cardinality(k .. n) = IF k > n THEN 0 ELSE n - k + 1
    BY FS_Interval
  <2> QED  BY <2>1, <2>2
<1>2. IsFiniteSet(K) /\ Cardinality(K) \in Nat /\ Cardinality(K) <= n
  BY <1>1, FS_Subset, FS_CardinalityType
<1>3. PICK m \in Nat : m = Cardinality(K)
  BY <1>2
<1>4. ASSUME NEW i \in K
      PROVE  /\ IsFiniteSet({j \in K : j < i}) /\ Rank(K, i) \in Nat
             /\ \A U \in SUBSET K : {j \in K : j < i} \cup {i} \subseteq U => Rank(K, i) < Cardinality(U)
  <2>1. PICK B : B = {j \in K : j < i}
    OBVIOUS
  <2>2. IsFiniteSet(B) /\ Cardinality(B) \in Nat /\ i \notin B
    <3>1. B \in SUBSET K /\ i \notin B
      BY <2>1
    <3> QED  BY <1>2, <3>1, FS_Subset, FS_CardinalityType
  <2>3. Cardinality(B \cup {i}) = Cardinality(B) + 1
    BY <2>2, FS_AddElement
  <2>4. ASSUME NEW U \in SUBSET K, B \cup {i} \subseteq U PROVE Cardinality(B) < Cardinality(U)
    <3>1. IsFiniteSet(U) /\ Cardinality(U) \in Nat
      BY <1>2, FS_Subset, FS_CardinalityType
    <3>2. PICK C : C = B \cup {i}
      OBVIOUS
    <3>3. Cardinality(C) <= Cardinality(U)
      BY <2>4, <3>1, <3>2, FS_Subset
    <3> QED  BY <2>2, <2>3, <3>1, <3>2, <3>3
  <2> QED  BY <2>1, <2>2, <2>4 DEF Rank
<1>5. \A i \in K : Rank(K, i) < Cardinality(K)
  <2>1. \A i \in K : {j \in K : j < i} \cup {i} \subseteq K
    OBVIOUS
  <2> QED  BY <1>4, <2>1
<1>6. ASSUME NEW i \in K, NEW j \in K, i < j PROVE Rank(K, i) < Rank(K, j)
  <2>1. {k \in K : k < j} \in SUBSET K
    OBVIOUS
  <2>2. {k \in K : k < i} \cup {i} \subseteq {k \in K : k < j}
    <3>1. \A k \in K : k < i => k < j
      BY <1>6
    <3> QED  BY <1>6, <3>1
  <2> QED  BY <1>4, <2>1, <2>2 DEF Rank
<1>7. PICK f : f = [i \in K |-> Rank(K, i) + 1]
  OBVIOUS
<1>8. f \in Injection(K, 1 .. m)
  <2>1. f \in [K -> 1 .. m]
    <3>1. \A i \in K : Rank(K, i) \in Nat /\ Rank(K, i) < m
      BY <1>3, <1>4, <1>5
    <3>2. \A i \in K : Rank(K, i) + 1 \in 1 .. m
      BY <3>1
    <3> QED  BY <1>7, <3>2
  <2>2. \A i, j \in K : i # j => f[i] # f[j]
    <3>1. \A i, j \in K : i # j => i < j \/ j < i
      OBVIOUS
    <3>2. \A i \in K : f[i] = Rank(K, i) + 1 /\ Rank(K, i) \in Nat
      BY <1>4, <1>7
    <3> QED  BY <1>6, <3>1, <3>2
  <2> QED  BY <2>1, <2>2 DEF Injection, IsInjective
<1>9. f \in Surjection(K, 1 .. m)
  <2>1. IsFiniteSet(1 .. m) /\ Cardinality(1 .. m) = m
    <3>1. PICK k \in Int : k = 1
      OBVIOUS
    <3>2. IsFiniteSet(k .. m) /\ Cardinality(k .. m) = IF k > m THEN 0 ELSE m - k + 1
      BY FS_Interval
    <3> QED  BY <3>1, <3>2
  <2> QED  BY <1>3, <1>8, <2>1, FS_Injection
<1>10. ASSUME NEW k \in 1 .. m PROVE \E i \in K : Rank(K, i) = k - 1
  <2>1. PICK i \in K : f[i] = k
    BY <1>9 DEF Surjection
  <2>2. f[i] = Rank(K, i) + 1 /\ Rank(K, i) \in Nat
    BY <1>4, <1>7
  <2> QED  BY <2>1, <2>2
<1> QED  BY <1>2, <1>3, <1>4, <1>5, <1>6, <1>10

\* What is left are the elements at the other indices, in their order.
LEMMA Compacted ==
  ASSUME NEW X, NEW s \in Seq(X), NEW I, NEW t, t = Without(s, I)
  PROVE  /\ t \in Seq(X) /\ Len(t) <= Len(s)
         /\ \A i \in DOMAIN s \ I : \E k \in DOMAIN t : t[k] = s[i]
         /\ \A k, l \in DOMAIN t : k < l =>
               \E i, j \in DOMAIN s \ I : i < j /\ t[k] = s[i] /\ t[l] = s[j]
         /\ \A k \in DOMAIN t : \E i \in DOMAIN s \ I : t[k] = s[i]
<1>1. PICK n \in Nat : n = Len(s) /\ DOMAIN s = 1 .. n
  OBVIOUS
<1>2. PICK K \in SUBSET (1 .. n) : K = DOMAIN s \ I
  BY <1>1
<1>3. PICK m \in Nat : m = Cardinality(K) /\ m <= n
  BY Ranks
<1>4. t = [k \in 1 .. m |-> s[CHOOSE i \in K : Rank(K, i) = k - 1]]
  BY <1>2, <1>3 DEF Without, Rank
<1>5. PICK g : g = [k \in 1 .. m |-> CHOOSE i \in K : Rank(K, i) = k - 1]
  OBVIOUS
<1>6. \A k \in 1 .. m : g[k] \in K /\ Rank(K, g[k]) = k - 1 /\ t[k] = s[g[k]]
  BY <1>3, <1>4, <1>5, Ranks
<1>7. \A i \in K : Rank(K, i) \in Nat /\ Rank(K, i) < m
  BY <1>3, Ranks
<1>8. \A i, j \in K : Rank(K, i) < Rank(K, j) => i < j
  <2>1. \A i, j \in K : i < j \/ i = j \/ j < i
    OBVIOUS
  <2>2. \A i, j \in K : i < j => Rank(K, i) < Rank(K, j)
    BY Ranks
  <2> QED  BY <1>7, <2>1, <2>2
<1>9. t \in Seq(X) /\ Len(t) = m /\ DOMAIN t = 1 .. m
  <2>1. \A k \in 1 .. m : t[k] \in X
    BY <1>1, <1>2, <1>6
  <2>2. t \in [1 .. m -> X]
    BY <1>4, <2>1
  <2> QED  BY <2>2
<1>10. ASSUME NEW i \in K PROVE \E k \in 1 .. m : g[k] = i
  <2>1. PICK k \in 1 .. m : k = Rank(K, i) + 1
    BY <1>7
  <2>2. g[k] \in K /\ Rank(K, g[k]) = Rank(K, i)
    BY <1>6, <1>7, <2>1
  <2>3. \A j \in K : Rank(K, i) = Rank(K, j) => i = j
    <3>1. \A j \in K : i < j \/ i = j \/ j < i
      OBVIOUS
    <3>2. \A j \in K : (i < j => Rank(K, i) < Rank(K, j)) /\ (j < i => Rank(K, j) < Rank(K, i))
      BY Ranks
    <3> QED  BY <1>7, <3>1, <3>2
  <2> QED  BY <2>2, <2>3
<1>11. \A k, l \in 1 .. m : k < l => g[k] < g[l]
  <2> SUFFICES ASSUME NEW k \in 1 .. m, NEW l \in 1 .. m, k < l PROVE g[k] < g[l]
    OBVIOUS
  <2>1. Rank(K, g[k]) = k - 1 /\ Rank(K, g[l]) = l - 1 /\ k - 1 < l - 1
    BY <1>6
  <2> QED  BY <1>6, <1>8, <2>1
<1>12. \A i \in DOMAIN s \ I : \E k \in DOMAIN t : t[k] = s[i]
  BY <1>2, <1>6, <1>9, <1>10
<1>13. \A k, l \in DOMAIN t : k < l =>
          \E i, j \in DOMAIN s \ I : i < j /\ t[k] = s[i] /\ t[l] = s[j]
  <2> SUFFICES ASSUME NEW k \in DOMAIN t, NEW l \in DOMAIN t, k < l
               PROVE  \E i, j \in DOMAIN s \ I : i < j /\ t[k] = s[i] /\ t[l] = s[j]
    OBVIOUS
  <2>1. k \in 1 .. m /\ l \in 1 .. m
    BY <1>9
  <2>2. g[k] \in K /\ g[l] \in K /\ g[k] < g[l] /\ t[k] = s[g[k]] /\ t[l] = s[g[l]]
    BY <1>6, <1>11, <2>1
  <2>3. g[k] \in DOMAIN s \ I /\ g[l] \in DOMAIN s \ I
    BY <1>2, <2>2
  <2> QED  BY <2>2, <2>3
<1>14. \A k \in DOMAIN t : \E i \in DOMAIN s \ I : t[k] = s[i]
  BY <1>2, <1>6, <1>9
<1> QED  BY <1>1, <1>3, <1>9, <1>12, <1>13, <1>14

\* Where there is nothing to take out everything is left.
LEMMA NothingTakenOut ==
  ASSUME NEW X, NEW s \in Seq(X)
  PROVE  Without(s, {}) = s
<1>1. PICK n \in Nat : n = Len(s) /\ DOMAIN s = 1 .. n
  OBVIOUS
<1>2. PICK K \in SUBSET (1 .. n) : K = DOMAIN s \ {} /\ K = 1 .. n
  BY <1>1
<1>3. \A i \in Nat : IsFiniteSet(1 .. i) /\ Cardinality(1 .. i) = i
  <2> SUFFICES ASSUME NEW i \in Nat PROVE IsFiniteSet(1 .. i) /\ Cardinality(1 .. i) = i
    OBVIOUS
  <2>1. PICK k \in Int : k = 1
    OBVIOUS
  <2>2. IsFiniteSet(k .. i) /\ Cardinality(k .. i) = IF k > i THEN 0 ELSE i - k + 1
    BY FS_Interval
  <2> QED  BY <2>1, <2>2
<1>4. \A i \in K : Rank(K, i) = i - 1
  <2> SUFFICES ASSUME NEW i \in K PROVE Rank(K, i) = i - 1
    OBVIOUS
  <2>1. PICK h \in Nat : h = i - 1
    BY <1>2
  <2>2. {j \in K : j < i} = 1 .. h
    BY <1>2, <2>1
  <2> QED  BY <1>3, <2>1, <2>2 DEF Rank
<1>5. Without(s, {}) = [k \in 1 .. n |-> s[CHOOSE i \in K : Rank(K, i) = k - 1]]
  BY <1>2, <1>3 DEF Without, Rank
<1>6. \A k \in 1 .. n : (CHOOSE i \in K : Rank(K, i) = k - 1) = k
  <2> SUFFICES ASSUME NEW k \in 1 .. n PROVE (CHOOSE i \in K : Rank(K, i) = k - 1) = k
    OBVIOUS
  <2>1. k \in K /\ \A i \in K : Rank(K, i) = k - 1 <=> i = k
    BY <1>2, <1>4
  <2> QED  BY <2>1
<1>7. Without(s, {}) = [k \in 1 .. n |-> s[k]]
  BY <1>5, <1>6
<1> QED  BY <1>1, <1>7

-----------------------------------------------------------------------------
(* What a step of one consumer leaves alone.                               *)

\* Nothing changes for the other consumers, but that their partition may be
\* taken from them.
Alone(c) ==
    /\ topic' = topic
    /\ \A d \in Consumers \ {c} :
          /\ entries'[d] = entries[d] /\ errors'[d] = errors[d] /\ parsing'[d] = parsing[d]
          /\ position'[d] = position[d] /\ pc'[d] = pc[d]
          /\ d \in assigned' <=> d \in assigned
          /\ owner' = d => owner = d /\ committed' = committed

\* A partition is kept, or given up by the consumer that has it.
KeepsOrGivesUp(c) == UNCHANGED <<assigned, owner>> \/ GiveUp(c)

LEMMA GivenUp ==
  ASSUME TypeOK, NEW c \in Consumers
  PROVE  /\ KeepsOrGivesUp(c) =>
               /\ assigned' \in SUBSET Consumers /\ owner' \in Consumers \cup {NoConsumer}
               /\ \A d \in Consumers \ {c} : (d \in assigned' <=> d \in assigned)
                                             /\ (owner' = d <=> owner = d)
               /\ owner' = c => owner = c /\ assigned' = assigned
         /\ GiveUp(c) => owner' # c /\ c \notin assigned'
  BY KafkaBatchAssumption DEF TypeOK, KeepsOrGivesUp, GiveUp

LEMMA SubmitEnds ==
  ASSUME TypeOK, NEW c \in Consumers
  PROVE  /\ SubmitFails(c) =>
               /\ KeepsOrGivesUp(c)
               /\ \E l \in {"closing", "restart"} :
                     pc' = [pc EXCEPT ![c] = l] /\ (l = "restart" => GiveUp(c))
         /\ SubmitReturns(c) =>
               /\ KeepsOrGivesUp(c)
               /\ \E l \in {"read", "restart"} :
                     pc' = [pc EXCEPT ![c] = l] /\ (l = "restart" => GiveUp(c))
  BY DEF TypeOK, SubmitFails, SubmitReturns, Goto, KeepsOrGivesUp

\* The types of what a consumer's step changes.
LEMMA StepType ==
  ASSUME TypeOK, NEW c \in Consumers, topic' = topic,
         committed' \in 0 .. N, written' \in SUBSET Offsets, row' \in 0 .. N,
         owner' \in Consumers \cup {NoConsumer}, assigned' \in SUBSET Consumers,
         faults' \in 0 .. MaxFaults,
         NEW x \in 0 .. N, position' = [position EXCEPT ![c] = x],
         NEW s \in Seq(0 .. N), entries' = [entries EXCEPT ![c] = s],
         NEW e \in SUBSET (Offsets \X BOOLEAN), errors' = [errors EXCEPT ![c] = e],
         NEW w \in SUBSET (Offsets \X Offsets), parsing' = [parsing EXCEPT ![c] = w],
         NEW l \in {"down", "read", "submit", "write", "commit", "closing", "restart"},
         pc' = [pc EXCEPT ![c] = l],
         NEW k \in {"loop", "revoke", "close"}, caller' = [caller EXCEPT ![c] = k]
  PROVE  TypeOK'
<1>1. position' \in [Consumers -> 0 .. N]
  BY DEF TypeOK
<1>2. entries' \in [Consumers -> Seq(0 .. N)]
  BY DEF TypeOK
<1>3. errors' \in [Consumers -> SUBSET (Offsets \X BOOLEAN)]
  BY DEF TypeOK
<1>4. parsing' \in [Consumers -> SUBSET (Offsets \X Offsets)]
  BY DEF TypeOK
<1>5. /\ pc' \in [Consumers -> {"down", "read", "submit", "write", "commit", "closing",
                                "restart"}]
      /\ caller' \in [Consumers -> {"loop", "revoke", "close"}]
  BY DEF TypeOK
<1>6. topic' \in [Offsets -> {"usable", "empty", "poison"}]
  BY DEF TypeOK
<1> QED  BY <1>1, <1>2, <1>3, <1>4, <1>5, <1>6 DEF TypeOK

LEMMA OthersKept ==
  ASSUME Inv, NEW c \in Consumers, Alone(c), NEW d \in Consumers \ {c}
  PROVE  Held(d)' /\ Warned(d)'
<1>1. Held(d) /\ Warned(d)
  BY DEF Inv
<1>2. Held(d)'
  BY <1>1 DEF Held, Alone
<1>3. Warned(d)'
  BY <1>1 DEF Warned, Alone
<1> QED  BY <1>2, <1>3

\* The parts of a consumer's step.
LEMMA StepInv ==
  ASSUME Inv, NEW c \in Consumers, TypeOK', Alone(c), PoisonIsNotPassed', Held(c)', Warned(c)'
  PROVE  Inv'
<1>1. \A d \in Consumers : Held(d)' /\ Warned(d)'
  BY OthersKept
<1>2. \A o \in Offsets : topic'[o] \in Contents
  BY DEF Inv, Alone
<1> QED  BY <1>1, <1>2 DEF Inv

-----------------------------------------------------------------------------
(* The read loop.                                                          *)

LEMMA InitInv == Init => Inv
<1> SUFFICES ASSUME Init PROVE Inv
  OBVIOUS
<1> USE KafkaBatchAssumption
<1>1. <<>> \in Seq(0 .. N) /\ Len(<<>>) = 0 /\ DOMAIN <<>> = {}
  OBVIOUS
<1>2. topic \in [Offsets -> {"usable", "empty", "poison"}] /\ \A o \in Offsets : topic[o] \in Contents
  BY DEF Init
<1>3. TypeOK
  BY <1>1, <1>2 DEF Init, TypeOK
<1>4. ASSUME NEW c \in Consumers PROVE Held(c) /\ Warned(c)
  BY <1>1 DEF Init, Held, Warned
<1>5. PoisonIsNotPassed
  BY DEF Init, PoisonIsNotPassed
<1> QED  BY <1>2, <1>3, <1>4, <1>5 DEF Inv

LEMMA SubscribeInv ==
  ASSUME Inv, NEW c \in Consumers, Subscribe(c)
  PROVE  Inv'
<1>1. /\ pc[c] = "down" /\ pc' = [pc EXCEPT ![c] = "read"]
      /\ UNCHANGED <<topic, committed, owner, written, row, assigned, position, entries, errors,
                     parsing, caller, faults>>
      /\ TypeOK /\ Held(c) /\ Warned(c)
  BY DEF Subscribe, Goto, broker, database, batch, Inv
<1>2. TypeOK'
  BY <1>1 DEF TypeOK
<1>3. pc'[c] = "read" /\ \A d \in Consumers \ {c} : pc'[d] = pc[d]
  BY <1>1 DEF TypeOK
<1>4. Alone(c)
  BY <1>1, <1>3 DEF Alone
<1>5. Held(c)'
  <2>1. Len(<<>>) = 0
    OBVIOUS
  <2> QED  BY <1>1, <1>3, <2>1, KafkaBatchAssumption DEF Held
<1>6. Warned(c)' /\ PoisonIsNotPassed'
  BY <1>1 DEF Warned, PoisonIsNotPassed, Inv
<1> QED  BY <1>2, <1>4, <1>5, <1>6, StepInv

LEMMA AssignInv ==
  ASSUME Inv, NEW c \in Consumers, Assign(c)
  PROVE  Inv'
<1>1. /\ pc[c] = "read" /\ c \notin assigned /\ owner = NoConsumer
      /\ owner' = c /\ assigned' = assigned \cup {c}
      /\ position' = [position EXCEPT ![c] = committed]
      /\ UNCHANGED <<topic, committed, written, row, entries, errors, parsing, pc, caller, faults>>
      /\ TypeOK /\ Held(c)
  BY DEF Assign, ResumeAt, database, batch, Inv
<1>2. TypeOK'
  BY <1>1 DEF TypeOK
<1>3. position'[c] = committed /\ \A d \in Consumers \ {c} : position'[d] = position[d]
  BY <1>1 DEF TypeOK
<1>4. Alone(c)
  BY <1>1, <1>3, KafkaBatchAssumption DEF Alone
<1>5. entries[c] = <<>> /\ Len(<<>>) = 0 /\ DOMAIN <<>> = {} /\ committed \in Nat
  BY <1>1, KafkaBatchAssumption DEF Held, TypeOK
<1>6. Held(c)'
  BY <1>1, <1>3, <1>5, KafkaBatchAssumption DEF Held
<1>7. Warned(c)'
  BY <1>1, <1>3, <1>5 DEF Warned
<1>8. PoisonIsNotPassed'
  BY <1>1 DEF PoisonIsNotPassed, Inv
<1> QED  BY <1>2, <1>4, <1>6, <1>7, <1>8, StepInv

LEMMA ReceiveInv ==
  ASSUME Inv, NEW c \in Consumers, ReceiveMessage(c)
  PROVE  Inv'
<1> USE KafkaBatchAssumption
<1>1. PICK s \in Seq(0 .. N), n, x \in Nat : s = entries[c] /\ n = Len(s) /\ x = position[c]
  BY DEF Inv, TypeOK
<1>2. /\ pc[c] = "read" /\ c \in assigned /\ x < N
      /\ position' = [position EXCEPT ![c] = x + 1]
      /\ entries' = [entries EXCEPT ![c] = Append(s, Blank)]
      /\ parsing' = [parsing EXCEPT ![c] = parsing[c] \cup {<<x + 1, n + 1>>}]
      /\ UNCHANGED <<topic, committed, owner, written, row, assigned, errors, faults>>
      /\ TypeOK /\ Held(c) /\ Warned(c)
  BY <1>1 DEF ReceiveMessage, broker, database, Inv, TypeOK
<1>3. PICK l \in {"read", "submit"}, k \in {"loop", "revoke", "close"} :
         /\ pc' = [pc EXCEPT ![c] = l] /\ caller' = [caller EXCEPT ![c] = k]
         /\ l = "read" => n + 1 < MaxSize
  <2>1. CASE SubmitFromLoop(c)
    BY <2>1 DEF SubmitFromLoop, Goto
  <2>2. CASE ~Full(Len(entries[c]) + 1) /\ UNCHANGED <<pc, caller>>
    <3>1. n + 1 < MaxSize
      BY <1>1, <2>2 DEF Full
    <3>2. pc' = [pc EXCEPT ![c] = "read"] /\ caller' = [caller EXCEPT ![c] = caller[c]]
          /\ caller[c] \in {"loop", "revoke", "close"}
      BY <1>2, <2>2 DEF TypeOK
    <3> QED  BY <3>1, <3>2
  <2> QED  BY <2>1, <2>2 DEF ReceiveMessage
<1>4. n < MaxSize /\ n <= x
  BY <1>1, <1>2 DEF Held
<1>5. PICK t \in Seq(0 .. N) :
         /\ t = Append(s, Blank) /\ Len(t) = n + 1 /\ t # <<>> /\ DOMAIN t = 1 .. n + 1
         /\ \A i \in 1 .. n : t[i] = s[i]
         /\ t[n + 1] = Blank /\ DOMAIN s = 1 .. n
  <2>1. Blank \in 0 .. N
    BY DEF Blank
  <2>2. PICK t \in Seq(0 .. N) : t = Append(s, Blank)
    <3>1. PICK X, z : X = 0 .. N /\ z = Blank
      OBVIOUS
    <3>2. s \in Seq(X) /\ z \in X
      BY <2>1, <3>1
    <3>3. Append(s, z) \in Seq(X)
      BY ONLY <3>2
    <3> QED  BY <3>1, <3>3
  <2>3. Len(t) = n + 1 /\ DOMAIN t = 1 .. n + 1 /\ DOMAIN s = 1 .. n
    BY <1>1, <2>1, <2>2
  <2>4. (\A i \in 1 .. n : t[i] = s[i]) /\ t[n + 1] = Blank
    BY <1>1, <2>1, <2>2
  <2>5. t # <<>>
    BY <2>3
  <2> QED  BY <2>2, <2>3, <2>4, <2>5
<1>6. PICK w \in SUBSET (Offsets \X Offsets) : w = parsing[c] \cup {<<x + 1, n + 1>>}
  <2>1. x + 1 \in Offsets /\ n + 1 \in Offsets
    BY <1>2, <1>4 DEF Offsets
  <2>2. parsing[c] \in SUBSET (Offsets \X Offsets)
    BY <1>2 DEF TypeOK
  <2>3. <<x + 1, n + 1>> \in Offsets \X Offsets
    BY <2>1
  <2>4. parsing[c] \cup {<<x + 1, n + 1>>} \in SUBSET (Offsets \X Offsets)
    BY <2>2, <2>3
  <2> QED  BY <2>4
<1>7. TypeOK'
  <2>1. committed' \in 0 .. N /\ written' \in SUBSET Offsets /\ row' \in 0 .. N
        /\ owner' \in Consumers \cup {NoConsumer} /\ assigned' \in SUBSET Consumers
        /\ faults' \in 0 .. MaxFaults /\ topic' = topic
    BY <1>2 DEF TypeOK
  <2>2. x + 1 \in 0 .. N /\ position' = [position EXCEPT ![c] = x + 1]
    BY <1>2
  <2>3. /\ errors' = [errors EXCEPT ![c] = errors[c]]
        /\ errors[c] \in SUBSET (Offsets \X BOOLEAN)
    BY <1>2 DEF TypeOK
  <2>4. entries' = [entries EXCEPT ![c] = t] /\ parsing' = [parsing EXCEPT ![c] = w]
    BY <1>2, <1>5, <1>6
  <2> QED  BY <1>2, <1>3, <2>1, <2>2, <2>3, <2>4, StepType
<1>8. /\ position'[c] = x + 1 /\ entries'[c] = t /\ parsing'[c] = w /\ pc'[c] = l
      /\ \A d \in Consumers \ {c} : /\ position'[d] = position[d] /\ entries'[d] = entries[d]
                                    /\ parsing'[d] = parsing[d] /\ pc'[d] = pc[d]
  BY <1>2, <1>3, <1>5, <1>6 DEF TypeOK
<1>9. Alone(c)
  BY <1>2, <1>8 DEF Alone
<1>10. Held(c)'
  <2>1. \A i \in 1 .. n + 1 : t[i] # Blank => topic[t[i]] = "usable"
    <3>1. \A i \in 1 .. n + 1 : i \in 1 .. n \/ i = n + 1
      OBVIOUS
    <3>2. \A i \in 1 .. n : s[i] # Blank => topic[s[i]] = "usable"
      BY <1>1, <1>2, <1>5 DEF Held
    <3> QED  BY <1>5, <3>1, <3>2
  <2> QED  BY <1>2, <1>3, <1>4, <1>5, <1>8, <2>1 DEF Held
<1>11. Warned(c)'
  <2> SUFFICES ASSUME owner = c
               PROVE  /\ committed <= x + 1
                      /\ \A o \in committed + 1 .. x + 1 : topic[o] = "poison" =>
                            (\E v \in w : v[1] = o) \/ \E e \in errors[c] : e[2]
    BY <1>2, <1>8 DEF Warned
  <2>1. committed \in Nat /\ committed <= x
    BY <1>1, <1>2 DEF Warned, TypeOK
  <2>2. \A o \in committed + 1 .. x + 1 : o \in committed + 1 .. x \/ o = x + 1
    BY <2>1
  <2>3. <<x + 1, n + 1>> \in w /\ <<x + 1, n + 1>>[1] = x + 1 /\ parsing[c] \subseteq w
    BY <1>6
  <2>4. ASSUME NEW o \in committed + 1 .. x, topic[o] = "poison"
        PROVE  (\E v \in w : v[1] = o) \/ \E e \in errors[c] : e[2]
    <3>1. (\E v \in parsing[c] : v[1] = o) \/ \E e \in errors[c] : e[2]
      BY <1>1, <1>2, <2>4 DEF Warned
    <3> QED  BY <2>3, <3>1
  <2>5. \E v \in w : v[1] = x + 1
    BY <2>3
  <2>6. committed <= x + 1
    BY <2>1
  <2> QED  BY <2>2, <2>4, <2>5, <2>6
<1>12. PoisonIsNotPassed'
  BY <1>2 DEF PoisonIsNotPassed, Inv
<1> QED  BY <1>7, <1>9, <1>10, <1>11, <1>12, StepInv

LEMMA ParseInv ==
  ASSUME Inv, NEW c \in Consumers, Parse(c)
  PROVE  Inv'
<1> USE KafkaBatchAssumption
<1>1. PICK w \in parsing[c] :
         /\ parsing' = [parsing EXCEPT ![c] = parsing[c] \ {w}]
         /\ \/ /\ topic[w[1]] = "usable"
               /\ entries' = [entries EXCEPT ![c][w[2]] = w[1]]
               /\ errors' = errors
            \/ /\ topic[w[1]] # "usable"
               /\ errors' = [errors EXCEPT ![c] = errors[c] \cup {<<w[2], Fatal(w[1])>>}]
               /\ entries' = entries
         /\ UNCHANGED <<topic, committed, owner, written, row, assigned, position, pc, caller, faults>>
  BY DEF Parse, broker, database
<1>2. TypeOK /\ Held(c) /\ Warned(c) /\ w[1] \in Offsets /\ w[2] \in Offsets
  BY DEF Inv, TypeOK
<1>3. PICK s : s \in Seq(0 .. N) /\ s = entries[c]
  BY <1>2 DEF TypeOK
<1>4. PICK t \in Seq(0 .. N) :
         /\ Len(t) = Len(s) /\ DOMAIN t = DOMAIN s /\ (t = <<>> <=> s = <<>>)
         /\ entries' = [entries EXCEPT ![c] = t]
         /\ \A i \in DOMAIN t : t[i] = s[i] \/ (t[i] = w[1] /\ topic[w[1]] = "usable")
  <2>1. CASE entries' = entries
    <3>1. entries' = [entries EXCEPT ![c] = s]
      BY <1>2, <1>3, <2>1 DEF TypeOK
    <3> QED  BY <1>3, <3>1
  <2>2. CASE entries' = [entries EXCEPT ![c][w[2]] = w[1]] /\ topic[w[1]] = "usable"
    <3>1. PICK t : t = [s EXCEPT ![w[2]] = w[1]]
      OBVIOUS
    <3>2. entries' = [entries EXCEPT ![c] = t]
      BY <1>3, <2>2, <3>1
    <3>3. w[1] \in 0 .. N
      BY <1>2 DEF Offsets
    <3>4. t \in Seq(0 .. N) /\ Len(t) = Len(s) /\ DOMAIN t = DOMAIN s
      <4>1. PICK X : X = 0 .. N
        OBVIOUS
      <4>2. s \in Seq(X) /\ w[1] \in X
        BY <1>3, <3>3, <4>1
      <4>3. Len(s) \in Nat /\ s \in [1 .. Len(s) -> X]
        BY ONLY <4>2
      <4>4. PICK n \in Nat : n = Len(s) /\ s \in [1 .. n -> X]
        BY <4>3
      <4>5. t \in [1 .. n -> X]
        BY <3>1, <4>2, <4>4
      <4>6. t \in Seq(X) /\ Len(t) = n
        BY ONLY <4>5, n \in Nat
      <4> QED  BY <3>1, <4>1, <4>4, <4>6
    <3>5. \A i \in DOMAIN t : t[i] = s[i] \/ t[i] = w[1]
      BY <3>1
    <3>6. t = <<>> <=> s = <<>>
      BY <3>4
    <3> QED  BY <2>2, <3>2, <3>4, <3>5, <3>6
  <2> QED  BY <1>1, <2>1, <2>2
<1>5. PICK e \in SUBSET (Offsets \X BOOLEAN) :
         /\ errors[c] \subseteq e /\ errors' = [errors EXCEPT ![c] = e]
         /\ topic[w[1]] = "poison" => <<w[2], TRUE>> \in e
  <2>1. errors[c] \in SUBSET (Offsets \X BOOLEAN) /\ Fatal(w[1]) \in BOOLEAN
    BY <1>2 DEF TypeOK, Fatal
  <2>2. CASE errors' = errors /\ topic[w[1]] = "usable"
    <3>1. errors' = [errors EXCEPT ![c] = errors[c]]
      BY <1>2, <2>2 DEF TypeOK
    <3> QED  BY <2>1, <2>2, <3>1
  <2>3. CASE errors' = [errors EXCEPT ![c] = errors[c] \cup {<<w[2], Fatal(w[1])>>}]
    <3>1. <<w[2], Fatal(w[1])>> \in Offsets \X BOOLEAN
      BY <1>2, <2>1
    <3>2. topic[w[1]] = "poison" => Fatal(w[1]) = TRUE
      BY DEF Fatal
    <3>3. PICK e : e = errors[c] \cup {<<w[2], Fatal(w[1])>>}
      OBVIOUS
    <3>4. e \in SUBSET (Offsets \X BOOLEAN) /\ errors[c] \subseteq e
      BY <2>1, <3>1, <3>3
    <3>5. topic[w[1]] = "poison" => <<w[2], TRUE>> \in e
      BY <3>2, <3>3
    <3> QED  BY <2>3, <3>3, <3>4, <3>5
  <2> QED  BY <1>1, <2>2, <2>3
<1>6. TypeOK'
  <2>1. committed' \in 0 .. N /\ written' \in SUBSET Offsets /\ row' \in 0 .. N
        /\ owner' \in Consumers \cup {NoConsumer} /\ assigned' \in SUBSET Consumers
        /\ faults' \in 0 .. MaxFaults /\ topic' = topic
    BY <1>1, <1>2 DEF TypeOK
  <2>2. position' = [position EXCEPT ![c] = position[c]] /\ position[c] \in 0 .. N
    BY <1>1, <1>2 DEF TypeOK
  <2>3. /\ pc' = [pc EXCEPT ![c] = pc[c]] /\ caller' = [caller EXCEPT ![c] = caller[c]]
        /\ pc[c] \in {"down", "read", "submit", "write", "commit", "closing", "restart"}
        /\ caller[c] \in {"loop", "revoke", "close"}
    BY <1>1, <1>2 DEF TypeOK
  <2>4. parsing[c] \ {w} \in SUBSET (Offsets \X Offsets)
    BY <1>2 DEF TypeOK
  <2> QED  BY <1>1, <1>2, <1>4, <1>5, <2>1, <2>2, <2>3, <2>4, StepType
<1>7. /\ entries'[c] = t /\ errors'[c] = e /\ parsing'[c] = parsing[c] \ {w}
      /\ \A d \in Consumers \ {c} : /\ entries'[d] = entries[d] /\ errors'[d] = errors[d]
                                    /\ parsing'[d] = parsing[d]
  BY <1>1, <1>2, <1>4, <1>5 DEF TypeOK
<1>8. Alone(c)
  BY <1>1, <1>7 DEF Alone
<1>9. Held(c)'
  <2>1. pc[c] \notin {"write", "commit"}
    BY <1>2 DEF Held
  <2>2. \A i \in DOMAIN t : t[i] # Blank => topic[t[i]] = "usable"
    BY <1>2, <1>3, <1>4 DEF Held
  <2>3. t = <<>> => parsing[c] \ {w} = {}
    BY <1>2, <1>3, <1>4 DEF Held
  <2> QED  BY <1>1, <1>2, <1>3, <1>4, <1>7, <2>1, <2>2, <2>3 DEF Held
<1>10. Warned(c)'
  <2> SUFFICES ASSUME owner = c, NEW o \in committed + 1 .. position[c], topic[o] = "poison"
               PROVE  (\E v \in parsing[c] \ {w} : v[1] = o) \/ \E f \in e : f[2]
    BY <1>1, <1>2, <1>7 DEF Warned
  <2>1. CASE \E f \in errors[c] : f[2]
    BY <1>5, <2>1
  <2>2. CASE \E v \in parsing[c] : v[1] = o
    <3>1. PICK v \in parsing[c] : v[1] = o
      BY <2>2
    <3>2. CASE v = w
      BY <1>5, <3>1, <3>2
    <3> QED  BY <3>1, <3>2
  <2> QED  BY <1>2, <2>1, <2>2 DEF Warned
<1>11. PoisonIsNotPassed'
  BY <1>1 DEF PoisonIsNotPassed, Inv
<1> QED  BY <1>6, <1>8, <1>9, <1>10, <1>11, StepInv

\* A step that changes where a consumer is, what called Submit or who has the
\* partition, and nothing of the batch.
LEMMA MoveInv ==
  ASSUME Inv, NEW c \in Consumers, KeepsOrGivesUp(c),
         UNCHANGED <<topic, committed, position, entries, errors, parsing>>,
         written' \in SUBSET Offsets, row' \in 0 .. N, faults' \in 0 .. MaxFaults,
         NEW l \in {"read", "submit", "commit", "closing", "restart"}, pc' = [pc EXCEPT ![c] = l],
         NEW k \in {"loop", "revoke", "close"}, caller' = [caller EXCEPT ![c] = k],
         l = "read" => entries[c] = <<>>,
         l = "commit" => pc[c] = "write",
         l = "restart" => GiveUp(c)
  PROVE  Inv'
<1> USE KafkaBatchAssumption
<1>1. TypeOK /\ Held(c) /\ Warned(c)
  BY DEF Inv
<1>2. /\ assigned' \in SUBSET Consumers /\ owner' \in Consumers \cup {NoConsumer}
      /\ \A d \in Consumers \ {c} : (d \in assigned' <=> d \in assigned) /\ (owner' = d <=> owner = d)
      /\ owner' = c => owner = c /\ assigned' = assigned
      /\ GiveUp(c) => owner' # c /\ c \notin assigned'
  BY <1>1, GivenUp
<1>3. TypeOK'
  <2>1. /\ pc' \in [Consumers -> {"down", "read", "submit", "write", "commit", "closing",
                                  "restart"}]
        /\ caller' \in [Consumers -> {"loop", "revoke", "close"}]
    BY <1>1 DEF TypeOK
  <2> QED  BY <1>1, <1>2, <2>1 DEF TypeOK
<1>4. pc'[c] = l /\ \A d \in Consumers \ {c} : pc'[d] = pc[d]
  BY <1>1 DEF TypeOK
<1>5. Alone(c)
  BY <1>2, <1>4 DEF Alone
<1>6. Held(c)'
  <2>1. Len(<<>>) = 0
    OBVIOUS
  <2>2. l = "restart" => owner' # c /\ c \notin assigned'
    BY <1>2
  <2> QED  BY <1>1, <1>4, <2>1, <2>2 DEF Held
<1>7. Warned(c)'
  BY <1>1, <1>2 DEF Warned
<1>8. PoisonIsNotPassed'
  BY DEF PoisonIsNotPassed, Inv
<1> QED  BY <1>3, <1>5, <1>6, <1>7, <1>8, StepInv

LEMMA LoopInv ==
  ASSUME Inv, NEW c \in Consumers, Revoke(c) \/ ReadTimeout(c) \/ ReadError(c) \/ Close(c)
  PROVE  Inv'
<1>1. UNCHANGED <<topic, committed, written, row, position, entries, errors, parsing>>
  BY DEF Revoke, ReadTimeout, ReadError, Close, broker, database, batch
<1>2. faults' \in 0 .. MaxFaults
  <2>1. faults' = faults \/ (faults < MaxFaults /\ faults' = faults + 1)
    BY DEF Revoke, ReadTimeout, ReadError, Close, Fault, NoFault
  <2> QED  BY <2>1, KafkaBatchAssumption DEF Inv, TypeOK
<1>3. KeepsOrGivesUp(c) /\ written' \in SUBSET Offsets /\ row' \in 0 .. N
  <2>1. KeepsOrGivesUp(c)
    BY DEF Revoke, ReadTimeout, ReadError, Close, broker, KeepsOrGivesUp
  <2> QED  BY <1>1, <2>1 DEF Inv, TypeOK
<1>4. \E l \in {"submit", "closing", "restart"} :
         pc' = [pc EXCEPT ![c] = l] /\ (l = "restart" => GiveUp(c))
  BY DEF Revoke, ReadTimeout, ReadError, Close, Goto, SubmitFromLoop
<1>5. \E k \in {"loop", "revoke", "close"} : caller' = [caller EXCEPT ![c] = k]
  <2>1. caller' = caller \/ \E k \in {"loop", "revoke", "close"} : caller' = [caller EXCEPT ![c] = k]
    BY DEF Revoke, ReadTimeout, ReadError, Close, SubmitFromLoop
  <2>2. caller = [caller EXCEPT ![c] = caller[c]] /\ caller[c] \in {"loop", "revoke", "close"}
    BY DEF Inv, TypeOK
  <2> QED  BY <2>1, <2>2
<1> QED  BY <1>1, <1>2, <1>3, <1>4, <1>5, MoveInv

-----------------------------------------------------------------------------
(* Submit.                                                                 *)

LEMMA ForgetInv ==
  ASSUME Inv, NEW c \in Consumers, Forget(c), faults' \in 0 .. MaxFaults
  PROVE  Inv'
<1> USE KafkaBatchAssumption
<1>1. /\ TypeOK /\ pc' = [pc EXCEPT ![c] = "down"]
      /\ entries' = [entries EXCEPT ![c] = <<>>] /\ errors' = [errors EXCEPT ![c] = {}]
      /\ parsing' = [parsing EXCEPT ![c] = {}] /\ GiveUp(c) /\ KeepsOrGivesUp(c)
      /\ UNCHANGED <<topic, committed, written, row, position, caller>>
  BY DEF Inv, Forget, Goto, Reset, database, KeepsOrGivesUp
<1>2. /\ assigned' \in SUBSET Consumers /\ owner' \in Consumers \cup {NoConsumer}
      /\ \A d \in Consumers \ {c} : (d \in assigned' <=> d \in assigned) /\ (owner' = d <=> owner = d)
      /\ owner' # c /\ c \notin assigned'
  BY <1>1, GivenUp
<1>3. <<>> \in Seq(0 .. N) /\ Len(<<>>) = 0 /\ DOMAIN <<>> = {}
  OBVIOUS
<1>4. TypeOK'
  <2>1. /\ pc' \in [Consumers -> {"down", "read", "submit", "write", "commit", "closing",
                                  "restart"}]
        /\ entries' \in [Consumers -> Seq(0 .. N)]
    BY <1>1, <1>3 DEF TypeOK
  <2>2. /\ errors' \in [Consumers -> SUBSET (Offsets \X BOOLEAN)]
        /\ parsing' \in [Consumers -> SUBSET (Offsets \X Offsets)]
    BY <1>1 DEF TypeOK
  <2> QED  BY <1>1, <1>2, <2>1, <2>2 DEF TypeOK
<1>5. /\ pc'[c] = "down" /\ entries'[c] = <<>> /\ errors'[c] = {} /\ parsing'[c] = {}
      /\ \A d \in Consumers \ {c} : /\ pc'[d] = pc[d] /\ entries'[d] = entries[d]
                                    /\ errors'[d] = errors[d] /\ parsing'[d] = parsing[d]
  BY <1>1 DEF TypeOK
<1>6. Alone(c)
  BY <1>1, <1>2, <1>5 DEF Alone
<1>7. Held(c)'
  <2>1. position[c] >= 0
    BY <1>1 DEF TypeOK
  <2> QED  BY <1>1, <1>2, <1>3, <1>5, <2>1 DEF Held
<1>8. Warned(c)'
  BY <1>2 DEF Warned
<1>9. PoisonIsNotPassed'
  BY <1>1 DEF PoisonIsNotPassed, Inv
<1> QED  BY <1>4, <1>6, <1>7, <1>8, <1>9, StepInv

\* The batch is compacted.
Compacts(c) ==
    /\ pc[c] = "submit" /\ entries[c] # <<>> /\ parsing[c] = {} /\ \A e \in errors[c] : ~e[2]
    /\ entries' = [entries EXCEPT ![c] = Without(entries[c], Failed(c))]
    /\ pc' = [pc EXCEPT ![c] = "write"]
    /\ UNCHANGED <<topic, committed, owner, written, row, assigned, position, errors, parsing,
                   caller, faults>>

LEMMA CompactsInv ==
  ASSUME Inv, NEW c \in Consumers, Compacts(c)
  PROVE  Inv'
<1> USE KafkaBatchAssumption
<1>1. TypeOK /\ Held(c) /\ Warned(c)
  BY DEF Inv
<1>2. PICK X, s, t : /\ X = 0 .. N /\ s = entries[c] /\ s \in Seq(X)
                     /\ t = Without(s, Failed(c)) /\ entries' = [entries EXCEPT ![c] = t]
  BY <1>1 DEF Compacts, TypeOK
<1>3. /\ t \in Seq(X) /\ Len(t) <= Len(s) /\ Len(t) \in Nat /\ Len(s) \in Nat
      /\ \A k \in DOMAIN t : \E i \in DOMAIN s : t[k] = s[i]
  <2>1. t \in Seq(X) /\ Len(t) <= Len(s) /\ \A k \in DOMAIN t : \E i \in DOMAIN s \ Failed(c) : t[k] = s[i]
    BY ONLY <1>2, Compacted
  <2>2. Len(t) \in Nat /\ Len(s) \in Nat
    BY ONLY <1>2, <2>1
  <2> QED  BY <2>1, <2>2
<1>4. TypeOK'
  <2>1. /\ pc' \in [Consumers -> {"down", "read", "submit", "write", "commit", "closing",
                                  "restart"}]
        /\ entries' \in [Consumers -> Seq(0 .. N)]
    BY <1>1, <1>2, <1>3 DEF TypeOK, Compacts
  <2> QED  BY <1>1, <2>1 DEF TypeOK, Compacts
<1>5. /\ pc'[c] = "write" /\ entries'[c] = t
      /\ \A d \in Consumers \ {c} : pc'[d] = pc[d] /\ entries'[d] = entries[d]
  BY <1>1, <1>2 DEF TypeOK, Compacts
<1>6. Alone(c)
  BY <1>5 DEF Alone, Compacts
<1>7. Held(c)'
  <2>1. Len(s) <= MaxSize /\ Len(s) <= position[c] /\ position[c] \in Nat
    BY <1>1, <1>2 DEF Held, TypeOK
  <2>2. Len(t) <= MaxSize /\ Len(t) <= position[c]
    BY <1>3, <2>1
  <2>3. \A k \in DOMAIN t : t[k] # Blank => topic[t[k]] = "usable"
    BY <1>1, <1>2, <1>3 DEF Held
  <2> QED  BY <1>1, <1>5, <2>2, <2>3 DEF Held, Compacts
<1>8. Warned(c)' /\ PoisonIsNotPassed'
  BY <1>1 DEF Warned, PoisonIsNotPassed, Inv, Compacts
<1> QED  BY <1>4, <1>6, <1>7, <1>8, StepInv

\* Submit returns, with an error or without, compacts, or panics.
LEMMA Submits ==
  ASSUME TypeOK, NEW c \in Consumers, Submit(c)
  PROVE  /\ pc[c] = "submit"
         /\ \/ /\ entries[c] = <<>> /\ SubmitReturns(c)
               /\ UNCHANGED <<topic, committed, written, row, position, entries, errors, parsing,
                              caller, faults>>
            \/ /\ (\E e \in errors[c] : e[2]) /\ SubmitFails(c)
               /\ UNCHANGED <<topic, committed, written, row, position, entries, errors, parsing,
                              caller, faults>>
            \/ Compacts(c)
            \/ Forget(c) /\ NoFault
  BY DEF Submit, Compacts, Goto, broker, database, batch

LEMMA SubmitInv ==
  ASSUME Inv, NEW c \in Consumers, Submit(c)
  PROVE  Inv'
<1>1. TypeOK
  BY DEF Inv
<1>2. caller = [caller EXCEPT ![c] = caller[c]] /\ caller[c] \in {"loop", "revoke", "close"}
  BY <1>1 DEF TypeOK
<1>3. CASE Compacts(c)
  BY <1>3, CompactsInv
<1>4. CASE Forget(c) /\ NoFault
  <2>1. faults' \in 0 .. MaxFaults
    BY <1>1, <1>4 DEF NoFault, TypeOK
  <2> QED  BY <1>4, <2>1, ForgetInv
<1>5. CASE /\ entries[c] = <<>> /\ SubmitReturns(c)
           /\ UNCHANGED <<topic, committed, written, row, position, entries, errors, parsing,
                          caller, faults>>
  <2>1. /\ faults' \in 0 .. MaxFaults /\ caller' = [caller EXCEPT ![c] = caller[c]]
        /\ written' \in SUBSET Offsets /\ row' \in 0 .. N
    BY <1>1, <1>2, <1>5 DEF TypeOK
  <2>2. KeepsOrGivesUp(c)
    BY <1>1, <1>5, SubmitEnds
  <2>3. PICK l \in {"read", "restart"} : pc' = [pc EXCEPT ![c] = l] /\ (l = "restart" => GiveUp(c))
    BY <1>1, <1>5, SubmitEnds
  <2> QED  BY <1>2, <1>5, <2>1, <2>2, <2>3, MoveInv
<1>6. CASE /\ SubmitFails(c)
           /\ UNCHANGED <<topic, committed, written, row, position, entries, errors, parsing,
                          caller, faults>>
  <2>1. /\ faults' \in 0 .. MaxFaults /\ caller' = [caller EXCEPT ![c] = caller[c]]
        /\ written' \in SUBSET Offsets /\ row' \in 0 .. N
    BY <1>1, <1>2, <1>6 DEF TypeOK
  <2>2. KeepsOrGivesUp(c)
    BY <1>1, <1>6, SubmitEnds
  <2>3. PICK l \in {"closing", "restart"} : pc' = [pc EXCEPT ![c] = l] /\ (l = "restart" => GiveUp(c))
    BY <1>1, <1>6, SubmitEnds
  <2> QED  BY <1>2, <1>6, <2>1, <2>2, <2>3, MoveInv
<1> QED  BY <1>1, <1>3, <1>4, <1>5, <1>6, Submits

-----------------------------------------------------------------------------
(* The write, the commit, and the ends.                                    *)

\* A write goes to the commit, or fails.
LEMMA Writes ==
  ASSUME TypeOK, NEW c \in Consumers, WriteBatch(c)
  PROVE  /\ pc[c] = "write" /\ KeepsOrGivesUp(c)
         /\ \/ Store(c) /\ pc' = [pc EXCEPT ![c] = "commit"] /\ UNCHANGED <<assigned, owner>>
            \/ /\ "write" \in Faults /\ (Store(c) \/ UNCHANGED <<written, row>>)
               /\ \E l \in {"closing", "restart"} :
                     pc' = [pc EXCEPT ![c] = l] /\ (l = "restart" => GiveUp(c))
         /\ UNCHANGED <<topic, committed, position, entries, errors, parsing, caller>>
<1>1. pc[c] = "write" /\ UNCHANGED <<topic, committed, position, entries, errors, parsing, caller>>
  BY DEF WriteBatch, batch
<1>2. CASE Store(c) /\ Goto(c, "commit") /\ UNCHANGED <<assigned, owner>>
  BY <1>1, <1>2 DEF Goto, KeepsOrGivesUp
<1>3. CASE Fault("write") /\ SubmitFails(c) /\ (Store(c) \/ UNCHANGED database)
  BY <1>1, <1>3, SubmitEnds DEF Fault, database
<1> QED  BY <1>2, <1>3 DEF WriteBatch

LEMMA Stores ==
  ASSUME TypeOK, NEW c \in Consumers, Store(c)
  PROVE  /\ written' \in SUBSET Offsets /\ row' \in 0 .. N
         /\ entries[c] = <<>> => row' = row
         /\ entries[c] # <<>> => Len(entries[c]) \in DOMAIN entries[c]
                                 /\ row' = entries[c][Len(entries[c])]
<1>1. PICK s \in Seq(0 .. N) : s = entries[c]
  BY DEF TypeOK
<1>2. \A i \in DOMAIN s : s[i] \in 0 .. N
  <2>1. PICK X : X = 0 .. N
    OBVIOUS
  <2>2. s \in Seq(X)
    BY <2>1
  <2>3. \A i \in DOMAIN s : s[i] \in X
    BY ONLY <2>2
  <2> QED  BY <2>1, <2>3
<1>3. s # <<>> => Len(s) \in DOMAIN s
  OBVIOUS
<1>4. \A i \in DOMAIN s : s[i] # Blank => s[i] \in Offsets
  BY <1>2, KafkaBatchAssumption DEF Blank, Offsets
<1>5. written' \in SUBSET Offsets
  BY <1>1, <1>4 DEF Store, TypeOK, Range
<1> QED  BY <1>1, <1>2, <1>3, <1>5 DEF Store, TypeOK

LEMMA WriteInv ==
  ASSUME Inv, NEW c \in Consumers, WriteBatch(c)
  PROVE  Inv'
<1>1. TypeOK
  BY DEF Inv
<1>2. caller' = [caller EXCEPT ![c] = caller[c]] /\ caller[c] \in {"loop", "revoke", "close"}
  BY <1>1, Writes DEF TypeOK
<1>3. written' \in SUBSET Offsets /\ row' \in 0 .. N
  BY <1>1, Writes, Stores DEF TypeOK, WriteBatch
<1>4. faults' \in 0 .. MaxFaults
  <2>1. faults' = faults \/ (faults < MaxFaults /\ faults' = faults + 1)
    BY DEF WriteBatch, Fault, NoFault
  <2> QED  BY <1>1, <2>1, KafkaBatchAssumption DEF TypeOK
<1>5. \E l \in {"commit", "closing", "restart"} :
         pc' = [pc EXCEPT ![c] = l] /\ (l = "restart" => GiveUp(c))
  BY <1>1, Writes
<1> QED  BY <1>1, <1>2, <1>3, <1>4, <1>5, Writes, MoveInv

\* The owner's commit covers what was delivered to it; a commit that fails
\* changes nothing of the batch.
LEMMA Commits ==
  ASSUME TypeOK, NEW c \in Consumers, Commit(c)
  PROVE  /\ pc[c] = "commit" /\ KeepsOrGivesUp(c)
         /\ \/ /\ owner = c /\ committed' = position[c]
               /\ entries' = [entries EXCEPT ![c] = <<>>] /\ errors' = [errors EXCEPT ![c] = {}]
               /\ \E l \in {"read", "restart"} :
                     pc' = [pc EXCEPT ![c] = l] /\ (l = "restart" => GiveUp(c))
               /\ faults' = faults
            \/ /\ owner # c \/ "commit" \in Faults
               /\ UNCHANGED <<committed, entries, errors>>
               /\ \E l \in {"closing", "restart"} :
                     pc' = [pc EXCEPT ![c] = l] /\ (l = "restart" => GiveUp(c))
         /\ UNCHANGED <<topic, written, row, position, parsing, caller>>
<1>1. pc[c] = "commit" /\ UNCHANGED <<topic, written, row, position, parsing, caller>>
  BY DEF Commit, database
<1>2. CASE owner = c /\ committed' = position[c] /\ Reset(c) /\ SubmitReturns(c) /\ NoFault
  BY <1>1, <1>2, SubmitEnds DEF Reset, NoFault
<1>3. CASE /\ (owner # c /\ NoFault) \/ Fault("commit")
           /\ SubmitFails(c) /\ UNCHANGED <<committed, entries, errors>>
  BY <1>1, <1>3, SubmitEnds DEF Fault
<1> QED  BY <1>2, <1>3 DEF Commit

LEMMA CommitInv ==
  ASSUME Inv, NEW c \in Consumers, Commit(c)
  PROVE  Inv'
<1> USE KafkaBatchAssumption
<1>1. /\ TypeOK /\ Held(c) /\ Warned(c) /\ pc[c] = "commit" /\ KeepsOrGivesUp(c)
      /\ UNCHANGED <<topic, written, row, position, parsing, caller>>
  BY Commits DEF Inv
<1>2. caller' = [caller EXCEPT ![c] = caller[c]] /\ caller[c] \in {"loop", "revoke", "close"}
      /\ written' \in SUBSET Offsets /\ row' \in 0 .. N
  BY <1>1 DEF TypeOK
<1>3. faults' \in 0 .. MaxFaults
  <2>1. faults' = faults \/ (faults < MaxFaults /\ faults' = faults + 1)
    BY DEF Commit, Fault, NoFault
  <2> QED  BY <1>1, <2>1 DEF TypeOK
<1>4. CASE UNCHANGED <<committed, entries, errors>>
           /\ \E l \in {"closing", "restart"} :
                 pc' = [pc EXCEPT ![c] = l] /\ (l = "restart" => GiveUp(c))
  BY <1>1, <1>2, <1>3, <1>4, MoveInv
<1>5. ASSUME owner = c, committed' = position[c],
             entries' = [entries EXCEPT ![c] = <<>>], errors' = [errors EXCEPT ![c] = {}],
             NEW l \in {"read", "restart"}, pc' = [pc EXCEPT ![c] = l], l = "restart" => GiveUp(c)
      PROVE  Inv'
  <2>1. <<>> \in Seq(0 .. N) /\ Len(<<>>) = 0 /\ DOMAIN <<>> = {}
    OBVIOUS
  <2>2. /\ assigned' \in SUBSET Consumers /\ owner' \in Consumers \cup {NoConsumer}
        /\ \A d \in Consumers \ {c} : (d \in assigned' <=> d \in assigned) /\ (owner' = d <=> owner = d)
        /\ owner' = c => owner = c /\ assigned' = assigned
        /\ GiveUp(c) => owner' # c /\ c \notin assigned'
    BY <1>1, GivenUp
  <2>3. position[c] \in 0 .. N
    BY <1>1 DEF TypeOK
  <2>4. TypeOK'
    <3>1. /\ position' = [position EXCEPT ![c] = position[c]]
          /\ parsing' = [parsing EXCEPT ![c] = parsing[c]]
          /\ parsing[c] \in SUBSET (Offsets \X Offsets)
      BY <1>1 DEF TypeOK
    <3>2. topic' = topic /\ committed' \in 0 .. N
      BY <1>1, <1>5, <2>3
    <3> QED  BY <1>1, <1>2, <1>3, <1>5, <2>1, <2>2, <2>3, <3>1, <3>2, StepType
  <2>5. /\ pc'[c] = l /\ entries'[c] = <<>> /\ errors'[c] = {}
        /\ \A d \in Consumers \ {c} : /\ pc'[d] = pc[d] /\ entries'[d] = entries[d]
                                      /\ errors'[d] = errors[d]
    BY <1>1, <1>5 DEF TypeOK
  <2>6. Alone(c)
    BY <1>1, <1>5, <2>2, <2>5 DEF Alone
  <2>7. Held(c)'
    BY <1>1, <1>5, <2>1, <2>2, <2>3, <2>5 DEF Held
  <2>8. Warned(c)'
    BY <1>1, <1>5, <2>2, <2>3 DEF Warned
  <2>9. PoisonIsNotPassed'
    <3>1. parsing[c] = {} /\ \A e \in errors[c] : ~e[2]
      BY <1>1 DEF Held
    <3>2. \A o \in committed + 1 .. position[c] : topic[o] # "poison"
      BY <1>1, <1>5, <3>1 DEF Warned
    <3>3. \A o \in 1 .. position[c] : o \in 1 .. committed \/ o \in committed + 1 .. position[c]
      BY <1>1, <2>3 DEF TypeOK
    <3> QED  BY <1>1, <1>5, <3>2, <3>3 DEF PoisonIsNotPassed, Inv
  <2> QED  BY <2>4, <2>6, <2>7, <2>8, <2>9, StepInv
<1> QED  BY <1>1, <1>4, <1>5, Commits

LEMMA RestartInv ==
  ASSUME Inv, NEW c \in Consumers, Restart(c)
  PROVE  Inv'
<1> USE KafkaBatchAssumption
<1>1. /\ TypeOK /\ Held(c) /\ Warned(c) /\ pc[c] = "restart" /\ parsing[c] = {}
      /\ pc' = [pc EXCEPT ![c] = "down"]
      /\ entries' = [entries EXCEPT ![c] = <<>>] /\ errors' = [errors EXCEPT ![c] = {}]
      /\ UNCHANGED <<topic, committed, owner, written, row, assigned, position, parsing, caller, faults>>
  BY DEF Inv, Held, Restart, Goto, Reset, broker, database
<1>2. <<>> \in Seq(0 .. N) /\ Len(<<>>) = 0 /\ DOMAIN <<>> = {}
  OBVIOUS
<1>3. TypeOK'
  <2>1. /\ pc' \in [Consumers -> {"down", "read", "submit", "write", "commit", "closing",
                                  "restart"}]
        /\ entries' \in [Consumers -> Seq(0 .. N)]
    BY <1>1, <1>2 DEF TypeOK
  <2>2. errors' \in [Consumers -> SUBSET (Offsets \X BOOLEAN)]
    BY <1>1 DEF TypeOK
  <2> QED  BY <1>1, <2>1, <2>2 DEF TypeOK
<1>4. /\ pc'[c] = "down" /\ entries'[c] = <<>>
      /\ \A d \in Consumers \ {c} : /\ pc'[d] = pc[d] /\ entries'[d] = entries[d]
                                    /\ errors'[d] = errors[d]
  BY <1>1 DEF TypeOK
<1>5. Alone(c)
  BY <1>1, <1>4 DEF Alone
<1>6. Held(c)'
  <2>1. position[c] >= 0 /\ owner # c /\ c \notin assigned
    BY <1>1 DEF TypeOK, Held
  <2> QED  BY <1>1, <1>2, <1>4, <2>1 DEF Held
<1>7. Warned(c)'
  BY <1>1 DEF Warned, Held
<1>8. PoisonIsNotPassed'
  BY <1>1 DEF PoisonIsNotPassed, Inv
<1> QED  BY <1>3, <1>5, <1>6, <1>7, <1>8, StepInv

LEMMA ExpelInv ==
  ASSUME Inv, NEW c \in Consumers, Expel(c)
  PROVE  Inv'
<1> USE KafkaBatchAssumption
<1>1. /\ TypeOK /\ owner = c /\ owner' = NoConsumer
      /\ UNCHANGED <<topic, committed, written, row, assigned, position, entries, errors, parsing,
                     pc, caller>>
      /\ Held(c)
  BY DEF Inv, Expel, database, batch
<1>2. faults' \in 0 .. MaxFaults
  BY <1>1 DEF Expel, Fault, TypeOK
<1>3. TypeOK'
  BY <1>1, <1>2 DEF TypeOK
<1>4. Alone(c)
  BY <1>1 DEF Alone
<1>5. Held(c)' /\ Warned(c)' /\ PoisonIsNotPassed'
  BY <1>1 DEF Held, Warned, PoisonIsNotPassed, Inv
<1> QED  BY <1>3, <1>4, <1>5, StepInv

LEMMA NextInv == Inv /\ [Next]_vars => Inv'
<1> SUFFICES ASSUME Inv, [Next]_vars PROVE Inv'
  OBVIOUS
<1>1. ASSUME NEW c \in Consumers, Crash(c) PROVE Inv'
  <2>1. faults' \in 0 .. MaxFaults
    BY <1>1, KafkaBatchAssumption DEF Crash, Fault, Inv, TypeOK
  <2> QED  BY <1>1, <2>1, ForgetInv DEF Crash
<1>2. CASE UNCHANGED vars
  <2>1. TypeOK'
    BY <1>2 DEF Inv, TypeOK, vars, broker, database, batch
  <2>2. \A c \in Consumers : Held(c)' /\ Warned(c)'
    BY <1>2 DEF Inv, Held, Warned, vars, broker, database, batch
  <2>3. PoisonIsNotPassed' /\ \A o \in Offsets : topic'[o] \in Contents
    BY <1>2 DEF Inv, PoisonIsNotPassed, vars, broker
  <2> QED  BY <2>1, <2>2, <2>3 DEF Inv
<1>3. CASE Next
  BY <1>1, <1>3, SubscribeInv, AssignInv, ReceiveInv, ParseInv, LoopInv, SubmitInv, WriteInv,
     CommitInv, RestartInv, ExpelInv DEF Next, Step
<1> QED  BY <1>2, <1>3

LEMMA InvHolds == Spec => []Inv
<1> QED  BY InitInv, NextInv, PTL DEF Spec

\* No commit passes a message that could not be parsed, and the workers' slice
\* is never outgrown while one is at work: whatever messages hold, whatever
\* fails, and whoever has the partition.
THEOREM BatchesCorrect == Spec => []BatchInv
<1>1. Inv => BatchInv
  BY DEF Inv, Held, BatchInv, NeverReallocated
<1> QED  BY <1>1, InvHolds, PTL

-----------------------------------------------------------------------------
(* Nothing usable is skipped.                                              *)

LEMMA RawKept ==
  ASSUME NEW c \in Consumers, Raw(c),
         topic' = topic, committed' = committed, position'[c] = position[c],
         entries'[c] = entries[c], errors'[c] = errors[c], parsing'[c] = parsing[c]
  PROVE  Raw(c)'
  BY DEF Raw, Fatal

LEMMA CompactKept ==
  ASSUME NEW c \in Consumers, Compact(c),
         topic' = topic, committed' = committed, position'[c] = position[c],
         entries'[c] = entries[c]
  PROVE  Compact(c)'
  BY DEF Compact

\* The parts of a consumer's step.
LEMMA StepSkip ==
  ASSUME Inv, SkipInv, NEW c \in Consumers, Alone(c), written \subseteq written',
         \A d \in Consumers \ {c} : caller'[d] = caller[d],
         OnlyEmptySkipped', Owned(c)', Fresh(c)'
  PROVE  SkipInv'
<1>1. ASSUME NEW d \in Consumers \ {c} PROVE Owned(d)' /\ Fresh(d)'
  <2>1. Owned(d) /\ Fresh(d)
    BY DEF SkipInv
  <2>2. Fresh(d)'
    BY <2>1 DEF Fresh, Alone
  <2>3. ASSUME owner' = d
        PROVE  /\ (~Writing(d) \/ "empty" \notin Contents => Raw(d))'
               /\ (Writing(d) => Compact(d))'
               /\ (pc[d] = "commit" => Range(entries[d]) \subseteq written)'
    <3>1. /\ owner = d /\ topic' = topic /\ committed' = committed
          /\ position'[d] = position[d] /\ pc'[d] = pc[d]
          /\ entries'[d] = entries[d] /\ errors'[d] = errors[d] /\ parsing'[d] = parsing[d]
      BY <2>3 DEF Alone
    <3>2. ~Writing(d) \/ "empty" \notin Contents => Raw(d)'
      BY <2>1, <3>1, RawKept DEF Owned
    <3>3. Writing(d) => Compact(d)'
      BY <2>1, <3>1, CompactKept DEF Owned
    <3>4. pc[d] = "commit" => Range(entries[d]) \subseteq written
      BY <2>1, <3>1 DEF Owned
    <3>5. Writing(d)' <=> Writing(d)
      BY <3>1 DEF Writing
    <3> QED  BY <3>1, <3>2, <3>3, <3>4, <3>5
  <2> QED  BY <2>2, <2>3 DEF Owned
<1> QED  BY <1>1 DEF SkipInv

\* What was committed stays so.
LEMMA SkippedKept ==
  ASSUME SkipInv, topic' = topic, committed' = committed, written \subseteq written'
  PROVE  OnlyEmptySkipped'
  BY DEF SkipInv, OnlyEmptySkipped

\* A step that changes nothing of a batch, and begins no write.
LEMMA MoveSkip ==
  ASSUME Inv, SkipInv, NEW c \in Consumers, KeepsOrGivesUp(c), written \subseteq written',
         UNCHANGED <<topic, committed, position, entries, errors, parsing>>,
         NEW l \in {"read", "submit", "closing", "restart"}, pc' = [pc EXCEPT ![c] = l],
         NEW k \in {"loop", "revoke", "close"}, caller' = [caller EXCEPT ![c] = k],
         Writing(c) => owner' # c \/ "empty" \notin Contents,
         l = "submit" => pc[c] = "read" \/ k = "close",
         l = "read" => pc[c] = "down" \/ (pc[c] = "submit" /\ caller[c] # "close")
  PROVE  SkipInv'
<1>1. TypeOK /\ Owned(c) /\ Fresh(c)
  BY DEF Inv, SkipInv
<1>2. /\ \A d \in Consumers \ {c} : (d \in assigned' <=> d \in assigned) /\ (owner' = d <=> owner = d)
      /\ owner' = c => owner = c
  BY <1>1, GivenUp
<1>3. /\ pc'[c] = l /\ caller'[c] = k
      /\ \A d \in Consumers \ {c} : pc'[d] = pc[d] /\ caller'[d] = caller[d]
  BY <1>1 DEF TypeOK
<1>4. Alone(c)
  BY <1>2, <1>3 DEF Alone
<1>5. Owned(c)'
  <2>1. ASSUME owner' = c PROVE Raw(c)'
    <3>1. Raw(c)
      BY <1>1, <1>2, <2>1 DEF Owned
    <3> QED  BY <3>1, RawKept
  <2>2. ~Writing(c)'
    BY <1>3 DEF Writing
  <2> QED  BY <2>1, <2>2 DEF Owned, Writing
<1>6. Fresh(c)'
  BY <1>1, <1>3 DEF Fresh
<1> QED  BY <1>3, <1>4, <1>5, <1>6, StepSkip, SkippedKept

LEMMA InitSkip == Init => SkipInv
  BY KafkaBatchAssumption DEF Init, SkipInv, OnlyEmptySkipped, Owned, Fresh

LEMMA AssignSkip ==
  ASSUME Inv, SkipInv, NEW c \in Consumers, Assign(c)
  PROVE  SkipInv'
<1>1. /\ pc[c] = "read" /\ c \notin assigned /\ owner = NoConsumer /\ owner' = c
      /\ assigned' = assigned \cup {c}
      /\ position' = [position EXCEPT ![c] = committed]
      /\ UNCHANGED <<topic, committed, written, row, entries, errors, parsing, pc, caller, faults>>
      /\ Held(c) /\ Fresh(c)
  BY DEF Assign, ResumeAt, database, batch, Inv, SkipInv
<1>2. position'[c] = committed /\ \A d \in Consumers \ {c} : position'[d] = position[d]
  BY <1>1 DEF Inv, TypeOK
<1>3. Alone(c)
  BY <1>1, <1>2, KafkaBatchAssumption DEF Alone
<1>4. entries[c] = <<>> /\ parsing[c] = {} /\ errors[c] = {} /\ Len(<<>>) = 0 /\ DOMAIN <<>> = {}
      /\ committed \in Nat
  BY <1>1, KafkaBatchAssumption DEF Held, Fresh, Inv, TypeOK
<1>5. Raw(c)'
  BY <1>1, <1>2, <1>4 DEF Raw
<1>6. Owned(c)'
  BY <1>1, <1>5 DEF Owned, Writing
<1>7. Fresh(c)'
  BY <1>1 DEF Fresh
<1> QED  BY <1>1, <1>3, <1>6, <1>7, StepSkip, SkippedKept

LEMMA ReceiveSkip ==
  ASSUME Inv, SkipInv, NEW c \in Consumers, ReceiveMessage(c)
  PROVE  SkipInv'
<1> USE KafkaBatchAssumption
<1>0. PICK X, s : X = 0 .. N /\ s \in Seq(X) /\ s = entries[c]
  BY DEF Inv, TypeOK
<1>1. PICK n \in Nat, x \in Nat : n = Len(s) /\ x = position[c]
  <2>1. position[c] \in Nat
    BY DEF Inv, TypeOK
  <2>2. Len(s) \in Nat
    BY ONLY <1>0
  <2> QED  BY <2>1, <2>2
<1>2. /\ pc[c] = "read" /\ c \in assigned /\ x < N
      /\ position' = [position EXCEPT ![c] = x + 1]
      /\ entries' = [entries EXCEPT ![c] = Append(s, Blank)]
      /\ parsing' = [parsing EXCEPT ![c] = parsing[c] \cup {<<x + 1, n + 1>>}]
      /\ UNCHANGED <<topic, committed, owner, written, row, assigned, errors, faults>>
  BY <1>0, <1>1 DEF ReceiveMessage, broker, database
<1>3. /\ pc'[c] \in {"read", "submit"}
      /\ \A d \in Consumers \ {c} : pc'[d] = pc[d] /\ caller'[d] = caller[d]
  BY <1>2 DEF ReceiveMessage, SubmitFromLoop, Goto, Inv, TypeOK
<1>4. PICK t : t = Append(s, Blank)
  OBVIOUS
<1>5. /\ Len(t) = n + 1 /\ t # <<>> /\ DOMAIN t = 1 .. n + 1 /\ DOMAIN s = 1 .. n
      /\ \A i \in 1 .. n : t[i] = s[i]
      /\ t[n + 1] = Blank
  <2>1. PICK z : z = Blank /\ z \in X
    BY <1>0 DEF Blank
  <2>2. Len(t) = n + 1 /\ DOMAIN t = 1 .. n + 1 /\ DOMAIN s = 1 .. n
    BY <1>0, <1>1, <1>4, <2>1
  <2>3. (\A i \in 1 .. n : t[i] = s[i]) /\ t[n + 1] = z
    BY <1>0, <1>1, <1>4, <2>1
  <2>4. t # <<>>
    BY <1>1, <2>2
  <2> QED  BY <2>1, <2>2, <2>3, <2>4
<1>6. /\ position'[c] = x + 1 /\ entries'[c] = t /\ parsing'[c] = parsing[c] \cup {<<x + 1, n + 1>>}
      /\ \A d \in Consumers \ {c} : /\ position'[d] = position[d] /\ entries'[d] = entries[d]
                                    /\ parsing'[d] = parsing[d]
  BY <1>2, <1>4 DEF Inv, TypeOK
<1>7. Alone(c)
  BY <1>2, <1>3, <1>6 DEF Alone
<1>8. ASSUME owner = c PROVE Raw(c)'
  <2>1. Raw(c)
    BY <1>2, <1>8 DEF SkipInv, Owned, Writing
  <2>2. x = committed + n /\ x + 1 = committed + (n + 1)
    <3>1. committed \in Nat /\ x = committed + n
      BY <1>0, <1>1, <2>1 DEF Raw, Inv, TypeOK
    <3> QED  BY <1>1, <3>1
  <2>3. \A i \in 1 .. n + 1 : i \in 1 .. n \/ i = n + 1
    BY <1>1
  <2>4. \A i \in 1 .. n + 1 :
           /\ \/ t[i] = committed + i
              \/ t[i] = Blank /\ <<committed + i, i>> \in parsing'[c]
              \/ t[i] = Blank /\ topic[committed + i] # "usable"
           /\ topic[committed + i] # "usable" =>
                 <<committed + i, i>> \in parsing'[c] \/ <<i, Fatal(committed + i)>> \in errors[c]
    <3> SUFFICES ASSUME NEW i \in 1 .. n + 1
                 PROVE  /\ \/ t[i] = committed + i
                           \/ t[i] = Blank /\ <<committed + i, i>> \in parsing'[c]
                           \/ t[i] = Blank /\ topic[committed + i] # "usable"
                        /\ topic[committed + i] # "usable" =>
                              \/ <<committed + i, i>> \in parsing'[c]
                              \/ <<i, Fatal(committed + i)>> \in errors[c]
      OBVIOUS
    <3>1. CASE i \in 1 .. n
      BY <1>0, <1>1, <1>5, <1>6, <2>1, <3>1 DEF Raw
    <3>2. CASE i = n + 1
      BY <1>5, <1>6, <2>2, <3>2
    <3> QED  BY <2>3, <3>1, <3>2
  <2>5. \A v \in parsing'[c] : v[2] \in 1 .. n + 1 /\ v[1] = committed + v[2]
    <3>1. \A v \in parsing[c] : v[2] \in 1 .. n + 1 /\ v[1] = committed + v[2]
      BY <1>0, <1>1, <1>5, <2>1 DEF Raw
    <3>2. ASSUME NEW v, v = <<x + 1, n + 1>> PROVE v[2] \in 1 .. n + 1 /\ v[1] = committed + v[2]
      BY <1>1, <2>2, <3>2
    <3> QED  BY <1>6, <3>1, <3>2
  <2>6. \A e \in errors[c] : /\ e[1] \in 1 .. n + 1 /\ e[2] = Fatal(committed + e[1])
                             /\ topic[committed + e[1]] # "usable"
    BY <1>0, <1>1, <1>5, <2>1 DEF Raw
  <2> QED  BY <1>2, <1>5, <1>6, <2>2, <2>4, <2>5, <2>6 DEF Raw, Fatal
<1>9. Owned(c)' /\ Fresh(c)'
  BY <1>2, <1>3, <1>5, <1>6, <1>8 DEF Owned, Fresh, Writing
<1> QED  BY <1>2, <1>3, <1>7, <1>9, StepSkip, SkippedKept

\* An element of a sequence is replaced.
LEMMA Replaced ==
  ASSUME NEW X, NEW s \in Seq(X), NEW i, NEW x \in X, NEW t, t = [s EXCEPT ![i] = x]
  PROVE  /\ Len(t) = Len(s) /\ DOMAIN t = DOMAIN s
         /\ \A j \in DOMAIN s : t[j] = IF j = i THEN x ELSE s[j]
<1>1. PICK n \in Nat : n = Len(s) /\ s \in [1 .. n -> X]
  <2>1. Len(s) \in Nat /\ s \in [1 .. Len(s) -> X]
    OBVIOUS
  <2> QED  BY <2>1
<1>2. t \in [1 .. n -> X] /\ \A j \in 1 .. n : t[j] = IF j = i THEN x ELSE s[j]
  BY <1>1
<1>3. t \in Seq(X) /\ Len(t) = n
  BY ONLY <1>2, n \in Nat
<1> QED  BY <1>1, <1>2, <1>3

LEMMA ParseSkip ==
  ASSUME Inv, SkipInv, NEW c \in Consumers, Parse(c)
  PROVE  SkipInv'
<1> USE KafkaBatchAssumption
<1>1. PICK w \in parsing[c] :
         /\ parsing' = [parsing EXCEPT ![c] = parsing[c] \ {w}]
         /\ \/ /\ topic[w[1]] = "usable"
               /\ entries' = [entries EXCEPT ![c][w[2]] = w[1]]
               /\ errors' = errors
            \/ /\ topic[w[1]] # "usable"
               /\ errors' = [errors EXCEPT ![c] = errors[c] \cup {<<w[2], Fatal(w[1])>>}]
               /\ entries' = entries
         /\ UNCHANGED <<topic, committed, owner, written, row, assigned, position, pc, caller, faults>>
  BY DEF Parse, broker, database
<1>2. TypeOK /\ Held(c) /\ Owned(c) /\ w[1] \in Offsets /\ w[2] \in Offsets /\ w = <<w[1], w[2]>>
  BY DEF Inv, SkipInv, TypeOK
<1>3. PICK X, s : X = 0 .. N /\ s \in Seq(X) /\ s = entries[c] /\ w[1] \in X
  BY <1>2 DEF TypeOK, Offsets
<1>4. PICK t : /\ entries'[c] = t /\ Len(t) = Len(s) /\ DOMAIN t = DOMAIN s
               /\ IF topic[w[1]] = "usable"
                  THEN \A i \in DOMAIN s : t[i] = IF i = w[2] THEN w[1] ELSE s[i]
                  ELSE t = s
  <2>1. CASE topic[w[1]] = "usable"
    <3>1. PICK t : t = [s EXCEPT ![w[2]] = w[1]]
      OBVIOUS
    <3>2. entries'[c] = t
      BY <1>1, <1>2, <1>3, <2>1, <3>1 DEF TypeOK
    <3>3. s \in Seq(X) /\ w[1] \in X
      BY <1>3
    <3>4. /\ Len(t) = Len(s) /\ DOMAIN t = DOMAIN s
          /\ \A i \in DOMAIN s : t[i] = IF i = w[2] THEN w[1] ELSE s[i]
      BY ONLY <3>1, <3>3, Replaced
    <3> QED  BY <2>1, <3>2, <3>4
  <2>2. CASE topic[w[1]] # "usable"
    BY <1>1, <1>3, <2>2
  <2> QED  BY <2>1, <2>2
<1>5. PICK e : /\ errors'[c] = e
               /\ e = IF topic[w[1]] = "usable" THEN errors[c]
                      ELSE errors[c] \cup {<<w[2], Fatal(w[1])>>}
  BY <1>1, <1>2 DEF TypeOK
<1>6. /\ parsing'[c] = parsing[c] \ {w}
      /\ \A d \in Consumers \ {c} : /\ parsing'[d] = parsing[d] /\ entries'[d] = entries[d]
                                    /\ errors'[d] = errors[d]
  BY <1>1, <1>2 DEF TypeOK
<1>7. Alone(c)
  BY <1>1, <1>6 DEF Alone
<1>8. ~Writing(c) /\ s # <<>> /\ t # <<>>
  <2>1. ~Writing(c) /\ s # <<>>
    BY <1>1, <1>2, <1>3 DEF Held, Writing
  <2>2. Len(s) # 0
    BY ONLY <1>3, <2>1
  <2>3. Len(<<>>) = 0
    OBVIOUS
  <2> QED  BY <1>4, <2>1, <2>2, <2>3
<1>9. ASSUME owner = c PROVE Raw(c)'
  <2>1. Raw(c)
    BY <1>2, <1>8, <1>9 DEF Owned
  <2>2. w[2] \in DOMAIN s /\ w[1] = committed + w[2]
    BY <1>3, <2>1 DEF Raw
  <2>3. \A i \in DOMAIN s : <<committed + i, i>> = w <=> i = w[2]
    BY <1>2, <2>2
  <2>4. ASSUME NEW i \in DOMAIN s
        PROVE  /\ \/ t[i] = committed + i
                  \/ t[i] = Blank /\ <<committed + i, i>> \in parsing'[c]
                  \/ t[i] = Blank /\ topic[committed + i] # "usable"
               /\ topic[committed + i] # "usable" =>
                     <<committed + i, i>> \in parsing'[c] \/ <<i, Fatal(committed + i)>> \in e
    <3>1. /\ \/ s[i] = committed + i
             \/ s[i] = Blank /\ <<committed + i, i>> \in parsing[c]
             \/ s[i] = Blank /\ topic[committed + i] # "usable"
          /\ topic[committed + i] # "usable" =>
                <<committed + i, i>> \in parsing[c] \/ <<i, Fatal(committed + i)>> \in errors[c]
      BY <1>3, <2>1 DEF Raw
    <3>2. CASE i = w[2]
      BY <1>4, <1>5, <2>2, <3>1, <3>2
    <3>3. CASE i # w[2]
      <4>1. t[i] = s[i] /\ errors[c] \subseteq e
        BY <1>4, <1>5, <3>3
      <4>2. <<committed + i, i>> \in parsing[c] => <<committed + i, i>> \in parsing'[c]
        BY <1>6, <2>3, <3>3
      <4> QED  BY <3>1, <4>1, <4>2
    <3> QED  BY <3>2, <3>3
  <2>5. \A f \in e : /\ f[1] \in DOMAIN s /\ f[2] = Fatal(committed + f[1])
                     /\ topic[committed + f[1]] # "usable"
    <3>1. \A f \in errors[c] : /\ f[1] \in DOMAIN s /\ f[2] = Fatal(committed + f[1])
                               /\ topic[committed + f[1]] # "usable"
      BY <1>3, <2>1 DEF Raw
    <3>2. ASSUME topic[w[1]] # "usable", NEW f, f = <<w[2], Fatal(w[1])>>
          PROVE  /\ f[1] \in DOMAIN s /\ f[2] = Fatal(committed + f[1])
                 /\ topic[committed + f[1]] # "usable"
      BY <2>2, <3>2
    <3> QED  BY <1>5, <3>1, <3>2
  <2>6. \A v \in parsing'[c] : v[2] \in DOMAIN s /\ v[1] = committed + v[2]
    BY <1>3, <1>6, <2>1 DEF Raw
  <2>7. position[c] = committed + Len(t)
    BY <1>3, <1>4, <2>1 DEF Raw
  <2> QED  BY <1>1, <1>4, <1>5, <2>4, <2>5, <2>6, <2>7 DEF Raw, Fatal
<1>10. Owned(c)' /\ Fresh(c)'
  BY <1>1, <1>4, <1>8, <1>9 DEF Owned, Fresh, Writing
<1> QED  BY <1>1, <1>7, <1>10, StepSkip, SkippedKept

LEMMA LoopSkip ==
  ASSUME Inv, SkipInv, NEW c \in Consumers,
         Subscribe(c) \/ Revoke(c) \/ ReadTimeout(c) \/ ReadError(c) \/ Close(c)
  PROVE  SkipInv'
<1>1. UNCHANGED <<topic, committed, written, position, entries, errors, parsing>> /\ ~Writing(c)
  BY DEF Subscribe, Revoke, ReadTimeout, ReadError, Close, broker, database, batch, Writing
<1>2. KeepsOrGivesUp(c)
  BY DEF Subscribe, Revoke, ReadTimeout, ReadError, Close, broker, KeepsOrGivesUp
<1>3. caller = [caller EXCEPT ![c] = caller[c]] /\ caller[c] \in {"loop", "revoke", "close"}
  BY DEF Inv, TypeOK
<1>4. \E l \in {"read", "submit", "closing", "restart"}, k \in {"loop", "revoke", "close"} :
         /\ pc' = [pc EXCEPT ![c] = l] /\ caller' = [caller EXCEPT ![c] = k]
         /\ l = "submit" => pc[c] = "read" \/ k = "close"
         /\ l = "read" => pc[c] = "down"
  <2>1. CASE Subscribe(c) \/ ReadError(c)
    BY <1>3, <2>1 DEF Subscribe, ReadError, Goto
  <2>2. CASE Revoke(c) \/ ReadTimeout(c)
    BY <2>2 DEF Revoke, ReadTimeout, SubmitFromLoop, Goto
  <2>3. CASE Close(c)
    BY <1>3, <2>3 DEF Close, Goto
  <2> QED  BY <2>1, <2>2, <2>3
<1> QED  BY <1>1, <1>2, <1>4, MoveSkip

LEMMA ForgetSkip ==
  ASSUME Inv, SkipInv, NEW c \in Consumers, Forget(c)
  PROVE  SkipInv'
<1>1. /\ TypeOK /\ pc' = [pc EXCEPT ![c] = "down"]
      /\ entries' = [entries EXCEPT ![c] = <<>>] /\ errors' = [errors EXCEPT ![c] = {}]
      /\ parsing' = [parsing EXCEPT ![c] = {}] /\ GiveUp(c) /\ KeepsOrGivesUp(c)
      /\ UNCHANGED <<topic, committed, written, row, position, caller>>
  BY DEF Inv, Forget, Goto, Reset, database, KeepsOrGivesUp
<1>2. /\ \A d \in Consumers \ {c} : (d \in assigned' <=> d \in assigned) /\ (owner' = d <=> owner = d)
      /\ owner' # c
  BY <1>1, GivenUp
<1>3. /\ errors'[c] = {}
      /\ \A d \in Consumers \ {c} : /\ pc'[d] = pc[d] /\ entries'[d] = entries[d]
                                    /\ errors'[d] = errors[d] /\ parsing'[d] = parsing[d]
  BY <1>1 DEF TypeOK
<1>4. Alone(c)
  BY <1>1, <1>2, <1>3 DEF Alone
<1>5. Owned(c)' /\ Fresh(c)'
  BY <1>2, <1>3 DEF Owned, Fresh
<1> QED  BY <1>1, <1>4, <1>5, StepSkip, SkippedKept

\* What compaction takes out of a batch that is all of what was delivered.
LEMMA RawCompacts ==
  ASSUME Inv, NEW c \in Consumers, Compacts(c), Raw(c)
  PROVE  Compact(c)' /\ ("empty" \notin Contents => Raw(c)')
<1> USE KafkaBatchAssumption
<1>1. TypeOK /\ parsing[c] = {} /\ \A e \in errors[c] : ~e[2]
  BY DEF Inv, Compacts
<1>2. PICK X, s, F, t : /\ X = 0 .. N /\ s = entries[c] /\ s \in Seq(X) /\ F = Failed(c)
                        /\ t = Without(s, F) /\ entries' = [entries EXCEPT ![c] = t]
  BY <1>1 DEF Compacts, TypeOK
<1>3. /\ \A i \in DOMAIN s \ F : \E l \in DOMAIN t : t[l] = s[i]
      /\ \A l, m \in DOMAIN t : l < m =>
            \E i, j \in DOMAIN s \ F : i < j /\ t[l] = s[i] /\ t[m] = s[j]
      /\ \A l \in DOMAIN t : \E i \in DOMAIN s \ F : t[l] = s[i]
  <2>1. s \in Seq(X) /\ t = Without(s, F)
    BY <1>2
  <2>2. \A i \in DOMAIN s \ F : \E l \in DOMAIN t : t[l] = s[i]
    BY ONLY <2>1, Compacted
  <2>3. \A l, m \in DOMAIN t : l < m =>
            \E i, j \in DOMAIN s \ F : i < j /\ t[l] = s[i] /\ t[m] = s[j]
    BY ONLY <2>1, Compacted
  <2>4. \A l \in DOMAIN t : \E i \in DOMAIN s \ F : t[l] = s[i]
    BY ONLY <2>1, Compacted
  <2> QED  BY <2>2, <2>3, <2>4
<1>4. PICK n \in Nat : n = Len(s) /\ DOMAIN s = 1 .. n
  <2>1. Len(s) \in Nat /\ DOMAIN s = 1 .. Len(s)
    BY ONLY <1>2
  <2> QED  BY <2>1
<1>5. PICK a \in Nat, b \in 0 .. N : a = committed /\ b = position[c] /\ b = a + n
  <2>1. committed \in Nat /\ position[c] \in 0 .. N
    BY <1>1 DEF TypeOK
  <2>2. position[c] = committed + n
    BY <1>2, <1>4 DEF Raw
  <2> QED  BY <2>1, <2>2
<1>6. /\ entries'[c] = t
      /\ UNCHANGED <<topic, committed, position, errors, parsing>>
  BY <1>1, <1>2 DEF Compacts, TypeOK
<1>7. \A i \in 1 .. n : topic[a + i] = "usable" <=> i \notin F
  <2> SUFFICES ASSUME NEW i \in 1 .. n PROVE topic[a + i] = "usable" <=> i \notin F
    OBVIOUS
  <2>1. ASSUME topic[a + i] # "usable" PROVE i \in F
    <3>1. PICK e \in errors[c] : e = <<i, Fatal(a + i)>>
      BY <1>1, <1>2, <1>4, <1>5, <2>1 DEF Raw
    <3>2. e[1] = i
      BY <3>1
    <3> QED  BY <1>2, <3>2 DEF Failed
  <2>2. ASSUME i \in F PROVE topic[a + i] # "usable"
    <3>1. PICK e \in errors[c] : e[1] = i
      BY <1>2, <2>2 DEF Failed
    <3> QED  BY <1>5, <3>1 DEF Raw
  <2> QED  BY <2>1, <2>2
<1>8. \A i \in DOMAIN s \ F : i \in 1 .. n /\ s[i] = a + i
  BY <1>1, <1>2, <1>4, <1>5, <1>7 DEF Raw
<1>9. Compact(c)'
  <2>1. ASSUME NEW o \in a + 1 .. b, topic[o] = "usable" PROVE \E l \in DOMAIN t : t[l] = o
    <3>1. PICK i \in 1 .. n : o = a + i
      <4>1. o - a \in 1 .. n /\ o = a + (o - a)
        BY <1>5
      <4> QED  BY <4>1
    <3>2. i \in DOMAIN s \ F
      BY <1>4, <1>7, <2>1, <3>1
    <3> QED  BY <1>3, <1>8, <3>1, <3>2
  <2>2. ASSUME NEW l \in DOMAIN t PROVE t[l] \in a + 1 .. b
    <3>1. PICK i \in DOMAIN s \ F : t[l] = s[i]
      BY <1>3
    <3>2. i \in 1 .. n /\ t[l] = a + i
      BY <1>8, <3>1
    <3> QED  BY <1>5, <3>2
  <2>3. ASSUME NEW l \in DOMAIN t, NEW m \in DOMAIN t, l < m PROVE t[l] < t[m]
    <3>1. PICK i \in DOMAIN s \ F, j \in DOMAIN s \ F : i < j /\ t[l] = s[i] /\ t[m] = s[j]
      BY <1>3, <2>3
    <3>2. i \in 1 .. n /\ j \in 1 .. n /\ t[l] = a + i /\ t[m] = a + j
      BY <1>8, <3>1
    <3> QED  BY <3>1, <3>2
  <2>4. \A o \in a + 1 .. b : topic[o] = "usable" => o \in Range(t)
    BY <2>1 DEF Range
  <2> QED  BY <1>5, <1>6, <2>2, <2>3, <2>4 DEF Compact
<1>10. ASSUME "empty" \notin Contents PROVE Raw(c)'
  <2>1. F = {}
    <3>1. \A o \in Offsets : topic[o] # "usable" => topic[o] = "poison"
      BY <1>1, <1>10 DEF TypeOK, Inv
    <3>2. ASSUME NEW e \in errors[c] PROVE FALSE
      <4>1. e[1] \in 1 .. n /\ e[2] = Fatal(a + e[1]) /\ topic[a + e[1]] # "usable"
        BY <1>2, <1>4, <1>5 DEF Raw
      <4>2. a + e[1] \in Offsets
        BY <1>5, <4>1 DEF Offsets
      <4> QED  BY <1>1, <3>1, <4>1, <4>2 DEF Fatal
    <3> QED  BY <1>2, <3>2 DEF Failed
  <2>2. s \in Seq(X)
    BY <1>2
  <2>3. Without(s, {}) = s
    BY ONLY <2>2, NothingTakenOut
  <2>4. entries'[c] = entries[c]
    BY <1>2, <1>6, <2>1, <2>3
  <2> QED  BY <1>6, <2>4, RawKept
<1> QED  BY <1>9, <1>10

LEMMA SubmitSkip ==
  ASSUME Inv, SkipInv, NEW c \in Consumers, Submit(c)
  PROVE  SkipInv'
<1>1. TypeOK /\ pc[c] = "submit" /\ Owned(c)
  BY Submits DEF Inv, SkipInv
<1>2. caller = [caller EXCEPT ![c] = caller[c]] /\ caller[c] \in {"loop", "revoke", "close"}
  BY <1>1 DEF TypeOK
<1>3. ~Writing(c)
  BY <1>1 DEF Writing
<1>4. CASE Compacts(c)
  <2>1. /\ topic' = topic /\ committed' = committed /\ owner' = owner /\ written' = written
        /\ pc'[c] = "write" /\ caller' = caller
        /\ \A d \in Consumers \ {c} : pc'[d] = pc[d] /\ entries'[d] = entries[d]
    BY <1>1, <1>4 DEF Compacts, TypeOK
  <2>2. Alone(c)
    BY <1>4, <2>1 DEF Alone, Compacts
  <2>3. ASSUME owner = c PROVE Compact(c)' /\ ("empty" \notin Contents => Raw(c)')
    <3>1. Raw(c)
      BY <1>1, <1>3, <2>3 DEF Owned
    <3> QED  BY <1>4, <3>1, RawCompacts
  <2>4. Owned(c)' /\ Fresh(c)'
    BY <2>1, <2>3 DEF Owned, Fresh, Writing
  <2> QED  BY <2>1, <2>2, <2>4, StepSkip, SkippedKept
<1>5. CASE Forget(c) /\ NoFault
  BY <1>5, ForgetSkip
<1>6. CASE /\ entries[c] = <<>> /\ SubmitReturns(c)
           /\ UNCHANGED <<topic, committed, written, row, position, entries, errors, parsing,
                          caller, faults>>
  <2>1. KeepsOrGivesUp(c)
    BY <1>1, <1>6, SubmitEnds
  <2>2. \E l \in {"read", "restart"} :
           pc' = [pc EXCEPT ![c] = l] /\ (l = "read" => caller[c] # "close")
    BY <1>2, <1>6 DEF SubmitReturns, Goto
  <2> QED  BY <1>1, <1>2, <1>3, <1>6, <2>1, <2>2, MoveSkip
<1>7. CASE /\ SubmitFails(c)
           /\ UNCHANGED <<topic, committed, written, row, position, entries, errors, parsing,
                          caller, faults>>
  <2>1. KeepsOrGivesUp(c) /\ \E l \in {"closing", "restart"} : pc' = [pc EXCEPT ![c] = l]
    BY <1>1, <1>7, SubmitEnds
  <2> QED  BY <1>2, <1>3, <1>7, <2>1, MoveSkip
<1> QED  BY <1>1, <1>4, <1>5, <1>6, <1>7, Submits

LEMMA WriteSkip ==
  ASSUME Inv, SkipInv, Clean, NEW c \in Consumers, WriteBatch(c)
  PROVE  SkipInv'
<1>1. /\ TypeOK /\ pc[c] = "write" /\ KeepsOrGivesUp(c) /\ Owned(c) /\ written \subseteq written'
      /\ UNCHANGED <<topic, committed, position, entries, errors, parsing, caller>>
  BY Writes DEF Inv, SkipInv, Store
<1>2. caller = [caller EXCEPT ![c] = caller[c]] /\ caller[c] \in {"loop", "revoke", "close"}
  BY <1>1 DEF TypeOK
<1>3. CASE Store(c) /\ pc' = [pc EXCEPT ![c] = "commit"] /\ UNCHANGED <<assigned, owner>>
  <2>1. pc'[c] = "commit" /\ \A d \in Consumers \ {c} : pc'[d] = pc[d]
    BY <1>1, <1>3 DEF TypeOK
  <2>2. Alone(c)
    BY <1>1, <1>3, <2>1 DEF Alone
  <2>3. ASSUME owner = c
        PROVE  /\ "empty" \notin Contents => Raw(c)'
               /\ Compact(c)' /\ Range(entries[c]) \subseteq written'
    <3>1. Compact(c) /\ ("empty" \notin Contents => Raw(c))
      BY <1>1, <2>3 DEF Owned, Writing
    <3>2. Compact(c)' /\ ("empty" \notin Contents => Raw(c)')
      BY <1>1, <3>1, CompactKept, RawKept
    <3>3. \A i \in DOMAIN entries[c] : entries[c][i] # Blank
      BY <1>1, <3>1 DEF Compact, Blank, TypeOK
    <3>4. Range(entries[c]) \subseteq written'
      BY <1>3, <3>3 DEF Store, Range
    <3> QED  BY <3>2, <3>4
  <2>4. Owned(c)'
    BY <1>1, <1>3, <2>1, <2>3 DEF Owned, Writing
  <2>5. Fresh(c)'
    BY <2>1 DEF Fresh
  <2> QED  BY <1>1, <2>2, <2>4, <2>5, StepSkip, SkippedKept
<1>4. CASE /\ "write" \in Faults
           /\ \E l \in {"closing", "restart"} :
                 pc' = [pc EXCEPT ![c] = l] /\ (l = "restart" => GiveUp(c))
  <2>1. "empty" \notin Contents
    BY <1>4 DEF Clean
  <2> QED  BY <1>1, <1>2, <1>4, <2>1, MoveSkip
<1> QED  BY <1>1, <1>3, <1>4, Writes

LEMMA CommitSkip ==
  ASSUME Inv, SkipInv, Clean, NEW c \in Consumers, Commit(c)
  PROVE  SkipInv'
<1>1. /\ TypeOK /\ Held(c) /\ pc[c] = "commit" /\ KeepsOrGivesUp(c) /\ Owned(c)
      /\ UNCHANGED <<topic, written, position, parsing, caller>>
  BY Commits DEF Inv, SkipInv
<1>2. caller = [caller EXCEPT ![c] = caller[c]] /\ caller[c] \in {"loop", "revoke", "close"}
  BY <1>1 DEF TypeOK
<1>3. /\ \A d \in Consumers \ {c} : (d \in assigned' <=> d \in assigned) /\ (owner' = d <=> owner = d)
      /\ owner' = c => owner = c
  BY <1>1, GivenUp
<1>4. CASE /\ owner # c \/ "commit" \in Faults
           /\ UNCHANGED <<committed, entries, errors>>
           /\ \E l \in {"closing", "restart"} :
                 pc' = [pc EXCEPT ![c] = l] /\ (l = "restart" => GiveUp(c))
  <2>1. owner' # c \/ "empty" \notin Contents
    BY <1>3, <1>4 DEF Clean
  <2> QED  BY <1>1, <1>2, <1>4, <2>1, MoveSkip
<1>5. ASSUME owner = c, committed' = position[c],
             entries' = [entries EXCEPT ![c] = <<>>], errors' = [errors EXCEPT ![c] = {}],
             NEW l \in {"read", "restart"}, pc' = [pc EXCEPT ![c] = l]
      PROVE  SkipInv'
  <2>1. /\ pc'[c] = l /\ entries'[c] = <<>> /\ errors'[c] = {}
        /\ \A d \in Consumers \ {c} : /\ pc'[d] = pc[d] /\ entries'[d] = entries[d]
                                      /\ errors'[d] = errors[d]
    BY <1>1, <1>5 DEF TypeOK
  <2>2. Alone(c)
    BY <1>1, <1>3, <1>5, <2>1 DEF Alone
  <2>3. OnlyEmptySkipped'
    <3>1. Compact(c) /\ Range(entries[c]) \subseteq written
      BY <1>1, <1>5 DEF Owned, Writing
    <3>2. \A o \in committed + 1 .. position[c] : topic[o] = "usable" => o \in written
      BY <3>1 DEF Compact
    <3>3. \A o \in 1 .. position[c] : o \in 1 .. committed \/ o \in committed + 1 .. position[c]
      BY <1>1 DEF TypeOK
    <3> QED  BY <1>1, <1>5, <3>2, <3>3 DEF OnlyEmptySkipped, SkipInv
  <2>4. Raw(c)'
    <3>1. Len(<<>>) = 0 /\ DOMAIN <<>> = {} /\ position[c] = position[c] + 0
      BY <1>1 DEF TypeOK
    <3>2. parsing[c] = {}
      BY <1>1 DEF Held
    <3> QED  BY <1>1, <1>5, <2>1, <3>1, <3>2 DEF Raw
  <2>5. Owned(c)' /\ Fresh(c)'
    BY <2>1, <2>4 DEF Owned, Fresh, Writing
  <2> QED  BY <1>1, <2>2, <2>3, <2>5, StepSkip
<1> QED  BY <1>1, <1>4, <1>5, Commits

LEMMA RestartSkip ==
  ASSUME Inv, SkipInv, NEW c \in Consumers, Restart(c)
  PROVE  SkipInv'
<1>1. /\ TypeOK /\ pc[c] = "restart" /\ owner # c
      /\ pc' = [pc EXCEPT ![c] = "down"]
      /\ entries' = [entries EXCEPT ![c] = <<>>] /\ errors' = [errors EXCEPT ![c] = {}]
      /\ UNCHANGED <<topic, committed, owner, written, assigned, position, parsing, caller>>
  BY DEF Inv, Held, Restart, Goto, Reset, broker, database
<1>2. /\ errors'[c] = {}
      /\ \A d \in Consumers \ {c} : /\ pc'[d] = pc[d] /\ entries'[d] = entries[d]
                                    /\ errors'[d] = errors[d]
  BY <1>1 DEF TypeOK
<1>3. Alone(c)
  BY <1>1, <1>2 DEF Alone
<1>4. Owned(c)' /\ Fresh(c)'
  BY <1>1, <1>2 DEF Owned, Fresh
<1> QED  BY <1>1, <1>3, <1>4, StepSkip, SkippedKept

LEMMA ExpelSkip ==
  ASSUME Inv, SkipInv, NEW c \in Consumers, Expel(c)
  PROVE  SkipInv'
<1>1. /\ owner' = NoConsumer /\ NoConsumer \notin Consumers /\ Fresh(c)
      /\ UNCHANGED <<topic, committed, written, assigned, position, entries, errors, parsing, pc,
                     caller>>
  BY KafkaBatchAssumption DEF Expel, database, batch, SkipInv
<1>2. Alone(c)
  BY <1>1 DEF Alone
<1>3. Owned(c)' /\ Fresh(c)'
  BY <1>1 DEF Owned, Fresh
<1> QED  BY <1>1, <1>2, <1>3, StepSkip, SkippedKept

LEMMA NextSkip == Clean /\ Inv /\ SkipInv /\ [Next]_vars => SkipInv'
<1> SUFFICES ASSUME Clean, Inv, SkipInv, [Next]_vars PROVE SkipInv'
  OBVIOUS
<1>1. CASE UNCHANGED vars
  <2>1. ASSUME NEW c \in Consumers PROVE Owned(c)' /\ Fresh(c)'
    <3>1. /\ topic' = topic /\ committed' = committed /\ position' = position /\ owner' = owner
          /\ entries' = entries /\ errors' = errors /\ parsing' = parsing /\ pc' = pc
          /\ caller' = caller /\ written' = written /\ Owned(c) /\ Fresh(c)
      BY <1>1 DEF SkipInv, vars, broker, database, batch
    <3> QED  BY <3>1, RawKept, CompactKept DEF Owned, Fresh, Writing
  <2>2. OnlyEmptySkipped'
    BY <1>1, SkippedKept DEF vars, broker, database
  <2> QED  BY <2>1, <2>2 DEF SkipInv
<1>2. CASE Next
  BY <1>2, AssignSkip, ReceiveSkip, ParseSkip, LoopSkip, SubmitSkip, WriteSkip, CommitSkip,
     RestartSkip, ForgetSkip, ExpelSkip DEF Next, Step, Crash
<1> QED  BY <1>1, <1>2

LEMMA SkipHolds == Clean => (Spec => []SkipInv)
<1> SUFFICES ASSUME Clean PROVE Spec => []SkipInv
  OBVIOUS
<1>1. Inv /\ SkipInv /\ [Next]_vars => SkipInv'
  BY NextSkip
<1> QED  BY <1>1, InitSkip, InvHolds, PTL DEF Spec

\* No commit passes a usable message that is not in the database, as long as
\* no batch is submitted again after messages with an empty nft_id were taken
\* out of it: there are none of those, or writes and commits do not fail.
THEOREM NothingUsableSkipped == Clean => (Spec => []OnlyEmptySkipped)
<1>1. SkipInv => OnlyEmptySkipped
  BY DEF SkipInv
<1> QED  BY <1>1, SkipHolds, PTL

\* Under the same condition, what was delivered to the owner and not committed
\* is in its batch, parsed or yet to be parsed, unless there is nothing in it
\* to write.
THEOREM OwnersHaveTheirMessages == Clean => (Spec => []DeliveredIsBatched)
<1>1. Inv /\ SkipInv => DeliveredIsBatched
  <2> SUFFICES ASSUME Inv, SkipInv, NEW c \in assigned, owner = c,
                      NEW o \in committed + 1 .. position[c]
               PROVE  \/ o \in Range(entries[c])
                      \/ \E w \in parsing[c] : w[1] = o
                      \/ topic[o] # "usable"
    BY DEF DeliveredIsBatched
  <2>1. c \in Consumers /\ committed \in Nat /\ position[c] \in Nat
    BY DEF Inv, TypeOK
  <2>2. CASE Writing(c)
    <3>1. Compact(c)
      BY <2>1, <2>2 DEF SkipInv, Owned
    <3> QED  BY <3>1 DEF Compact
  <2>3. CASE ~Writing(c)
    <3>1. Raw(c)
      BY <2>1, <2>3 DEF SkipInv, Owned
    <3>2. PICK X, s : X = 0 .. N /\ s \in Seq(X) /\ s = entries[c]
      BY <2>1 DEF Inv, TypeOK
    <3>3. PICK n \in Nat : n = Len(s) /\ DOMAIN s = 1 .. n
      <4>1. Len(s) \in Nat /\ DOMAIN s = 1 .. Len(s)
        BY ONLY <3>2
      <4> QED  BY <4>1
    <3>4. position[c] = committed + n
      BY <3>1, <3>2, <3>3 DEF Raw
    <3>5. PICK i \in 1 .. n : o = committed + i
      <4>1. o - committed \in 1 .. n /\ o = committed + (o - committed)
        BY <2>1, <3>4
      <4> QED  BY <4>1
    <3>6. \/ s[i] = o
          \/ <<o, i>> \in parsing[c]
          \/ topic[o] # "usable"
      BY <3>1, <3>2, <3>3, <3>5 DEF Raw
    <3>7. s[i] = o => o \in Range(s)
      BY <3>3 DEF Range
    <3> QED  BY <3>2, <3>6, <3>7
  <2> QED  BY <2>2, <2>3
<1> QED  BY <1>1, InvHolds, SkipHolds, PTL

-----------------------------------------------------------------------------
(* The database is as new as the committed offset says.                    *)

\* What one consumer does leaves the others where they are, and takes the
\* partition from none of them.
LEMMA Footprint ==
  ASSUME TypeOK, NEW c \in Consumers,
         Step(c) \/ Parse(c) \/ Revoke(c) \/ ReadError(c) \/ Crash(c)
  PROVE  /\ topic' = topic /\ (owner' # owner => owner \in {c, NoConsumer})
         /\ \A d \in Consumers \ {c} : /\ pc'[d] = pc[d] /\ position'[d] = position[d]
                                       /\ d \in assigned' <=> d \in assigned
<1>1. CASE Subscribe(c) \/ Revoke(c) \/ ReadTimeout(c) \/ ReadError(c)
  BY <1>1 DEF TypeOK, Subscribe, Revoke, ReadTimeout, ReadError, SubmitFromLoop, Goto, broker
<1>2. CASE Assign(c)
  BY <1>2 DEF TypeOK, Assign
<1>3. CASE ReceiveMessage(c)
  BY <1>3 DEF TypeOK, ReceiveMessage, SubmitFromLoop, Goto, broker
<1>4. CASE Parse(c)
  BY <1>4 DEF TypeOK, Parse, broker
<1>5. CASE Forget(c)
  BY <1>5 DEF TypeOK, Forget, Goto, GiveUp
<1>6. CASE Submit(c)
  <2>1. CASE Compacts(c)
    BY <2>1 DEF TypeOK, Compacts
  <2>2. CASE (SubmitReturns(c) \/ SubmitFails(c)) /\ UNCHANGED <<topic, position>>
    BY <2>2 DEF TypeOK, SubmitReturns, SubmitFails, Goto, GiveUp
  <2> QED  BY <1>5, <1>6, <2>1, <2>2, Submits
<1>7. CASE WriteBatch(c)
  BY <1>7 DEF TypeOK, WriteBatch, SubmitFails, Goto, GiveUp
<1>8. CASE Commit(c)
  BY <1>8 DEF TypeOK, Commit, SubmitReturns, SubmitFails, Goto, GiveUp
<1>9. CASE Close(c)
  BY <1>9 DEF TypeOK, Close, Goto, GiveUp
<1>10. CASE Restart(c)
  BY <1>10 DEF TypeOK, Restart, Goto, broker
<1> QED  BY <1>1, <1>2, <1>3, <1>4, <1>5, <1>6, <1>7, <1>8, <1>9, <1>10 DEF Step, Crash

\* The parts of a consumer's step.
LEMMA StepRow ==
  ASSUME Inv, RowInv, NEW c \in Consumers,
         Step(c) \/ Parse(c) \/ Revoke(c) \/ ReadError(c) \/ Crash(c),
         RowIsCurrent', row' = row \/ c \in assigned,
         c \in assigned' => owner' = c,
         pc'[c] \in {"submit", "write", "commit"} => c \in assigned',
         pc'[c] = "commit" => \A o \in 1 .. position'[c] : topic[o] = "usable" => row' >= o
  PROVE  RowInv'
<1>1. /\ topic' = topic /\ (owner' # owner => owner \in {c, NoConsumer})
      /\ \A d \in Consumers \ {c} : /\ pc'[d] = pc[d] /\ position'[d] = position[d]
                                    /\ d \in assigned' <=> d \in assigned
  BY Footprint DEF Inv
<1>2. assigned \subseteq Consumers /\ NoConsumer \notin Consumers
  BY KafkaBatchAssumption DEF Inv, TypeOK
<1>3. ASSUME NEW d \in Consumers \ {c}
      PROVE  /\ d \in assigned' => owner' = d
             /\ pc'[d] \in {"submit", "write", "commit"} => d \in assigned'
             /\ pc'[d] = "commit" => \A o \in 1 .. position'[d] : topic'[o] = "usable" => row' >= o
  <2>1. d \in assigned' => owner' = d
    BY <1>1, <1>2 DEF RowInv
  <2>2. pc'[d] \in {"submit", "write", "commit"} => d \in assigned'
    BY <1>1 DEF RowInv
  <2>3. ASSUME pc'[d] = "commit" PROVE row' = row
    BY <1>1, <2>3 DEF RowInv
  <2> QED  BY <1>1, <2>1, <2>2, <2>3 DEF RowInv
<1>4. \A d \in assigned' : d \in Consumers
  <2>1. Inv'
    BY NextInv DEF Next
  <2> QED  BY <2>1 DEF Inv, TypeOK
<1> QED  BY <1>1, <1>3, <1>4 DEF RowInv

\* A step that writes nothing and commits nothing.
LEMMA QuietRow ==
  ASSUME Inv, RowInv, NEW c \in Consumers,
         Step(c) \/ Parse(c) \/ Revoke(c) \/ ReadError(c) \/ Crash(c),
         UNCHANGED <<topic, committed, row>>, pc'[c] # "commit",
         c \in assigned' => owner' = c,
         pc'[c] \in {"submit", "write"} => c \in assigned'
  PROVE  RowInv'
<1>1. RowIsCurrent'
  BY DEF RowInv, RowIsCurrent
<1> QED  BY <1>1, StepRow

LEMMA LoopRow ==
  ASSUME Inv, RowInv, NEW c \in Consumers,
         \/ Subscribe(c) \/ Assign(c) \/ Revoke(c) \/ ReadTimeout(c) \/ ReadError(c)
         \/ Close(c) \/ Restart(c) \/ ReceiveMessage(c) \/ Parse(c) \/ Crash(c)
  PROVE  RowInv'
<1>1. /\ TypeOK /\ Held(c) /\ (c \in assigned => owner = c)
      /\ pc[c] \in {"submit", "write", "commit"} => c \in assigned
  BY DEF Inv, RowInv
<1>2. CASE Subscribe(c) \/ ReadError(c) \/ Restart(c)
  <2>1. /\ UNCHANGED <<topic, committed, row, owner, assigned>>
        /\ pc'[c] \in {"read", "closing", "down"}
    BY <1>1, <1>2 DEF TypeOK, Subscribe, ReadError, Restart, Goto, broker, database
  <2> QED  BY <1>1, <1>2, <2>1, QuietRow DEF Step
<1>3. CASE Assign(c)
  <2>1. UNCHANGED <<topic, committed, row, pc>> /\ owner' = c /\ pc[c] = "read"
    BY <1>3 DEF Assign, database
  <2> QED  BY <1>3, <2>1, QuietRow DEF Step
<1>4. CASE Revoke(c) \/ ReadTimeout(c) \/ ReceiveMessage(c)
  <2>1. UNCHANGED <<topic, committed, row, owner, assigned>>
    BY <1>4 DEF Revoke, ReadTimeout, ReceiveMessage, broker, database
  <2>2. pc'[c] \in {"read", "submit"} /\ c \in assigned
    BY <1>1, <1>4 DEF TypeOK, Held, Revoke, ReadTimeout, ReceiveMessage, SubmitFromLoop, Goto
  <2> QED  BY <1>1, <1>4, <2>1, <2>2, QuietRow DEF Step
<1>5. CASE Parse(c)
  <2>1. UNCHANGED <<topic, committed, row, owner, assigned, pc>>
    BY <1>5 DEF Parse, broker, database
  <2>2. pc[c] # "commit"
    BY <1>1, <1>5 DEF Parse, Held
  <2> QED  BY <1>1, <1>5, <2>1, <2>2, QuietRow
<1>6. CASE Close(c)
  <2>1. UNCHANGED <<topic, committed, row>>
    BY <1>6 DEF Close, database
  <2>2. /\ c \in assigned' => owner' = c
        /\ (pc'[c] = "submit" /\ c \in assigned') \/ pc'[c] = "restart"
    BY <1>1, <1>6 DEF TypeOK, Close, Goto, GiveUp
  <2> QED  BY <1>6, <2>1, <2>2, QuietRow DEF Step
<1>7. CASE Crash(c)
  <2>1. UNCHANGED <<topic, committed, row>> /\ c \notin assigned' /\ pc'[c] = "down"
    BY <1>1, <1>7 DEF TypeOK, Crash, Forget, Goto, GiveUp, database
  <2> QED  BY <1>7, <2>1, QuietRow
<1> QED  BY <1>2, <1>3, <1>4, <1>5, <1>6, <1>7

LEMMA SubmitRow ==
  ASSUME Inv, RowInv, NEW c \in Consumers, Submit(c)
  PROVE  RowInv'
<1>1. /\ TypeOK /\ pc[c] = "submit" /\ c \in assigned /\ owner = c
  BY Submits DEF Inv, RowInv
<1>2. CASE Compacts(c)
  <2>1. UNCHANGED <<topic, committed, row, owner, assigned>> /\ pc'[c] = "write"
    BY <1>1, <1>2 DEF Compacts, TypeOK
  <2> QED  BY <1>1, <2>1, QuietRow DEF Step
<1>3. CASE Forget(c)
  <2>1. UNCHANGED <<topic, committed, row>> /\ c \notin assigned' /\ pc'[c] = "down"
    BY <1>1, <1>3 DEF TypeOK, Forget, Goto, GiveUp, database
  <2> QED  BY <2>1, QuietRow DEF Step
<1>4. CASE (SubmitReturns(c) \/ SubmitFails(c)) /\ UNCHANGED <<topic, committed, row>>
  <2>1. (c \in assigned' => owner' = c) /\ pc'[c] \in {"read", "closing", "restart"}
    BY <1>1, <1>4 DEF TypeOK, SubmitReturns, SubmitFails, Goto, GiveUp
  <2> QED  BY <1>4, <2>1, QuietRow DEF Step
<1> QED  BY <1>1, <1>2, <1>3, <1>4, Submits

\* The last entry of a batch is the last of what it holds.
LEMMA WriteRow ==
  ASSUME Inv, SkipInv, RowInv, NEW c \in Consumers, WriteBatch(c)
  PROVE  RowInv'
<1>1. /\ TypeOK /\ pc[c] = "write" /\ c \in assigned /\ owner = c /\ Compact(c) /\ Warned(c)
      /\ UNCHANGED <<topic, committed, position, entries>>
  BY Writes DEF Inv, RowInv, SkipInv, Owned, Writing
<1>2. ASSUME Store(c)
      PROVE  \A o \in 1 .. position[c] : topic[o] = "usable" => row' >= o
  <2>1. PICK p \in Nat, q \in Nat : p = committed /\ q = position[c] /\ p <= q
    BY <1>1 DEF TypeOK, Warned
  <2>2. PICK X, s : X = 0 .. N /\ s \in Seq(X) /\ s = entries[c]
    BY <1>1 DEF TypeOK
  <2>3. PICK n \in Nat : n = Len(s) /\ DOMAIN s = 1 .. n /\ (n = 0 => s = <<>>)
    <3>1. Len(s) \in Nat /\ DOMAIN s = 1 .. Len(s) /\ (Len(s) = 0 => s = <<>>)
      BY ONLY <2>2
    <3> QED  BY <3>1
  <2>4. \A i \in 1 .. n : s[i] \in p + 1 .. q
    BY <1>1, <2>1, <2>2, <2>3 DEF Compact
  <2>5. ASSUME NEW o \in p + 1 .. q, topic[o] = "usable" PROVE n > 0 /\ row' >= o
    <3>1. PICK i \in 1 .. n : s[i] = o
      BY <1>1, <2>1, <2>2, <2>3, <2>5 DEF Compact, Range
    <3>2. n \in 1 .. n /\ s # <<>>
      BY <2>2, <2>3, <3>1
    <3>3. row' = s[n]
      BY <1>2, <2>2, <2>3, <3>2 DEF Store
    <3>4. i < n => s[i] < s[n]
      BY <1>1, <2>2, <2>3, <3>2 DEF Compact
    <3>5. s[n] \in Nat
      BY <2>1, <2>4, <3>2
    <3> QED  BY <2>1, <3>1, <3>2, <3>3, <3>4, <3>5
  <2>6. ASSUME NEW o \in 1 .. p, topic[o] = "usable" PROVE row' >= o
    <3>1. row >= o /\ row \in Nat
      BY <1>1, <2>1, <2>6 DEF RowInv, RowIsCurrent, TypeOK
    <3>2. CASE n = 0
      BY <1>2, <2>2, <2>3, <3>1, <3>2 DEF Store
    <3>3. CASE n # 0
      <4>1. s # <<>> /\ row' = s[n] /\ s[n] \in p + 1 .. q
        <5>1. s # <<>>
          <6>1. Len(<<>>) = 0
            OBVIOUS
          <6> QED  BY <2>3, <3>3, <6>1
        <5> QED  BY <1>2, <2>2, <2>3, <2>4, <3>3, <5>1 DEF Store
      <4> QED  BY <2>1, <4>1
    <3> QED  BY <3>2, <3>3
  <2>7. \A o \in 1 .. q : o \in 1 .. p \/ o \in p + 1 .. q
    BY <2>1
  <2> QED  BY <2>1, <2>5, <2>6, <2>7
<1>3. \A o \in 1 .. committed : o \in 1 .. position[c]
  BY <1>1 DEF Warned, TypeOK
<1>4. RowIsCurrent'
  <2>1. CASE Store(c)
    BY <1>1, <1>2, <1>3, <2>1 DEF RowIsCurrent
  <2>2. CASE row' = row
    BY <1>1, <2>2 DEF RowIsCurrent, RowInv
  <2> QED  BY <2>1, <2>2 DEF WriteBatch, database
<1>5. c \in assigned' => owner' = c
  BY <1>1 DEF WriteBatch, SubmitFails, GiveUp
<1>6. \/ Store(c) /\ pc'[c] = "commit" /\ c \in assigned'
      \/ pc'[c] \in {"closing", "restart"}
  BY <1>1 DEF TypeOK, WriteBatch, SubmitFails, Goto
<1> QED  BY <1>1, <1>2, <1>4, <1>5, <1>6, StepRow DEF Step

LEMMA CommitRow ==
  ASSUME Inv, RowInv, NEW c \in Consumers, Commit(c)
  PROVE  RowInv'
<1>1. /\ TypeOK /\ pc[c] = "commit" /\ c \in assigned /\ owner = c
      /\ UNCHANGED <<topic, row, position>>
  BY Commits DEF Inv, RowInv
<1>2. RowIsCurrent'
  BY <1>1 DEF Commit, RowInv, RowIsCurrent
<1>3. c \in assigned' => owner' = c
  BY <1>1 DEF Commit, SubmitReturns, SubmitFails, GiveUp
<1>4. pc'[c] \in {"read", "closing", "restart"}
  BY <1>1 DEF TypeOK, Commit, SubmitReturns, SubmitFails, Goto
<1> QED  BY <1>1, <1>2, <1>3, <1>4, StepRow DEF Step

\* Under the same condition, and if the group takes no consumer for dead that
\* is not, the row of a token is no older than the committed offset, whatever
\* is replayed.
THEOREM RowsAreCurrent == Clean /\ "expel" \notin Faults => (Spec => []RowIsCurrent)
<1> SUFFICES ASSUME Clean, "expel" \notin Faults PROVE Spec => []RowIsCurrent
  OBVIOUS
<1>1. Init => RowInv
  BY KafkaBatchAssumption DEF Init, RowInv, RowIsCurrent
<1>2. Inv /\ SkipInv /\ RowInv /\ [Next]_vars => RowInv'
  <2> SUFFICES ASSUME Inv, SkipInv, RowInv, [Next]_vars PROVE RowInv'
    OBVIOUS
  <2>1. CASE UNCHANGED vars
    BY <2>1 DEF RowInv, RowIsCurrent, vars, broker, database
  <2>2. CASE Next
    BY <2>2, LoopRow, SubmitRow, WriteRow, CommitRow DEF Next, Step, Expel, Fault
  <2> QED  BY <2>1, <2>2
<1>3. RowInv => RowIsCurrent
  BY DEF RowInv
<1> QED  BY <1>1, <1>2, <1>3, InvHolds, SkipHolds, PTL DEF Spec

-----------------------------------------------------------------------------
(* The mirror.                                                             *)

LEMMA InitMirrors == Init => MirrorSpec!MInit
  BY KafkaBatchAssumption DEF Init, Offsets, MirrorSpec!MInit

LEMMA WriteMirrors ==
  ASSUME Inv, NEW c \in Consumers, WriteBatch(c)
  PROVE  MirrorSpec!MWrite \/ UNCHANGED <<topic, written, committed>>
<1>1. UNCHANGED <<topic, committed>> /\ TypeOK /\ Held(c)
  BY Writes DEF Inv
<1>2. CASE Store(c)
  <2>1. PICK S : S = Range(entries[c]) \ {Blank}
    OBVIOUS
  <2>2. S \subseteq Offsets
    <3>1. written' = written \cup S /\ \A o \in S : \E i \in DOMAIN entries[c] : o = entries[c][i]
      BY <1>2, <2>1 DEF Store, Range
    <3>2. PICK X, s : X = 0 .. N /\ s \in Seq(X) /\ s = entries[c]
      BY <1>1 DEF TypeOK
    <3>3. \A i \in DOMAIN s : s[i] \in X
      <4>1. s \in Seq(X)
        BY <3>2
      <4> QED  BY ONLY <4>1
    <3> QED  BY <2>1, <3>1, <3>2, <3>3, KafkaBatchAssumption DEF Blank, Offsets
  <2>3. \A o \in S : topic[o] = "usable"
    BY <1>1, <2>1 DEF Held, Range
  <2>4. S \in SUBSET {o \in 1 .. N : topic[o] = "usable"} /\ written' = written \cup S
    BY <1>2, <2>1, <2>2, <2>3 DEF Store, Offsets
  <2> QED  BY <1>1, <2>4 DEF MirrorSpec!MWrite
<1>3. CASE UNCHANGED database
  BY <1>1, <1>3 DEF database
<1> QED  BY <1>2, <1>3 DEF WriteBatch

LEMMA CommitMirrors ==
  ASSUME Inv, SkipInv, NEW c \in Consumers, Commit(c)
  PROVE  MirrorSpec!MCommit \/ UNCHANGED <<topic, written, committed>>
<1>1. /\ TypeOK /\ Held(c) /\ Warned(c) /\ Owned(c) /\ pc[c] = "commit"
      /\ UNCHANGED <<topic, written>>
  BY Commits DEF Inv, SkipInv
<1>2. CASE owner = c /\ committed' = position[c]
  <2>1. position[c] \in committed .. N
    BY <1>1, <1>2 DEF TypeOK, Warned
  <2>2. ASSUME NEW o \in committed + 1 .. position[c]
        PROVE  o \in written \/ topic[o] = "empty"
    <3>1. topic[o] # "poison"
      BY <1>1, <1>2 DEF Warned, Held
    <3>2. topic[o] = "usable" => o \in written
      BY <1>1, <1>2 DEF Owned, Writing, Compact
    <3>3. topic[o] \in {"usable", "empty", "poison"}
      <4>1. committed \in Nat /\ N \in Nat /\ position[c] \in 0 .. N
        BY <1>1, KafkaBatchAssumption DEF TypeOK
      <4>2. o \in Offsets
        BY <4>1 DEF Offsets
      <4> QED  BY <1>1, <4>2 DEF TypeOK
    <3> QED  BY <3>1, <3>2, <3>3
  <2> QED  BY <1>1, <1>2, <2>1, <2>2 DEF MirrorSpec!MCommit
<1>3. CASE UNCHANGED committed
  BY <1>1, <1>3
<1> QED  BY <1>1, <1>2, <1>3, Commits DEF Commit

LEMMA NextMirrors ==
  Inv /\ SkipInv /\ [Next]_vars => [MirrorSpec!MNext]_(MirrorSpec!mvars)
<1> SUFFICES ASSUME Inv, SkipInv, Next
             PROVE  MirrorSpec!MNext \/ UNCHANGED <<topic, written, committed>>
  BY DEF MirrorSpec!mvars, vars, broker, database
<1>1. ASSUME NEW c \in Consumers,
             \/ Subscribe(c) \/ Assign(c) \/ ReceiveMessage(c) \/ ReadTimeout(c) \/ Close(c)
             \/ Restart(c) \/ Parse(c) \/ Revoke(c) \/ ReadError(c) \/ Crash(c) \/ Expel(c)
             \/ Submit(c)
      PROVE  UNCHANGED <<topic, written, committed>>
  <2>1. Forget(c) => UNCHANGED <<topic, written, committed>>
    BY DEF Forget, database
  <2>2. Submit(c) => UNCHANGED <<topic, written, committed>>
    BY <2>1, Submits DEF Inv, Compacts
  <2> QED  BY <1>1, <2>1, <2>2 DEF Subscribe, Assign, ReceiveMessage, ReadTimeout, Close, Restart,
           Parse, Revoke, ReadError, Crash, Expel, broker, database
<1> QED  BY <1>1, WriteMirrors, CommitMirrors DEF Next, Step, MirrorSpec!MNext

\* Consumers that share a partition keep what a topic streamer promises, under
\* the same condition.
THEOREM ConsumersMirror == Clean => (Spec => Implements)
<1> SUFFICES ASSUME Clean PROVE Spec => Implements
  OBVIOUS
<1> QED  BY InitMirrors, NextMirrors, InvHolds, SkipHolds, PTL DEF Spec, Implements, MirrorSpec!MSpec

=============================================================================
