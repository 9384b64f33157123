------------------------ MODULE TopicRestartsProofs ------------------------
(***************************************************************************)
(* Proofs about TopicRestarts, for any number of retries and any length of *)
(* the interval.                                                           *)
(***************************************************************************)
EXTENDS TopicRestarts, FiniteSetTheorems, TLAPS

-----------------------------------------------------------------------------
(* The inductive invariant.                                                *)

\* The interval that the retries are counted in, and the errors in it.
Start == retriesResetAt - Interval
Counted == MaxRetries - retriesRemaining

\* The errors that were counted in an earlier interval are those before.
Before == Len(errorsAt) - Counted

\* Of the errors of earlier intervals those that are still close to this one.
Close == {i \in 1 .. Before : errorsAt[i] >= Start - Interval}

\* What is counted came in since the interval began, the rest before that.
\* Of the rest, those of only one interval are close: an interval begins with
\* the first error after the one before it is over.
Counting ==
    /\ Start \in 0 .. now
    /\ Before \in Nat
    /\ \A i \in DOMAIN errorsAt :
          /\ errorsAt[i] <= now /\ errorsAt[i] <= retriesResetAt
          /\ errorsAt[i] >= Start <=> i > Before
    /\ Cardinality(Close) <= MaxRetries

Inv ==
    /\ TypeOK
    /\ ~panicked => Counting
    /\ panicked => Recent > MaxRetries
-----------------------------------------------------------------------------
(* Counting.                                                               *)

\* The size of a range of indices.
LEMMA Indices ==
  ASSUME NEW a \in Nat, NEW b \in Nat, a <= b
  PROVE  IsFiniteSet(a + 1 .. b) /\ Cardinality(a + 1 .. b) = b - a
<1>1. PICK h \in Int : h = a + 1
  OBVIOUS
<1>2. IsFiniteSet(h .. b) /\ Cardinality(h .. b) = IF h > b THEN 0 ELSE b - h + 1
  BY FS_Interval
<1> QED  BY <1>1, <1>2

LEMMA UpTo == \A n \in Nat : IsFiniteSet(1 .. n)
<1> SUFFICES ASSUME NEW n \in Nat PROVE IsFiniteSet(1 .. n)
  OBVIOUS
<1>1. PICK a \in Nat : a = 0 /\ a <= n /\ a + 1 = 1
  OBVIOUS
<1>2. IsFiniteSet(a + 1 .. n)
  BY <1>1, Indices
<1> QED  BY <1>1, <1>2

\* A set of indices that includes a range is as large as it.
LEMMA AtLeast ==
  ASSUME NEW n \in Nat, NEW S \in SUBSET (1 .. n), NEW a \in Nat, NEW b \in Nat, a <= b,
         a + 1 .. b \subseteq S
  PROVE  Cardinality(S) >= b - a
<1>1. IsFiniteSet(1 .. n)
  BY UpTo
<1>2. IsFiniteSet(S) /\ Cardinality(S) \in Nat
  BY <1>1, FS_Subset, FS_CardinalityType
<1>3. Cardinality(a + 1 .. b) <= Cardinality(S)
  BY <1>2, FS_Subset
<1>4. Cardinality(a + 1 .. b) = b - a
  BY Indices
<1> QED  BY <1>2, <1>3, <1>4

\* A set of indices is no larger than a set and a range that cover it.
LEMMA AtMost ==
  ASSUME NEW n \in Nat, NEW S \in SUBSET (1 .. n), NEW C \in SUBSET (1 .. n),
         NEW a \in Nat, NEW b \in Nat, a <= b, S \subseteq C \cup (a + 1 .. b)
  PROVE  /\ Cardinality(S) \in Nat /\ Cardinality(C) \in Nat
         /\ Cardinality(S) <= Cardinality(C) + (b - a)
<1>1. IsFiniteSet(1 .. n)
  BY UpTo
<1>2. IsFiniteSet(S) /\ Cardinality(S) \in Nat /\ IsFiniteSet(C) /\ Cardinality(C) \in Nat
  BY <1>1, FS_Subset, FS_CardinalityType
<1>3. PICK R : R = a + 1 .. b /\ IsFiniteSet(R) /\ Cardinality(R) = b - a
  BY Indices
<1>4. /\ IsFiniteSet(C \cup R)
      /\ Cardinality(C \cup R) = Cardinality(C) + Cardinality(R) - Cardinality(C \cap R)
  BY <1>2, <1>3, FS_Union
<1>5. Cardinality(C \cap R) \in Nat
  BY <1>2, FS_Subset, FS_CardinalityType
<1>6. Cardinality(S) <= Cardinality(C \cup R)
  BY <1>3, <1>4, FS_Subset
<1> QED  BY <1>2, <1>3, <1>4, <1>5, <1>6

-----------------------------------------------------------------------------
LEMMA InitInv == Init => Inv
<1> SUFFICES ASSUME Init PROVE Inv
  OBVIOUS
<1> USE TopicRestartsAssumption
<1>1. <<>> \in Seq(0 .. MaxTime) /\ Len(<<>>) = 0 /\ DOMAIN <<>> = {} /\ 1 .. 0 = {}
  OBVIOUS
<1>2. TypeOK
  <2>1. /\ Interval \in Interval .. MaxTime + Interval /\ 0 \in 0 .. MaxTime
        /\ MaxRetries \in 0 .. MaxRetries /\ FALSE \in BOOLEAN
    OBVIOUS
  <2>2. errorsAt \in Seq(0 .. MaxTime)
    BY <1>1 DEF Init
  <2> QED  BY <2>1, <2>2 DEF Init, TypeOK
<1>3. Start = 0 /\ Counted = 0 /\ Before = 0
  BY <1>1 DEF Init, Start, Counted, Before
<1>4. Cardinality(Close) = 0
  <2>1. Close = {}
    BY <1>1, <1>3 DEF Close
  <2> QED  BY <2>1, FS_EmptySet
<1> QED  BY <1>1, <1>2, <1>3, <1>4 DEF Init, Inv, Counting

LEMMA TickInv == Inv /\ Tick => Inv'
<1> SUFFICES ASSUME Inv, Tick PROVE Inv'
  OBVIOUS
<1>1. /\ TypeOK /\ Counting /\ now < MaxTime /\ ~panicked /\ now' = now + 1
      /\ retriesRemaining' = retriesRemaining /\ retriesResetAt' = retriesResetAt
      /\ panicked' = panicked /\ errorsAt' = errorsAt
  BY DEF Inv, Tick
<1>2. TypeOK'
  BY <1>1, TopicRestartsAssumption DEF TypeOK
<1>3. Counting'
  <2>1. Start' = Start /\ Before' = Before /\ Close' = Close
    BY <1>1 DEF Start, Before, Counted, Close
  <2>2. \A i \in DOMAIN errorsAt : errorsAt[i] <= now'
    <3>1. PICK X : X = 0 .. MaxTime
      OBVIOUS
    <3>2. \A i \in DOMAIN errorsAt : errorsAt[i] \in X
      <4>1. errorsAt \in Seq(X)
        BY <1>1, <3>1 DEF TypeOK
      <4> QED  BY ONLY <4>1
    <3> QED  BY <1>1, <3>1, <3>2 DEF TypeOK, Counting
  <2>3. Start \in 0 .. now'
    BY <1>1 DEF TypeOK, Counting
  <2> QED  BY <1>1, <2>1, <2>2, <2>3 DEF Counting
<1> QED  BY <1>1, <1>2, <1>3 DEF Inv

LEMMA FailsInv == Inv /\ StreamFails => Inv'
<1> SUFFICES ASSUME Inv, StreamFails PROVE Inv'
  OBVIOUS
<1> USE TopicRestartsAssumption
<1>1. /\ TypeOK /\ Counting /\ ~panicked /\ now' = now
      /\ retriesResetAt' = ResetAt /\ panicked' = (Remaining = 0)
      /\ retriesRemaining' = IF Remaining = 0 THEN 0 ELSE Remaining - 1
  BY DEF Inv, StreamFails
<1>2. /\ now \in 0 .. MaxTime /\ MaxTime \in Nat /\ Interval \in Nat /\ MaxRetries \in Nat
      /\ retriesResetAt \in Nat /\ retriesRemaining \in 0 .. MaxRetries
  BY <1>1 DEF TypeOK
<1>3. PICK X, s, t : /\ X = 0 .. MaxTime /\ s \in Seq(X) /\ s = errorsAt
                     /\ t = Append(s, now) /\ t = errorsAt' /\ now \in X
  BY <1>1 DEF TypeOK, StreamFails
<1>4. PICK n \in Nat : n = Len(s) /\ DOMAIN s = 1 .. n /\ \A i \in 1 .. n : s[i] \in X
  <2>1. s \in Seq(X)
    BY <1>3
  <2>2. Len(s) \in Nat /\ DOMAIN s = 1 .. Len(s) /\ \A i \in DOMAIN s : s[i] \in X
    BY ONLY <2>1
  <2> QED  BY <2>2
<1>5. /\ t \in Seq(X) /\ Len(t) = n + 1 /\ DOMAIN t = 1 .. n + 1 /\ t[n + 1] = now
      /\ \A i \in 1 .. n : t[i] = s[i]
  <2>1. s \in Seq(X) /\ now \in X /\ t = Append(s, now)
    BY <1>3
  <2>2. /\ t \in Seq(X) /\ Len(t) = Len(s) + 1 /\ t[Len(s) + 1] = now
        /\ \A i \in 1 .. Len(s) : t[i] = s[i]
    BY ONLY <2>1
  <2>3. DOMAIN t = 1 .. Len(t)
    BY ONLY <2>2
  <2> QED  BY <1>4, <2>2, <2>3
<1>6. PICK m \in Nat : m = Before /\ m <= n /\ n - m = MaxRetries - retriesRemaining
  <2>1. n - Before = MaxRetries - retriesRemaining /\ Before \in Nat
    BY <1>1, <1>2, <1>3, <1>4 DEF Before, Counted, Counting
  <2> QED  BY <1>2, <2>1
<1>7. \A i \in 1 .. n : /\ s[i] <= now /\ s[i] <= retriesResetAt
                        /\ (s[i] >= retriesResetAt - Interval <=> i > m)
  BY <1>1, <1>3, <1>4, <1>6 DEF Counting, Start
<1>8. TypeOK'
  <2>1. /\ ResetAt \in Interval .. MaxTime + Interval /\ Remaining \in 0 .. MaxRetries
    BY <1>1, <1>2 DEF ResetAt, Remaining, TypeOK
  <2>2. retriesRemaining' \in 0 .. MaxRetries
    BY <1>1, <1>2, <2>1
  <2>3. errorsAt' \in Seq(0 .. MaxTime)
    BY <1>3, <1>5
  <2> QED  BY <1>1, <1>2, <2>1, <2>2, <2>3 DEF TypeOK
<1>9. ASSUME Remaining = 0 PROVE Recent' > MaxRetries
  <2>1. PICK S : S = {i \in 1 .. n + 1 : now - t[i] <= Interval}
    OBVIOUS
  <2>2. PICK a \in Nat : a <= n /\ n - a = MaxRetries /\ a + 1 .. n + 1 \subseteq S
    <3>1. CASE now > retriesResetAt
      <4>1. MaxRetries = 0
        BY <1>9, <3>1 DEF Remaining
      <4>2. n + 1 .. n + 1 \subseteq S
        BY <1>2, <1>5, <2>1
      <4> QED  BY <4>1, <4>2
    <3>2. CASE ~(now > retriesResetAt)
      <4>1. n - m = MaxRetries
        BY <1>2, <1>6, <1>9, <3>2 DEF Remaining
      <4>2. \A i \in m + 1 .. n + 1 : i \in 1 .. n + 1 /\ (i \in 1 .. n \/ i = n + 1)
        BY <1>6
      <4>3. ASSUME NEW i \in m + 1 .. n PROVE now - t[i] <= Interval
        <5>1. i \in 1 .. n /\ s[i] >= retriesResetAt - Interval /\ s[i] \in Nat
          BY <1>3, <1>4, <1>7
        <5> QED  BY <1>2, <1>5, <3>2, <5>1
      <4>4. now - t[n + 1] <= Interval
        BY <1>2, <1>5
      <4>5. m + 1 .. n + 1 \subseteq S
        BY <1>6, <2>1, <4>2, <4>3, <4>4
      <4> QED  BY <1>6, <4>1, <4>5
    <3> QED  BY <3>1, <3>2
  <2>3. PICK b \in Nat : b = n + 1
    OBVIOUS
  <2>4. S \in SUBSET (1 .. b) /\ a + 1 .. b \subseteq S /\ a <= b
    BY <2>1, <2>2, <2>3
  <2>5. Cardinality(S) >= b - a
    BY <2>4, AtLeast
  <2>6. Recent' = Cardinality(S) /\ Cardinality(S) \in Nat
    <3>1. Recent' = Cardinality(S)
      BY <1>1, <1>3, <1>5, <2>1 DEF Recent
    <3>2. IsFiniteSet(1 .. b)
      BY UpTo
    <3> QED  BY <2>4, <3>1, <3>2, FS_Subset, FS_CardinalityType
  <2> QED  BY <1>2, <2>2, <2>3, <2>5, <2>6
<1>10. ASSUME Remaining # 0 PROVE Counting'
  <2>1. CASE now > retriesResetAt
    <3>1. Start' = now /\ Counted' = 1 /\ Before' = n
      BY <1>1, <1>2, <1>3, <1>5, <1>10, <2>1 DEF Remaining, ResetAt, Start, Counted, Before
    <3>2. \A i \in 1 .. n + 1 : t[i] <= now /\ (t[i] >= now <=> i > n)
      <4>1. ASSUME NEW i \in 1 .. n PROVE t[i] < now
        BY <1>2, <1>3, <1>4, <1>5, <1>7, <2>1
      <4>2. \A i \in 1 .. n : t[i] \in Nat
        BY <1>3, <1>4, <1>5
      <4> QED  BY <1>2, <1>5, <4>1, <4>2
    <3>3. Cardinality(Close') <= MaxRetries
      <4>1. PICK C : C = {i \in 1 .. n : t[i] >= now - Interval}
        OBVIOUS
      <4>2. Close' = C
        BY <1>3, <3>1, <4>1 DEF Close
      <4>3. ASSUME NEW i \in C PROVE i \in m + 1 .. n
        <5>1. i \in 1 .. n /\ s[i] >= now - Interval /\ s[i] \in Nat
          BY <1>3, <1>4, <1>5, <4>1
        <5>2. s[i] >= retriesResetAt - Interval
          BY <1>2, <2>1, <5>1
        <5> QED  BY <1>6, <1>7, <5>1, <5>2
      <4>4. C \in SUBSET (1 .. n) /\ {} \in SUBSET (1 .. n) /\ C \subseteq {} \cup (m + 1 .. n)
        BY <4>1, <4>3
      <4>5. Cardinality(C) \in Nat /\ Cardinality(C) <= Cardinality({}) + (n - m)
        BY <1>6, <4>4, AtMost
      <4> QED  BY <1>2, <1>6, <4>2, <4>5, FS_EmptySet
    <3>4. retriesResetAt' = now + Interval
      BY <1>1, <2>1 DEF ResetAt
    <3> QED  BY <1>1, <1>2, <1>3, <1>5, <3>1, <3>2, <3>3, <3>4 DEF Counting
  <2>2. CASE ~(now > retriesResetAt)
    <3>1. Start' = Start /\ Before' = m /\ retriesResetAt' = retriesResetAt
      <4>1. retriesResetAt' = retriesResetAt /\ retriesRemaining' = retriesRemaining - 1
        BY <1>1, <1>10, <2>2 DEF Remaining, ResetAt
      <4>2. Before' = (n + 1) - (MaxRetries - (retriesRemaining - 1))
        BY <1>3, <1>5, <4>1 DEF Before, Counted
      <4>3. Before' = m
        BY <1>2, <1>6, <4>2
      <4> QED  BY <4>1, <4>3 DEF Start
    <3>2. Close' = Close
      BY <1>3, <1>5, <1>6, <3>1 DEF Close
    <3>3. now >= Start /\ Start = retriesResetAt - Interval /\ Start \in 0 .. now
      BY <1>1, <1>2 DEF Counting, Start
    <3>4. ASSUME NEW i \in 1 .. n + 1
          PROVE  /\ t[i] <= now /\ t[i] <= retriesResetAt
                 /\ (t[i] >= Start <=> i > m)
      <4>1. CASE i \in 1 .. n
        BY <1>5, <1>7, <3>3, <4>1
      <4>2. CASE i = n + 1
        BY <1>2, <1>5, <1>6, <2>2, <3>3, <4>2
      <4> QED  BY <4>1, <4>2
    <3> QED  BY <1>1, <1>3, <1>5, <1>6, <3>1, <3>2, <3>3, <3>4 DEF Counting
  <2> QED  BY <2>1, <2>2
<1> QED  BY <1>1, <1>8, <1>9, <1>10 DEF Inv

LEMMA InvHolds == Spec => []Inv
<1>1. Inv /\ UNCHANGED vars => Inv'
  BY DEF Inv, TypeOK, Counting, Start, Before, Counted, Close, Recent, vars
<1>2. Inv /\ [Next]_vars => Inv'
  BY <1>1, TickInv, FailsInv DEF Next
<1> QED  BY <1>2, InitInv, PTL DEF Spec

\* Before a panic of runStreamer there were more errors than allowed, and none
\* of them is older than the interval.
THEOREM PanicsAreEarned == Spec => []RetriesInv
<1>1. Inv => RetriesInv
  BY DEF Inv, RetriesInv, PanicIsEarned
<1> QED  BY <1>1, InvHolds, PTL

\* Without a panic there are never more errors in an interval than twice what
\* is allowed.
THEOREM NeverMoreThanTwice == Spec => []TwiceAtMost
<1>1. Inv => TwiceAtMost
  <2> SUFFICES ASSUME Inv, ~panicked PROVE Recent <= 2 * MaxRetries
    BY DEF TwiceAtMost
  <2>1. /\ now \in Nat /\ Interval \in Nat /\ MaxRetries \in Nat /\ Counting
        /\ retriesResetAt \in Nat /\ retriesRemaining \in 0 .. MaxRetries
    BY TopicRestartsAssumption DEF Inv, TypeOK
  <2>2. PICK X, s : X = 0 .. MaxTime /\ s \in Seq(X) /\ s = errorsAt
    BY DEF Inv, TypeOK
  <2>3. PICK n \in Nat : n = Len(s) /\ DOMAIN s = 1 .. n /\ \A i \in 1 .. n : s[i] \in X
    <3>1. s \in Seq(X)
      BY <2>2
    <3>2. Len(s) \in Nat /\ DOMAIN s = 1 .. Len(s) /\ \A i \in DOMAIN s : s[i] \in X
      BY ONLY <3>1
    <3> QED  BY <3>2
  <2>4. PICK m \in Nat : m = Before /\ m <= n /\ n - m <= MaxRetries
    <3>1. n - Before = MaxRetries - retriesRemaining /\ Before \in Nat
      BY <2>1, <2>2, <2>3 DEF Before, Counted, Counting
    <3> QED  BY <2>1, <3>1
  <2>5. PICK S : S = {i \in 1 .. n : now - s[i] <= Interval}
    OBVIOUS
  <2>6. Close \in SUBSET (1 .. n)
    BY <2>4 DEF Close
  <2>7. ASSUME NEW i \in S, i \notin m + 1 .. n PROVE i \in Close
    <3>1. i \in 1 .. n /\ i <= m /\ s[i] \in Nat /\ now - s[i] <= Interval
      BY <2>2, <2>3, <2>4, <2>5, <2>7
    <3>2. s[i] >= Start - Interval
      BY <2>1, <3>1 DEF Counting, Start
    <3> QED  BY <2>2, <2>4, <3>1, <3>2 DEF Close
  <2>8. S \in SUBSET (1 .. n) /\ S \subseteq Close \cup (m + 1 .. n)
    BY <2>5, <2>7
  <2>9. /\ Cardinality(S) \in Nat /\ Cardinality(Close) \in Nat
        /\ Cardinality(S) <= Cardinality(Close) + (n - m)
    BY <2>4, <2>6, <2>8, AtMost
  <2>10. Recent = Cardinality(S)
    BY <2>2, <2>3, <2>5 DEF Recent
  <2> QED  BY <2>1, <2>4, <2>9, <2>10 DEF Counting
<1> QED  BY <1>1, InvHolds, PTL
=============================================================================
