-------------------------- MODULE RateLimiterProofs --------------------------
(***************************************************************************)
(* Proofs about RateLimiter, for any messages, keys and rate.              *)
(*                                                                         *)
(* That there are at most RateMax + 2 pushes in the window is not          *)
(* inductive: a batch adds one whatever the window holds.  Budget says how *)
(* many of them will still be in the window when the batch is due, and how *)
(* many when its push is about to be recorded.                             *)
(***************************************************************************)
EXTENDS RateLimiter, SquasherProofs

\* Of the recorded pushes s, oldest first, at most n are no older than age.
AtMost(s, age, n) == Len(s) > n => s[Len(s) - n] > age

\* The squasher is about to record the push of a batch of k.
Recording(k) == sq = "record" /\ KeyOf[Head(sending)] = k

\* What there may be in the window of k now, when the push of a batch is to be
\* recorded next, and when the batch that waits falls due, in due[k] + 1 ticks.
Budget(k) ==
  /\ AtMost(pushedAt[k], RatePer, RateMax + 2)
  /\ Recording(k) => AtMost(pushedAt[k], RatePer, RateMax + 1)
  /\ k \in Batched =>
       AtMost(pushedAt[k], RatePer - due[k] - 1, IF Recording(k) THEN RateMax ELSE RateMax + 1)

RateInv == \A k \in Keys : Budget(k)

\* OnePlace, said set by set.
Partition ==
  LET squasher == InBatches \cup ToSet(sending) IN
  /\ queued \cap pushing = {} /\ queued \cap done = {} /\ queued \cap squasher = {}
  /\ pushing \cap done = {} /\ pushing \cap squasher = {} /\ done \cap squasher = {}
  /\ queued \cup pushing \cup done \cup squasher = Messages

IInv == TypeOK /\ SquasherInv /\ RateInv /\ Partition

-----------------------------------------------------------------------------
(* Counting recorded pushes.                                               *)

LEMMA SizesAre ==
  ASSUME NEW s \in Seq(Sizes)
  PROVE  /\ Len(s) \in Nat
         /\ \A i \in 1..Len(s) : s[i] \in 0..(RatePer + 1)
         /\ RatePer \in Nat /\ RateMax \in Nat \ {0}
BY SquasherAssumption, LenProperties, ElementOfSeq DEF Sizes, TooOld

\* Fewer pushes are younger still, and more are allowed.
LEMMA AtMostWeakens ==
  ASSUME NEW s \in Seq(Sizes), Aged(s), NEW age \in Int, NEW n \in Nat, AtMost(s, age, n),
         NEW a \in Int, a <= age, NEW m \in Nat, n <= m
  PROVE  AtMost(s, a, m)
<1> SUFFICES ASSUME Len(s) > m PROVE s[Len(s) - m] > a
  BY DEF AtMost
<1>1. /\ Len(s) > n /\ Len(s) - m \in 1..Len(s) /\ Len(s) - n \in 1..Len(s)
      /\ Len(s) - m <= Len(s) - n
  BY SizesAre
<1>2. s[Len(s) - n] <= s[Len(s) - m] /\ s[Len(s) - n] > age
  BY <1>1 DEF Aged, AtMost
<1>3. s[Len(s) - n] \in Int /\ s[Len(s) - m] \in Int
  BY <1>1, SizesAre
<1> QED BY <1>2, <1>3

LEMMA AtMostAppend ==
  ASSUME NEW s \in Seq(Sizes), NEW age \in Int, NEW n \in Nat, AtMost(s, age, n)
  PROVE  AtMost(Append(s, 0), age, n + 1)
<1> SUFFICES ASSUME Len(Append(s, 0)) > n + 1
             PROVE  Append(s, 0)[Len(Append(s, 0)) - (n + 1)] > age
  BY DEF AtMost
<1>1. 0 \in Sizes /\ Len(s) \in Nat
  BY SizesAre DEF Sizes, TooOld
<1>2. /\ Len(Append(s, 0)) = Len(s) + 1
      /\ \A i \in 1..Len(s) : Append(s, 0)[i] = s[i]
  BY <1>1, AppendProperties
<1>3. Len(s) > n /\ Len(s) - n \in 1..Len(s)
  BY <1>1, <1>2
<1>4. Len(Append(s, 0)) - (n + 1) = Len(s) - n
  BY <1>1, <1>2
<1> QED BY <1>2, <1>3, <1>4 DEF AtMost

\* A tick makes all of them older.
LEMMA AtMostTick ==
  ASSUME NEW s \in Seq(Sizes), NEW n \in Nat,
         NEW a \in Int, NEW age \in Int, AtMost(s, a, n),
         age <= RatePer, age = a + 1 \/ (age = a /\ a = RatePer)
  PROVE  AtMost([i \in DOMAIN s |-> Older(s[i])], age, n)
<1> DEFINE t == [i \in DOMAIN s |-> Older(s[i])]
<1>1. Len(s) \in Nat /\ DOMAIN s = 1..Len(s)
  BY LenProperties
<1>2. Len(t) = Len(s)
  <2>1. \A i \in 1..Len(s) : Older(s[i]) \in Sizes
    BY SizesAre DEF Older, Sizes, TooOld
  <2>2. t \in [1..Len(s) -> Sizes]
    BY <1>1, <2>1
  <2>3. t \in Seq(Sizes)
    BY <1>1, <2>2, SeqDef
  <2>4. DOMAIN t = 1..Len(t) /\ DOMAIN t = 1..Len(s) /\ Len(t) \in Nat
    BY <1>1, <2>3, LenProperties
  <2> QED BY <1>1, <2>4
<1>3. ASSUME Len(s) > n PROVE t[Len(s) - n] > age
  <2>1. Len(s) - n \in 1..Len(s)
    BY <1>1, <1>3
  <2>2. t[Len(s) - n] = Older(s[Len(s) - n])
    BY <1>1, <2>1
  <2>3. s[Len(s) - n] \in 0..(RatePer + 1) /\ s[Len(s) - n] > a /\ RatePer \in Nat
    BY <1>3, <2>1, SizesAre DEF AtMost
  <2>4. Older(s[Len(s) - n]) > age
    BY <2>3 DEF Older, TooOld
  <2> QED BY <2>2, <2>4
<1> QED BY <1>2, <1>3 DEF AtMost

\* The length of what flushAndGetRate returns, by which it decides.
LEMMA WindowLength ==
  ASSUME NEW k, pushedAt[k] \in Seq(Sizes), Aged(pushedAt[k]), NEW n \in Nat
  PROVE  Len(InWindow(k)) <= n <=> AtMost(pushedAt[k], RatePer, n)
<1> DEFINE s == pushedAt[k]
<1>1. PICK d \in Nat : Flushes(s, d, Len(s), InWindow(k))
  BY InWindowFlushes
<1>2. d \in 0..Len(s) /\ Len(InWindow(k)) = Len(s) - d /\ Len(s) \in Nat
  BY <1>1, SizesAre DEF Flushes
<1>3. ASSUME Len(InWindow(k)) <= n, Len(s) > n PROVE s[Len(s) - n] > RatePer
  <2>1. Len(s) - n \in 1..d
    BY <1>2, <1>3
  <2> QED BY <1>1, <2>1 DEF Flushes
<1>4. ASSUME ~(Len(InWindow(k)) <= n), AtMost(s, RatePer, n) PROVE FALSE
  <2>1. Len(s) > n /\ Len(s) - n \in (d + 1)..Len(s) /\ Len(s) - n \in 1..Len(s)
    BY <1>2, <1>4
  <2>2. s[Len(s) - n] <= RatePer /\ s[Len(s) - n] > RatePer
    BY <1>1, <1>4, <2>1 DEF Flushes, AtMost
  <2>3. s[Len(s) - n] \in Nat /\ RatePer \in Nat
    BY <2>1, SizesAre
  <2> QED BY <2>2, <2>3
<1> QED BY <1>3, <1>4 DEF AtMost

-----------------------------------------------------------------------------
(* The budget of a key.                                                    *)

LEMMA KeyFacts ==
  ASSUME SquasherInv, NEW k \in Keys
  PROVE  /\ pushedAt[k] \in Seq(Sizes) /\ Aged(pushedAt[k])
         /\ due[k] \in -1..RatePer
         /\ RatePer \in Nat /\ RateMax \in Nat \ {0}
         /\ InWindow(k) \in Seq(0..RatePer) /\ InWindow(k) \in Seq(Sizes) /\ Aged(InWindow(k))
<1>1. /\ pushedAt[k] \in Seq(Sizes) /\ Aged(pushedAt[k])
      /\ due[k] \in -1..RatePer
  BY DEF SquasherInv, SquasherTypeOK, Sizes, Passed
<1> QED BY <1>1, InWindowIsAged, SquasherAssumption

\* A direct push is made when there are fewer than RateMax in the window.
LEMMA PushNowWithinBudget ==
  ASSUME SquasherInv, RateInv, NEW m \in Messages, PushNow(m)
  PROVE  RateInv'
<1> SUFFICES ASSUME NEW k \in Keys PROVE Budget(k)'
  BY DEF RateInv
<1>1. /\ pushedAt' = [pushedAt EXCEPT ![KeyOf[m]] = Append(InWindow(KeyOf[m]), 0)]
      /\ UNCHANGED <<batches, due, sq, sending>>
      /\ pushedAt \in [Keys -> Seq(Sizes)]
  BY DEF PushNow, SquasherInv, SquasherTypeOK, Sizes
<1>2. /\ Batched' = Batched /\ (Recording(k)' <=> Recording(k)) /\ due'[k] = due[k]
  BY <1>1 DEF Batched, Recording
<1>3. CASE k # KeyOf[m]
  <2>1. pushedAt'[k] = pushedAt[k]
    BY <1>1, <1>3
  <2> QED BY <1>2, <2>1 DEF RateInv, Budget
<1>4. CASE k = KeyOf[m]
  <2> DEFINE w == InWindow(k)
             s == Append(w, 0)
  <2>1. w \in Seq(Sizes) /\ Aged(w) /\ s \in Seq(Sizes) /\ Aged(s)
    BY KeyFacts, RecordKeepsAged
  <2>2. Len(w) < RateMax /\ Len(w) \in Nat /\ RateMax \in Nat /\ RatePer \in Nat
    BY <1>4, <2>1, SizesAre DEF PushNow
  <2>3. AtMost(s, RatePer, RateMax)
    <3>1. Len(s) = Len(w) + 1
      <4>1. 0 \in Sizes
        BY <2>2 DEF Sizes, TooOld
      <4> QED BY <2>1, <4>1, AppendProperties
    <3> QED BY <2>2, <3>1 DEF AtMost
  <2>4. pushedAt'[k] = s
    BY <1>1, <1>4
  <2> HIDE DEF s
  <2>5. \A a \in Int : \A n \in Nat :
          a <= RatePer /\ RateMax <= n => AtMost(s, a, n)
    <3> SUFFICES ASSUME NEW a \in Int, NEW n \in Nat, a <= RatePer, RateMax <= n
                 PROVE  AtMost(s, a, n)
      OBVIOUS
    <3>1. RatePer \in Int
      BY <2>2
    <3> QED BY <2>1, <2>2, <2>3, <3>1, AtMostWeakens
  <2>6. RatePer - due[k] - 1 \in Int /\ RatePer - due[k] - 1 <= RatePer
    BY KeyFacts
  <2>7. /\ RatePer \in Int /\ RatePer <= RatePer
        /\ RateMax \in Nat /\ RateMax <= RateMax
        /\ RateMax + 1 \in Nat /\ RateMax <= RateMax + 1
        /\ RateMax + 2 \in Nat /\ RateMax <= RateMax + 2
    BY <2>2
  <2>8. /\ AtMost(s, RatePer, RateMax + 2) /\ AtMost(s, RatePer, RateMax + 1)
        /\ AtMost(s, RatePer - due[k] - 1, RateMax)
        /\ AtMost(s, RatePer - due[k] - 1, RateMax + 1)
    BY <2>5, <2>6, <2>7
  <2> QED BY <1>2, <2>4, <2>8 DEF Budget
<1> QED BY <1>3, <1>4

\* Of the pushes in the window the oldest will have left it when the batch is due.
LEMMA SquashWithinBudget ==
  ASSUME SquasherInv, RateInv, NEW m \in Messages, Squash(m)
  PROVE  RateInv'
<1> SUFFICES ASSUME NEW k \in Keys PROVE Budget(k)'
  BY DEF RateInv
<1>1. /\ pushedAt' = [pushedAt EXCEPT ![KeyOf[m]] = InWindow(KeyOf[m])]
      /\ due' = [due EXCEPT ![KeyOf[m]] = RatePer - Head(InWindow(KeyOf[m]))]
      /\ batches' = [batches EXCEPT ![KeyOf[m]] = Append(batches[KeyOf[m]], m)]
      /\ pushedAt \in [Keys -> Seq(Sizes)] /\ due \in [Keys -> Passed..RatePer]
      /\ batches \in [Keys -> Seq(Messages)]
      /\ UNCHANGED sending
  BY DEF Squash, SquasherInv, SquasherTypeOK, Sizes
<1>2. Recording(k)' <=> Recording(k)
  BY DEF Squash, Signal, Recording
<1>3. CASE k # KeyOf[m]
  <2>1. pushedAt'[k] = pushedAt[k] /\ due'[k] = due[k] /\ batches'[k] = batches[k]
    BY <1>1, <1>3
  <2>2. k \in Batched' => k \in Batched
    BY <2>1 DEF Batched
  <2> QED BY <1>2, <2>1, <2>2 DEF RateInv, Budget
<1>4. CASE k = KeyOf[m]
  <2> DEFINE w == InWindow(k)
             n == IF Recording(k) THEN RateMax + 1 ELSE RateMax + 2
  <2>1. w \in Seq(0..RatePer) /\ w \in Seq(Sizes) /\ RateMax \in Nat \ {0} /\ RatePer \in Nat
    BY KeyFacts
  <2>2. Len(w) \in Nat \ {0}
    BY <1>4, <2>1, SizesAre DEF Squash
  <2>3. Head(w) = w[1] /\ w[1] \in 0..RatePer
    BY <2>1, <2>2, ElementOfSeq
  <2>4. Len(w) <= n
    <3>1. n \in Nat /\ AtMost(pushedAt[k], RatePer, n)
      BY <2>1 DEF RateInv, Budget
    <3> QED BY <3>1, KeyFacts, WindowLength
  <2>5. AtMost(w, RatePer, n)
    BY <2>1, <2>2, <2>4 DEF AtMost
  <2>6. AtMost(w, Head(w) - 1, n - 1)
    <3> SUFFICES ASSUME Len(w) > n - 1 PROVE w[Len(w) - (n - 1)] > Head(w) - 1
      BY DEF AtMost
    <3>1. Len(w) = n
      BY <2>1, <2>2, <2>4
    <3>2. Len(w) - (n - 1) = 1
      BY <2>2, <3>1
    <3> QED BY <2>3, <3>2
  <2>7. pushedAt'[k] = w /\ due'[k] = RatePer - Head(w)
    BY <1>1, <1>4
  <2>8. RatePer - due'[k] - 1 = Head(w) - 1
    BY <2>1, <2>3, <2>7
  <2>9. AtMost(w, RatePer, RateMax + 2)
    BY <2>1, <2>2, <2>4 DEF AtMost
  <2>10. n - 1 = IF Recording(k) THEN RateMax ELSE RateMax + 1
    BY <2>1
  <2> QED BY <1>2, <2>5, <2>6, <2>7, <2>8, <2>9, <2>10 DEF Budget
<1> QED BY <1>3, <1>4

\* What a batch may add was counted in when it was made.
LEMMA TakeBatchWithinBudget ==
  ASSUME SquasherInv, RateInv, NEW l \in Keys, TakeBatch(l)
  PROVE  RateInv'
<1> SUFFICES ASSUME NEW k \in Keys PROVE Budget(k)'
  BY DEF RateInv
<1>1. /\ l \in Batched /\ due[l] = -1 /\ sending' = batches[l] /\ UNCHANGED pushedAt
      /\ batches' = [batches EXCEPT ![l] = <<>>] /\ due' = [due EXCEPT ![l] = 0]
      /\ batches \in [Keys -> Seq(Messages)] /\ due \in [Keys -> Passed..RatePer]
      /\ sq # "record"
  BY DEF TakeBatch, DueFirst, Passed, Choosing, SquasherInv, SquasherTypeOK
<1>2. KeyOf[Head(sending')] = l
  <2>1. batches[l] \in Seq(Messages) /\ batches[l] # <<>>
    BY <1>1 DEF Batched
  <2>2. Head(batches[l]) \in ToSet(batches[l])
    BY <2>1, TailRemoves DEF SquasherInv, BatchesApart
  <2> QED BY <1>1, <2>2 DEF SquasherInv, BatchesApart
<1>3. CASE k # l
  <2>1. ~Recording(k) /\ ~Recording(k)' /\ due'[k] = due[k] /\ (k \in Batched' => k \in Batched)
    BY <1>1, <1>2, <1>3 DEF Recording, Batched
  <2> QED BY <1>1, <2>1 DEF RateInv, Budget
<1>4. CASE k = l
  <2>1. k \notin Batched' /\ ~Recording(k)
    BY <1>1, <1>4 DEF Batched, Recording
  <2>2. AtMost(pushedAt[k], RatePer - due[k] - 1, RateMax + 1)
    BY <1>1, <1>4, <2>1 DEF RateInv, Budget
  <2>3. RatePer - due[k] - 1 = RatePer
    BY <1>1, <1>4, KeyFacts
  <2> QED BY <1>1, <2>1, <2>2, <2>3 DEF RateInv, Budget
<1> QED BY <1>3, <1>4

LEMMA RecordBatchWithinBudget ==
  ASSUME SquasherInv, RateInv, RecordBatch
  PROVE  RateInv'
<1> SUFFICES ASSUME NEW k \in Keys PROVE Budget(k)'
  BY DEF RateInv
<1> DEFINE l == KeyOf[Head(sending)]
<1>1. /\ sq = "record" /\ sq' = "send" /\ UNCHANGED <<batches, due>>
      /\ pushedAt' = [pushedAt EXCEPT ![l] = Append(pushedAt[l], 0)]
      /\ pushedAt \in [Keys -> Seq(Sizes)]
  BY DEF RecordBatch, SquasherInv, SquasherTypeOK, Sizes
<1>2. ~Recording(k)' /\ Batched' = Batched /\ due'[k] = due[k] /\ (Recording(k) <=> k = l)
  BY <1>1 DEF Recording, Batched
<1>3. CASE k # l
  <2>1. pushedAt'[k] = pushedAt[k]
    BY <1>1, <1>3
  <2> QED BY <1>2, <1>3, <2>1 DEF RateInv, Budget
<1>4. CASE k = l
  <2> DEFINE s == pushedAt[k]
             age == RatePer - due[k] - 1
  <2>1. s \in Seq(Sizes) /\ RateMax \in Nat /\ RatePer \in Nat /\ age \in Int
    BY KeyFacts
  <2>2. AtMost(s, RatePer, RateMax + 1) /\ (k \in Batched => AtMost(s, age, RateMax))
    BY <1>2, <1>4 DEF RateInv, Budget
  <2>3. AtMost(Append(s, 0), RatePer, (RateMax + 1) + 1)
    BY <2>1, <2>2, AtMostAppend
  <2>4. k \in Batched => AtMost(Append(s, 0), age, RateMax + 1)
    BY <2>1, <2>2, AtMostAppend
  <2>5. (RateMax + 1) + 1 = RateMax + 2
    BY <2>1
  <2>6. pushedAt'[k] = Append(s, 0)
    BY <1>1, <1>4
  <2> QED BY <1>2, <2>3, <2>4, <2>5, <2>6 DEF Budget
<1> QED BY <1>3, <1>4

\* The pushes grow older and the batch's time comes nearer, both by one.
LEMMA TickWithinBudget ==
  ASSUME SquasherInv, RateInv, Tick
  PROVE  RateInv'
<1> SUFFICES ASSUME NEW k \in Keys PROVE Budget(k)'
  BY DEF RateInv
<1> DEFINE s == pushedAt[k]
           t == [i \in DOMAIN s |-> Older(s[i])]
<1>1. /\ pushedAt'[k] = t /\ due'[k] = Sooner(k) /\ UNCHANGED <<batches, sq, sending>>
  BY DEF Tick
<1>2. s \in Seq(Sizes) /\ RatePer \in Nat /\ RateMax \in Nat /\ due[k] \in -1..RatePer
  BY KeyFacts
<1>3. (Recording(k)' <=> Recording(k)) /\ Batched' = Batched
  BY <1>1 DEF Recording, Batched
<1>4. /\ AtMost(t, RatePer, RateMax + 2)
      /\ Recording(k) => AtMost(t, RatePer, RateMax + 1)
  BY <1>2, AtMostTick DEF RateInv, Budget
<1>5. ASSUME k \in Batched
      PROVE  AtMost(t, RatePer - Sooner(k) - 1, IF Recording(k) THEN RateMax ELSE RateMax + 1)
  <2> DEFINE a == RatePer - due[k] - 1
             age == RatePer - Sooner(k) - 1
             n == IF Recording(k) THEN RateMax ELSE RateMax + 1
  <2>1. a \in Int /\ age \in Int /\ n \in Nat /\ age <= RatePer
        /\ (age = a + 1 \/ (age = a /\ a = RatePer))
    BY <1>2, <1>5 DEF Sooner, Passed
  <2>2. AtMost(s, a, n)
    BY <1>5 DEF RateInv, Budget
  <2> QED BY <1>2, <2>1, <2>2, AtMostTick
<1> QED BY <1>1, <1>3, <1>4, <1>5 DEF Budget

\* Whoever calls the squasher, and whenever.
LEMMA StepWithinBudget ==
  ASSUME SquasherInv, RateInv, SquasherStep
  PROVE  RateInv'
<1>1. CASE \E m \in Messages : PushNow(m)
  BY <1>1, PushNowWithinBudget
<1>2. CASE \E m \in Messages : Squash(m)
  BY <1>2, SquashWithinBudget
<1>3. CASE \E k \in Keys : TakeBatch(k)
  BY <1>3, TakeBatchWithinBudget
<1>4. CASE RecordBatch
  BY <1>4, RecordBatchWithinBudget
<1>5. CASE Tick
  BY <1>5, TickWithinBudget
<1>6. CASE \/ RequestShutdown \/ WaitForBatch \/ Stop \/ Nap \/ WakeUp \/ SendBatch
           \/ RemoveSquashed \/ UNCHANGED sqVars
  <2>1. UNCHANGED <<pushedAt, batches, due>>
    BY <1>6 DEF RequestShutdown, WaitForBatch, Stop, Nap, WakeUp, SendBatch, RemoveSquashed,
                sqVars, rateVars
  <2>2. \A k \in Keys : Recording(k)' <=> Recording(k)
    BY <1>6 DEF RequestShutdown, WaitForBatch, Stop, Nap, WakeUp, SendBatch, RemoveSquashed,
                sqVars, Signal, Choosing, Recording
  <2> QED BY <2>1, <2>2 DEF RateInv, Budget, Batched
<1> QED BY <1>1, <1>2, <1>3, <1>4, <1>5, <1>6 DEF SquasherStep

-----------------------------------------------------------------------------
(* The messages.                                                           *)

LEMMA InBatchesAre == InBatches = {m \in Messages : InBatch(m)}
BY DEF InBatches, InBatch

LEMMA StepOfSquasher ==
  ASSUME TypeOK, Partition, [Next]_vars
  PROVE  SquasherStep
<1>1. ASSUME NEW m \in Messages, PushDirectly(m) \/ Squashed(m) \/ PushSettled(m) \/ PushTempFail(m)
      PROVE  SquasherStep
  BY <1>1 DEF PushDirectly, Squashed, PushSettled, PushTempFail, SquasherStep, Partition
<1>2. CASE BatchRemoval \/ BatchStep \/ Clock \/ UNCHANGED vars
  BY <1>2 DEF BatchRemoval, BatchStep, Clock, vars, SquasherStep
<1> QED BY <1>1, <1>2 DEF Next

LEMMA StepKeepsPartition ==
  ASSUME TypeOK, SquasherInv, Partition, [Next]_vars
  PROVE  /\ Partition'
         /\ queued' \subseteq Messages /\ pushing' \subseteq Messages /\ done' \subseteq Messages
<1> DEFINE squasher == InBatches \cup ToSet(sending)
<1>0. BatchTypes /\ BatchesApart /\ squasher \subseteq Messages
  <2>1. sending \in Seq(Messages)
    BY DEF SquasherInv, SquasherTypeOK
  <2> QED BY <2>1, ElementsOf DEF SquasherInv, SquasherTypeOK, BatchTypes, InBatches
<1>1. CASE \E m \in Messages : PushDirectly(m) \/ PushSettled(m) \/ PushTempFail(m)
  <2>1. PICK m \in Messages : PushDirectly(m) \/ PushSettled(m) \/ PushTempFail(m)
    BY <1>1
  <2>2. UNCHANGED <<batches, sending>>
    BY <2>1 DEF PushDirectly, PushSettled, PushTempFail, PushNow, sqVars, rateVars
  <2>3. squasher' = squasher
    BY <2>2 DEF InBatches
  <2> QED BY <2>1, <2>3 DEF PushDirectly, PushSettled, PushTempFail, TypeOK, Partition
<1>2. CASE \E m \in Messages : Squashed(m)
  <2>1. PICK m \in Messages : Squashed(m)
    BY <1>2
  <2>2. squasher' = squasher \cup {m}
    BY <1>0, <2>1, SquashMoves DEF Squashed
  <2> QED BY <2>1, <2>2 DEF Squashed, TypeOK, Partition
<1>3. CASE BatchRemoval
  <2>1. sending # <<>>
    BY <1>3 DEF BatchRemoval, RemoveSquashed, SquasherInv, Loaded
  <2>2. /\ Head(sending) \in ToSet(sending) /\ InBatches' = InBatches
        /\ ToSet(sending') = ToSet(sending) \ {Head(sending)}
    BY <1>0, <1>3, <2>1, RemoveSquashedMoves DEF BatchRemoval
  <2>3. squasher' = squasher \ {Head(sending)} /\ Head(sending) \in squasher
    BY <1>0, <2>2 DEF BatchesApart
  <2> QED BY <1>0, <1>3, <2>3 DEF BatchRemoval, TypeOK, Partition
<1>4. CASE BatchStep
  <2>1. squasher' = squasher
    <3>1. CASE \E k \in Keys : TakeBatch(k)
      <4>1. PICK k \in Keys : TakeBatch(k)
        BY <3>1
      <4>2. ToSet(sending) = {}
        <5>1. sending = <<>>
          BY <4>1 DEF TakeBatch, Choosing, SquasherInv, Loaded
        <5> QED BY <5>1 DEF ToSet
      <4> QED BY <1>0, <4>1, <4>2, TakeBatchMoves
    <3>2. CASE WaitForBatch \/ Nap \/ WakeUp \/ RecordBatch \/ SendBatch
      <4>1. UNCHANGED <<batches, sending>>
        BY <3>2 DEF WaitForBatch, Nap, WakeUp, RecordBatch, SendBatch, rateVars
      <4> QED BY <4>1 DEF InBatches
    <3> QED BY <1>4, <3>1, <3>2 DEF BatchStep
  <2> QED BY <1>4, <2>1 DEF BatchStep, TypeOK, Partition
<1>5. CASE Clock \/ UNCHANGED vars
  <2>1. UNCHANGED <<batches, sending, queued, pushing, done>>
    BY <1>5 DEF Clock, Tick, vars, sqVars, rateVars
  <2>2. squasher' = squasher
    BY <2>1 DEF InBatches
  <2> QED BY <2>1, <2>2 DEF TypeOK, Partition
<1> QED BY <1>1, <1>2, <1>3, <1>4, <1>5 DEF Next

-----------------------------------------------------------------------------
(* The theorems.                                                           *)

LEMMA InitHolds ==
  ASSUME Init
  PROVE  IInv
<1>1. SquasherInv
  BY SquasherInvInit DEF Init
<1>2. TypeOK
  BY <1>1 DEF Init, TypeOK, SquasherInv
<1>3. RateInv
  <2>1. \A k \in Keys : pushedAt[k] = <<>> /\ k \notin Batched /\ ~Recording(k)
    BY DEF Init, SquasherInit, Batched, Recording
  <2>2. Len(<<>>) = 0 /\ RateMax \in Nat
    BY SquasherAssumption
  <2>3. AtMost(<<>>, RatePer, RateMax + 2)
    BY <2>2 DEF AtMost
  <2> QED BY <2>1, <2>3 DEF RateInv, Budget
<1>4. Partition
  <2>1. InBatches = {} /\ ToSet(sending) = {}
    BY DEF Init, SquasherInit, InBatches, ToSet
  <2> QED BY <2>1 DEF Init, Partition
<1> QED BY <1>1, <1>2, <1>3, <1>4 DEF IInv

LEMMA StepHolds ==
  ASSUME IInv, [Next]_vars
  PROVE  IInv'
<1>1. SquasherStep
  BY StepOfSquasher DEF IInv
<1>2. SquasherInv' /\ RateInv'
  BY <1>1, SquasherInvStep, StepWithinBudget DEF IInv
<1> QED BY <1>2, StepKeepsPartition DEF IInv, TypeOK, SquasherInv

THEOREM IInvHolds == Spec => []IInv
BY InitHolds, StepHolds, PTL DEF Spec

\* Every variable keeps its type; recorded ages and due times stay in range.
THEOREM TypeOKHolds == Spec => []TypeOK
<1>1. IInv => TypeOK
  BY DEF IInv
<1> QED BY <1>1, IInvHolds, PTL

\* However the squasher's goroutine and the workers are scheduled, whatever the
\* rate: prepareToPush and sendBatch let at most RateMax + 2 pushes to a key
\* through within RatePer.
THEOREM RateBoundHolds == Spec => []RateBound
<1>1. IInv => RateBound
  <2> SUFFICES ASSUME IInv, NEW k \in Keys PROVE Len(InWindow(k)) <= RateMax + 2
    BY DEF RateBound
  <2>1. RateMax + 2 \in Nat
    BY SquasherAssumption
  <2>2. AtMost(pushedAt[k], RatePer, RateMax + 2)
    BY DEF IInv, RateInv, Budget
  <2> QED BY <2>1, <2>2, KeyFacts, WindowLength DEF IInv
<1> QED BY <1>1, IInvHolds, PTL

\* A message is with the queue, with one worker, in one batch, on its way out
\* with the squasher, or done, and in one of these places only.
THEOREM OnePlaceHolds == Spec => []OnePlace
<1>1. IInv => OnePlace
  <2> SUFFICES ASSUME IInv, NEW m \in Messages
               PROVE  LET place == <<queued, pushing, done, {n \in Messages : InBatch(n)}, ToSet(sending)>>
                      IN  Cardinality({i \in DOMAIN place : m \in place[i]}) = 1
    BY DEF OnePlace
  <2> DEFINE place == <<queued, pushing, done, {n \in Messages : InBatch(n)}, ToSet(sending)>>
             where == {i \in DOMAIN place : m \in place[i]}
  <2>1. /\ DOMAIN place = {1, 2, 3, 4, 5}
        /\ place[1] = queued /\ place[2] = pushing /\ place[3] = done
        /\ place[4] = InBatches /\ place[5] = ToSet(sending)
    BY InBatchesAre
  <2>2. InBatches \cap ToSet(sending) = {}
    BY DEF IInv, SquasherInv, BatchesApart
  <2>3. \E i \in 1..5 : where = {i}
    BY <2>1, <2>2 DEF IInv, Partition
  <2> HIDE DEF where
  <2>4. Cardinality(where) = 1
    BY <2>3, FS_Singleton
  <2> QED BY <2>4 DEF where
<1> QED BY <1>1, IInvHolds, PTL
=============================================================================
