--------------------------- MODULE SquasherProofs ---------------------------
(***************************************************************************)
(* Facts about Squasher that hold whoever calls it: what flushAndGetRate   *)
(* keeps of the recorded pushes, what each step does to the messages in    *)
(* batches and on their way out, and an invariant of all of its steps.     *)
(* PumpProofs and RateLimiterProofs build on it.                           *)
(***************************************************************************)
EXTENDS Squasher, FiniteSetTheorems, SequenceTheorems, WellFoundedInduction, TLAPS

Sizes == 0..TooOld

\* Pushes are recorded in order: the oldest comes first.
Aged(s) == \A i, j \in 1..Len(s) : i <= j => s[j] <= s[i]

\* The messages in batches.
InBatches == {m \in Messages : \E k \in Keys : m \in ToSet(batches[k])}

Distinct(s) == \A i, j \in 1..Len(s) : s[i] = s[j] => i = j

\* A batch holds messages of its key, each once.
BatchesApart ==
  /\ \A k \in Keys : Distinct(batches[k]) /\ \A m \in ToSet(batches[k]) : KeyOf[m] = k
  /\ Distinct(sending)
  /\ InBatches \cap ToSet(sending) = {}

\* There are messages on their way out exactly in these states.
Loaded == sq \in {"record", "send", "remove"} <=> sending # <<>>

SquasherInv ==
  /\ SquasherTypeOK
  /\ \A k \in Keys : Aged(pushedAt[k])
  /\ WokenForAReason
  /\ Loaded
  /\ BatchesApart

\* The steps of the squasher; a message is squashed that it does not have.
SquasherStep ==
  \/ \E m \in Messages : PushNow(m)
  \/ \E m \in Messages \ (InBatches \cup ToSet(sending)) : Squash(m)
  \/ \E k \in Keys : TakeBatch(k)
  \/ RequestShutdown \/ WaitForBatch \/ Stop \/ Nap \/ WakeUp
  \/ RecordBatch \/ SendBatch \/ RemoveSquashed
  \/ Tick
  \/ UNCHANGED sqVars

-----------------------------------------------------------------------------
(* The loop of flushAndGetRate.                                            *)

\* A set of natural numbers has a least one, as finite sets are well founded.
LEMMA LeastNatural ==
  ASSUME NEW T \in SUBSET Nat, T # {}
  PROVE  \E n \in T : \A m \in T : n <= m
<1> DEFINE Below(n) == 0..(n - 1)
           S == {Below(n) : n \in T}
<1>1. S \subseteq FiniteSubsetsOf(Nat) /\ S # {}
  <2>1. \A n \in Nat : IsFiniteSet(Below(n)) /\ Below(n) \in SUBSET Nat
    BY FS_Interval
  <2> QED BY <2>1 DEF FiniteSubsetsOf
<1>2. \E x \in S : \A y \in S : <<y, x>> \notin StrictSubsetOrdering(Nat)
  <2> HIDE DEF S
  <2> QED BY <1>1, FS_StrictSubsetOrderingWellFounded, WFMin
<1>3. PICK n \in T : \A m \in T : <<Below(m), Below(n)>> \notin StrictSubsetOrdering(Nat)
  BY <1>2
<1>4. ASSUME NEW m \in T, ~(n <= m) PROVE FALSE
  <2>1. Below(m) \in SUBSET Nat /\ Below(n) \in SUBSET Nat
    OBVIOUS
  <2>2. m \in Below(n) /\ m \notin Below(m) /\ Below(m) \subseteq Below(n)
    BY <1>4
  <2> QED BY <1>3, <2>1, <2>2 DEF StrictSubsetOrdering
<1> QED BY <1>4

\* g is the loop's flushedTimes after each of its first n turns.
Loop(g, times, n) ==
  g = [i \in 0..n |->
         IF i = 0 THEN <<>>
         ELSE IF times[i] > RatePer THEN g[i - 1]
         ELSE Append(g[i - 1], times[i])]

LEMMA LoopRuns ==
  ASSUME NEW times, NEW L \in Nat
  PROVE  \E g : Loop(g, times, L)
<1> DEFINE T == {n \in Nat : ~ \E g : Loop(g, times, n)}
<1>1. ASSUME T # {} PROVE FALSE
  <2>1. PICK n \in T : \A m \in T : n <= m
    BY <1>1, LeastNatural
  <2>2. n # 0
    <3>1. Loop([i \in 0..0 |-> <<>>], times, 0)
      BY DEF Loop
    <3> QED BY <3>1
  <2>3. n \in Nat /\ n - 1 \in Nat /\ n - 1 \notin T
    BY <2>1, <2>2
  <2>4. PICK g : Loop(g, times, n - 1)
    BY <2>3
  <2> DEFINE h == [i \in 0..n |->
                     IF i < n THEN g[i]
                     ELSE IF times[i] > RatePer THEN g[i - 1]
                     ELSE Append(g[i - 1], times[i])]
  <2>5. \A i \in 0..(n - 1) :
          g[i] = IF i = 0 THEN <<>>
                 ELSE IF times[i] > RatePer THEN g[i - 1]
                 ELSE Append(g[i - 1], times[i])
    BY <2>3, <2>4 DEF Loop
  <2>6. ASSUME NEW i \in 0..n
        PROVE  h[i] = IF i = 0 THEN <<>>
                      ELSE IF times[i] > RatePer THEN h[i - 1]
                      ELSE Append(h[i - 1], times[i])
    <3>1. CASE i < n
      <4>1. i \in 0..(n - 1) /\ h[i] = g[i] /\ (i # 0 => h[i - 1] = g[i - 1])
        BY <2>3, <3>1
      <4> QED BY <2>5, <4>1
    <3>2. CASE i = n
      <4>1. i # 0 /\ h[i - 1] = g[i - 1]
        BY <2>2, <2>3, <3>2
      <4>2. h[i] = IF times[i] > RatePer THEN g[i - 1] ELSE Append(g[i - 1], times[i])
        BY <2>3, <3>2
      <4> HIDE DEF h
      <4> QED BY <4>1, <4>2
    <3> QED BY <2>3, <3>1, <3>2
  <2>7. Loop(h, times, n)
    BY <2>6 DEF Loop
  <2> QED BY <2>7
<1> QED BY <1>1

LEMMA InWindowLoops ==
  ASSUME NEW k, Len(pushedAt[k]) \in Nat
  PROVE  \E g : Loop(g, pushedAt[k], Len(pushedAt[k])) /\ InWindow(k) = g[Len(pushedAt[k])]
<1> DEFINE times == pushedAt[k]
           f == CHOOSE g : Loop(g, times, Len(times))
<1>1. Loop(f, times, Len(times))
  BY LoopRuns
<1>2. InWindow(k) = f[Len(times)]
  BY DEF InWindow, Loop
<1> QED BY <1>1, <1>2

\* s without its first d entries, which are those too old.
Flushes(s, d, n, kept) ==
  /\ d \in 0..n
  /\ \A i \in 1..d : s[i] > RatePer
  /\ \A i \in (d + 1)..n : s[i] <= RatePer
  /\ kept \in Seq(0..RatePer)
  /\ Len(kept) = n - d
  /\ \A j \in 1..(n - d) : kept[j] = s[d + j]

LEMMA LoopFlushes ==
  ASSUME NEW s \in Seq(Sizes), Aged(s), NEW g, Loop(g, s, Len(s))
  PROVE  \E d \in Nat : Flushes(s, d, Len(s), g[Len(s)])
<1> DEFINE L == Len(s)
           T == {n \in 0..L : ~ \E d \in Nat : Flushes(s, d, n, g[n])}
<1>1. RatePer \in Nat /\ L \in Nat /\ \A i \in 1..L : s[i] \in 0..(RatePer + 1)
  BY SquasherAssumption, ElementOfSeq, LenProperties DEF Sizes, TooOld
<1>2. ASSUME T # {} PROVE FALSE
  <2>1. T \in SUBSET Nat
    BY <1>1
  <2>2. PICK n \in T : \A m \in T : n <= m
    BY <1>2, <2>1, LeastNatural
  <2>3. n \in 0..L /\ ~ \E d \in Nat : Flushes(s, d, n, g[n])
    BY <2>2
  <2>4. n # 0
    <3>1. ASSUME n = 0 PROVE FALSE
      <4>1. g[0] = <<>>
        BY <1>1 DEF Loop
      <4>2. <<>> \in Seq(0..RatePer) /\ Len(<<>>) = 0
        BY EmptySeq
      <4>3. Flushes(s, 0, n, g[n])
        BY <3>1, <4>1, <4>2 DEF Flushes
      <4> QED BY <2>3, <4>3
    <3> QED BY <3>1
  <2>5. n - 1 \in 0..L /\ n - 1 \notin T
    BY <1>1, <2>2, <2>3, <2>4
  <2>6. PICK d \in Nat : Flushes(s, d, n - 1, g[n - 1])
    BY <2>5
  <2>7. /\ d \in 0..(n - 1) /\ g[n - 1] \in Seq(0..RatePer) /\ Len(g[n - 1]) = n - 1 - d
        /\ n \in 1..L /\ s[n] \in Nat
    BY <1>1, <2>3, <2>4, <2>6 DEF Flushes
  <2>8. g[n] = IF s[n] > RatePer THEN g[n - 1] ELSE Append(g[n - 1], s[n])
    <3>1. n \in 0..L /\ n # 0
      BY <2>3, <2>4
    <3> QED BY <3>1 DEF Loop
  <2>9. CASE s[n] > RatePer
    <3>1. d = n - 1
      <4>1. ASSUME d # n - 1 PROVE FALSE
        <5>1. d + 1 \in (d + 1)..(n - 1) /\ d + 1 \in 1..L /\ d + 1 <= n
          BY <1>1, <2>7, <4>1
        <5>2. s[d + 1] <= RatePer /\ s[n] <= s[d + 1]
          BY <2>6, <2>7, <5>1 DEF Flushes, Aged
        <5>3. s[d + 1] \in Nat
          BY <1>1, <5>1
        <5> QED BY <1>1, <2>7, <2>9, <5>2, <5>3
      <4> QED BY <4>1
    <3>2. \A i \in 1..n : s[i] > RatePer
      <4>1. \A i \in 1..n : i = n \/ i \in 1..d
        BY <2>7, <3>1
      <4> QED BY <2>6, <2>9, <4>1 DEF Flushes
    <3>3. Flushes(s, n, n, g[n])
      BY <2>7, <2>8, <2>9, <3>1, <3>2 DEF Flushes
    <3> QED BY <2>3, <3>3
  <2>10. CASE ~(s[n] > RatePer)
    <3>1. s[n] \in 0..RatePer
      BY <1>1, <2>7, <2>10
    <3>2. /\ g[n] \in Seq(0..RatePer)
          /\ Len(g[n]) = n - d
          /\ \A j \in 1..(n - 1 - d) : g[n][j] = g[n - 1][j]
          /\ g[n][n - d] = s[n]
      <4>1. g[n] = Append(g[n - 1], s[n])
        BY <2>8, <2>10
      <4>2. Len(g[n - 1]) + 1 = n - d
        BY <2>7
      <4> QED BY <2>7, <3>1, <4>1, <4>2, AppendProperties
    <3>3. ASSUME NEW j \in 1..(n - d) PROVE g[n][j] = s[d + j]
      <4>1. CASE j = n - d
        BY <2>7, <3>2, <4>1
      <4>2. CASE j # n - d
        <5>1. j \in 1..(n - 1 - d)
          BY <2>7, <4>2
        <5> QED BY <2>6, <3>2, <5>1 DEF Flushes
      <4> QED BY <4>1, <4>2
    <3>4. ASSUME NEW i \in (d + 1)..n PROVE s[i] <= RatePer
      <4>1. i = n \/ i \in (d + 1)..(n - 1)
        BY <2>7
      <4> QED BY <2>6, <3>1, <4>1 DEF Flushes
    <3>5. d \in 0..n /\ \A i \in 1..d : s[i] > RatePer
      BY <2>6, <2>7 DEF Flushes
    <3>6. Flushes(s, d, n, g[n])
      BY <3>2, <3>3, <3>4, <3>5 DEF Flushes
    <3> QED BY <2>3, <3>6
  <2> QED BY <2>9, <2>10
<1>3. L \in 0..L
  BY <1>1
<1> QED BY <1>2, <1>3

\* flushAndGetRate keeps the pushes that are young enough, as they are.
LEMMA InWindowFlushes ==
  ASSUME NEW k, pushedAt[k] \in Seq(Sizes), Aged(pushedAt[k])
  PROVE  \E d \in Nat : Flushes(pushedAt[k], d, Len(pushedAt[k]), InWindow(k))
<1>1. Len(pushedAt[k]) \in Nat
  BY LenProperties
<1> QED BY <1>1, InWindowLoops, LoopFlushes

\* What is kept is a window of recorded pushes, oldest first.
LEMMA InWindowIsAged ==
  ASSUME NEW k, pushedAt[k] \in Seq(Sizes), Aged(pushedAt[k])
  PROVE  /\ InWindow(k) \in Seq(0..RatePer)
         /\ InWindow(k) \in Seq(Sizes)
         /\ Aged(InWindow(k))
<1>1. PICK d \in Nat : Flushes(pushedAt[k], d, Len(pushedAt[k]), InWindow(k))
  BY InWindowFlushes
<1>2. Len(pushedAt[k]) \in Nat /\ RatePer \in Nat
  BY LenProperties, SquasherAssumption
<1>3. InWindow(k) \in Seq(Sizes)
  <2>1. 0..RatePer \subseteq Sizes
    BY <1>2 DEF Sizes, TooOld
  <2> QED BY <1>1, <2>1, SeqMonotonic DEF Flushes
<1>4. ASSUME NEW i \in 1..Len(InWindow(k)), NEW j \in 1..Len(InWindow(k)), i <= j
      PROVE  InWindow(k)[j] <= InWindow(k)[i]
  <2>1. /\ d + i \in 1..Len(pushedAt[k]) /\ d + j \in 1..Len(pushedAt[k]) /\ d + i <= d + j
        /\ i \in 1..(Len(pushedAt[k]) - d) /\ j \in 1..(Len(pushedAt[k]) - d)
    <3>1. Len(InWindow(k)) = Len(pushedAt[k]) - d /\ d \in 0..Len(pushedAt[k])
      BY <1>1 DEF Flushes
    <3> QED BY <1>2, <1>4, <3>1
  <2> QED BY <1>1, <2>1 DEF Flushes, Aged
<1> QED BY <1>1, <1>3, <1>4 DEF Flushes, Aged

-----------------------------------------------------------------------------
(* What steps do to the recorded pushes.                                   *)

LEMMA RecordKeepsAged ==
  ASSUME NEW s \in Seq(Sizes), Aged(s)
  PROVE  Append(s, 0) \in Seq(Sizes) /\ Aged(Append(s, 0))
<1>1. 0 \in Sizes /\ Len(s) \in Nat /\ \A i \in 1..Len(s) : s[i] \in Nat
  BY SquasherAssumption, LenProperties, ElementOfSeq DEF Sizes, TooOld
<1>2. /\ Append(s, 0) \in Seq(Sizes)
      /\ Len(Append(s, 0)) = Len(s) + 1
      /\ \A i \in 1..Len(s) : Append(s, 0)[i] = s[i]
      /\ Append(s, 0)[Len(s) + 1] = 0
  BY <1>1, AppendProperties
<1>3. ASSUME NEW i \in 1..(Len(s) + 1), NEW j \in 1..(Len(s) + 1), i <= j
      PROVE  Append(s, 0)[j] <= Append(s, 0)[i]
  <2>1. CASE j = Len(s) + 1
    <3>1. Append(s, 0)[i] \in Nat
      BY <1>1, <1>2
    <3> QED BY <1>2, <2>1, <3>1
  <2>2. CASE j # Len(s) + 1
    <3>1. i \in 1..Len(s) /\ j \in 1..Len(s)
      BY <1>1, <1>3, <2>2
    <3> QED BY <1>2, <1>3, <3>1 DEF Aged
  <2> QED BY <2>1, <2>2
<1> QED BY <1>2, <1>3 DEF Aged

LEMMA TimeKeepsAged ==
  ASSUME NEW s \in Seq(Sizes), Aged(s)
  PROVE  LET t == [i \in DOMAIN s |-> Older(s[i])] IN
         /\ t \in Seq(Sizes) /\ Len(t) = Len(s) /\ DOMAIN t = 1..Len(s) /\ Aged(t)
<1> DEFINE t == [i \in DOMAIN s |-> Older(s[i])]
<1>1. /\ Len(s) \in Nat /\ DOMAIN s = 1..Len(s) /\ RatePer \in Nat
      /\ \A i \in 1..Len(s) : s[i] \in 0..(RatePer + 1)
  BY SquasherAssumption, LenProperties, ElementOfSeq DEF Sizes, TooOld
<1>2. t \in [1..Len(s) -> Sizes]
  BY <1>1 DEF Older, Sizes, TooOld
<1>3. t \in Seq(Sizes) /\ Len(t) = Len(s) /\ DOMAIN t = 1..Len(s)
  <2>1. t \in UNION {[1..n -> Sizes] : n \in Nat}
    BY <1>1, <1>2
  <2>2. t \in Seq(Sizes)
    BY <2>1, SeqDef
  <2>3. DOMAIN t = 1..Len(s) /\ DOMAIN t = 1..Len(t) /\ Len(t) \in Nat
    BY <1>1, <2>2, LenProperties
  <2> QED BY <1>1, <2>2, <2>3
<1>4. \A i, j \in 1..Len(s) : i <= j => t[j] <= t[i]
  <2> SUFFICES ASSUME NEW i \in 1..Len(s), NEW j \in 1..Len(s), i <= j
               PROVE  Older(s[j]) <= Older(s[i])
    BY <1>1
  <2>1. s[j] <= s[i]
    BY DEF Aged
  <2> QED BY <1>1, <2>1 DEF Older, TooOld
<1> QED BY <1>3, <1>4 DEF Aged

\* The key of what is being sent.
LEMMA SendingHasKey ==
  ASSUME SquasherInv, sq \in {"record", "send", "remove"}
  PROVE  /\ sending \in Seq(Messages) /\ sending # <<>> /\ Len(sending) \in Nat \ {0}
         /\ Head(sending) = sending[1] /\ Head(sending) \in Messages
         /\ KeyOf[Head(sending)] \in Keys
<1>1. sending \in Seq(Messages) /\ sending # <<>>
  BY DEF SquasherInv, SquasherTypeOK, Loaded
<1>2. Len(sending) \in Nat \ {0}
  BY <1>1, EmptySeq
<1>3. Head(sending) = sending[1] /\ Head(sending) \in Messages
  BY <1>1, <1>2, HeadTailProperties
<1> QED BY <1>1, <1>2, <1>3, SquasherAssumption

LEMMA StepKeepsPushes ==
  ASSUME SquasherInv, SquasherStep
  PROVE  /\ pushedAt' \in [Keys -> Seq(Sizes)]
         /\ \A k \in Keys : Aged(pushedAt'[k])
<1>1. pushedAt \in [Keys -> Seq(Sizes)] /\ \A l \in Keys : Aged(pushedAt[l])
  BY DEF SquasherInv, SquasherTypeOK, Sizes
<1>2. CASE UNCHANGED pushedAt
  BY <1>1, <1>2
<1>3. CASE \E l \in Keys : \E s \in Seq(Sizes) :
             Aged(s) /\ pushedAt' = [pushedAt EXCEPT ![l] = s]
  <2>1. PICK l \in Keys, s \in Seq(Sizes) :
          Aged(s) /\ pushedAt' = [pushedAt EXCEPT ![l] = s]
    BY <1>3
  <2>2. pushedAt' \in [Keys -> Seq(Sizes)]
    BY <1>1, <2>1
  <2>3. \A k \in Keys : Aged(pushedAt'[k])
    BY <1>1, <2>1
  <2> QED BY <2>2, <2>3
<1>4. CASE \E m \in Messages : PushNow(m) \/ Squash(m)
  <2>1. PICK m \in Messages : PushNow(m) \/ Squash(m)
    BY <1>4
  <2>2. KeyOf[m] \in Keys
    BY SquasherAssumption
  <2>3. InWindow(KeyOf[m]) \in Seq(Sizes) /\ Aged(InWindow(KeyOf[m]))
    BY <1>1, <2>2, InWindowIsAged
  <2>4. /\ Append(InWindow(KeyOf[m]), 0) \in Seq(Sizes)
        /\ Aged(Append(InWindow(KeyOf[m]), 0))
    BY <2>3, RecordKeepsAged
  <2> QED BY <1>3, <2>1, <2>2, <2>3, <2>4 DEF PushNow, Squash
<1>5. CASE RecordBatch
  <2>1. KeyOf[Head(sending)] \in Keys
    BY <1>5, SendingHasKey DEF RecordBatch
  <2> DEFINE l == KeyOf[Head(sending)]
  <2>2. /\ Append(pushedAt[l], 0) \in Seq(Sizes)
        /\ Aged(Append(pushedAt[l], 0))
    BY <1>1, <2>1, RecordKeepsAged
  <2> QED BY <1>3, <1>5, <2>1, <2>2 DEF RecordBatch
<1>6. CASE Tick
  <2>1. pushedAt' = [l \in Keys |-> [i \in DOMAIN pushedAt[l] |-> Older(pushedAt[l][i])]]
    BY <1>6 DEF Tick
  <2>2. \A l \in Keys : pushedAt'[l] \in Seq(Sizes) /\ Aged(pushedAt'[l])
    BY <1>1, <2>1, TimeKeepsAged
  <2> QED BY <2>1, <2>2
<1> QED BY <1>2, <1>4, <1>5, <1>6
  DEF SquasherStep, RequestShutdown, WaitForBatch, Stop, Nap, WakeUp, SendBatch,
      RemoveSquashed, TakeBatch, sqVars, rateVars

-----------------------------------------------------------------------------
(* What steps do to the messages.                                          *)

LEMMA ElementsOf ==
  ASSUME NEW s \in Seq(Messages)
  PROVE  /\ Len(s) \in Nat /\ DOMAIN s = 1..Len(s)
         /\ ToSet(s) = {s[i] : i \in 1..Len(s)}
         /\ ToSet(s) \subseteq Messages
         /\ s = <<>> <=> ToSet(s) = {}
<1>1. Len(s) \in Nat /\ DOMAIN s = 1..Len(s) /\ \A i \in 1..Len(s) : s[i] \in Messages
  BY LenProperties, ElementOfSeq
<1>2. s # <<>> => Len(s) # 0
  BY EmptySeq
<1>3. s = <<>> => Len(s) = 0
  BY EmptySeq
<1>4. Len(s) # 0 => 1 \in 1..Len(s)
  BY <1>1
<1>5. ToSet(s) = {s[i] : i \in 1..Len(s)}
  BY <1>1 DEF ToSet
<1>6. s = <<>> => ToSet(s) = {}
  <2>1. Len(s) = 0 => 1..Len(s) = {}
    BY <1>1
  <2> QED BY <1>3, <1>5, <2>1
<1>7. s # <<>> => ToSet(s) # {}
  BY <1>2, <1>4, <1>5
<1> QED BY <1>1, <1>5, <1>6, <1>7

LEMMA AppendAdds ==
  ASSUME NEW s \in Seq(Messages), NEW m \in Messages
  PROVE  /\ Append(s, m) \in Seq(Messages)
         /\ ToSet(Append(s, m)) = ToSet(s) \cup {m}
         /\ Distinct(s) /\ m \notin ToSet(s) => Distinct(Append(s, m))
<1>1. Len(s) \in Nat /\ ToSet(s) = {s[i] : i \in 1..Len(s)}
  BY ElementsOf
<1>2. /\ Append(s, m) \in Seq(Messages)
      /\ Len(Append(s, m)) = Len(s) + 1
      /\ \A i \in 1..Len(s) : Append(s, m)[i] = s[i]
      /\ Append(s, m)[Len(s) + 1] = m
  BY AppendProperties
<1>3. \A i \in 1..(Len(s) + 1) : i = Len(s) + 1 \/ i \in 1..Len(s)
  BY <1>1
<1>4. ToSet(Append(s, m)) = {Append(s, m)[i] : i \in 1..(Len(s) + 1)}
  BY <1>2, ElementsOf
<1>5. Len(s) + 1 \in 1..(Len(s) + 1) /\ \A i \in 1..Len(s) : i \in 1..(Len(s) + 1)
  BY <1>1
<1>6. ToSet(Append(s, m)) = ToSet(s) \cup {m}
  BY <1>1, <1>2, <1>3, <1>4, <1>5
<1>7. Distinct(s) /\ m \notin ToSet(s) => Distinct(Append(s, m))
  BY <1>1, <1>2, <1>3 DEF Distinct
<1> QED BY <1>2, <1>6, <1>7

LEMMA TailRemoves ==
  ASSUME NEW s \in Seq(Messages), s # <<>>, Distinct(s)
  PROVE  /\ Tail(s) \in Seq(Messages) /\ Distinct(Tail(s))
         /\ Head(s) \in ToSet(s)
         /\ ToSet(Tail(s)) = ToSet(s) \ {Head(s)}
         /\ Tail(s) = <<>> <=> Len(s) = 1
<1>1. /\ Len(s) \in Nat \ {0} /\ ToSet(s) = {s[i] : i \in 1..Len(s)}
      /\ Head(s) = s[1] /\ 1 \in 1..Len(s)
  BY EmptySeq, ElementsOf, HeadTailProperties
<1>2. /\ Tail(s) \in Seq(Messages) /\ Len(Tail(s)) = Len(s) - 1
      /\ \A i \in 1..(Len(s) - 1) : Tail(s)[i] = s[i + 1]
  BY HeadTailProperties
<1>3. ToSet(Tail(s)) = {Tail(s)[i] : i \in 1..(Len(s) - 1)} /\ (Tail(s) = <<>> <=> Len(Tail(s)) = 0)
  BY <1>2, ElementsOf, EmptySeq
<1>4. /\ \A i \in 1..(Len(s) - 1) : i + 1 \in 1..Len(s) /\ i + 1 # 1
      /\ \A i \in 1..Len(s) : i # 1 => i - 1 \in 1..(Len(s) - 1) /\ (i - 1) + 1 = i
  BY <1>1
<1>5. ToSet(Tail(s)) = ToSet(s) \ {Head(s)}
  <2>1. \A i \in 1..Len(s) : i # 1 => s[i] # s[1] /\ s[i] = Tail(s)[i - 1]
    BY <1>1, <1>2, <1>4 DEF Distinct
  <2>2. \A i \in 1..(Len(s) - 1) : Tail(s)[i] \in ToSet(s) /\ Tail(s)[i] # Head(s)
    BY <1>1, <1>2, <1>4, <2>1
  <2>3. \A x \in ToSet(s) \ {Head(s)} : \E i \in 1..(Len(s) - 1) : x = Tail(s)[i]
    BY <1>1, <1>4, <2>1
  <2> QED BY <1>3, <2>2, <2>3
<1>6. Distinct(Tail(s))
  <2> SUFFICES ASSUME NEW i \in 1..(Len(s) - 1), NEW j \in 1..(Len(s) - 1),
                      Tail(s)[i] = Tail(s)[j]
               PROVE  i = j
    BY <1>2 DEF Distinct
  <2>1. i + 1 = j + 1
    BY <1>2, <1>4 DEF Distinct
  <2> QED BY <2>1
<1> QED BY <1>1, <1>2, <1>3, <1>5, <1>6

\* batches and sending keep their types.
BatchTypes == batches \in [Keys -> Seq(Messages)] /\ sending \in Seq(Messages)

LEMMA QuietBatches ==
  ASSUME UNCHANGED <<batches, sending>>
  PROVE  /\ InBatches' = InBatches /\ Batched' = Batched
         /\ BatchTypes => BatchTypes'
         /\ BatchesApart => BatchesApart'
<1>1. InBatches' = InBatches /\ Batched' = Batched
  BY DEF InBatches, Batched
<1> QED BY <1>1 DEF BatchTypes, BatchesApart

\* A squashed message joins the batch of its key.
LEMMA SquashMoves ==
  ASSUME BatchTypes, NEW m \in Messages, Squash(m)
  PROVE  /\ InBatches' = InBatches \cup {m}
         /\ UNCHANGED sending
         /\ BatchTypes'
         /\ Batched' # {}
         /\ BatchesApart /\ m \notin InBatches \cup ToSet(sending) => BatchesApart'
<1> DEFINE k == KeyOf[m]
<1>1. /\ k \in Keys /\ batches \in [Keys -> Seq(Messages)] /\ sending' = sending
      /\ batches' = [batches EXCEPT ![k] = Append(batches[k], m)]
      /\ batches[k] \in Seq(Messages)
  BY SquasherAssumption DEF Squash, BatchTypes
<1>2. /\ Append(batches[k], m) \in Seq(Messages)
      /\ ToSet(Append(batches[k], m)) = ToSet(batches[k]) \cup {m}
      /\ Distinct(batches[k]) /\ m \notin ToSet(batches[k]) => Distinct(Append(batches[k], m))
  BY <1>1, AppendAdds
<1>3. \A l \in Keys : batches'[l] = IF l = k THEN Append(batches[k], m) ELSE batches[l]
  BY <1>1
<1>4. BatchTypes'
  BY <1>1, <1>2 DEF BatchTypes
<1>5. InBatches' = InBatches \cup {m}
  BY <1>1, <1>2, <1>3 DEF InBatches
<1>6. Batched' # {}
  <2>1. batches'[k] # <<>>
    BY <1>1, <1>2, <1>3, ElementsOf
  <2> QED BY <1>1, <2>1 DEF Batched
<1>7. ASSUME BatchesApart, m \notin InBatches \cup ToSet(sending) PROVE BatchesApart'
  <2>1. m \notin ToSet(batches[k])
    BY <1>1, <1>7 DEF InBatches
  <2>2. \A l \in Keys : Distinct(batches'[l]) /\ \A n \in ToSet(batches'[l]) : KeyOf[n] = l
    BY <1>1, <1>2, <1>3, <1>7, <2>1 DEF BatchesApart
  <2>3. InBatches' \cap ToSet(sending') = {}
    BY <1>1, <1>5, <1>7 DEF BatchesApart
  <2> QED BY <1>1, <1>7, <2>2, <2>3 DEF BatchesApart
<1> QED BY <1>1, <1>4, <1>5, <1>6, <1>7

\* The squasher takes the batch of a key as it is.
LEMMA TakeBatchMoves ==
  ASSUME BatchTypes, BatchesApart, NEW k \in Keys, TakeBatch(k)
  PROVE  /\ ToSet(sending') = ToSet(batches[k])
         /\ ToSet(batches[k]) \subseteq InBatches
         /\ InBatches' = InBatches \ ToSet(batches[k])
         /\ BatchTypes' /\ sending' # <<>>
         /\ BatchesApart'
<1>1. /\ batches \in [Keys -> Seq(Messages)] /\ batches[k] \in Seq(Messages)
      /\ sending' = batches[k] /\ batches' = [batches EXCEPT ![k] = <<>>]
      /\ batches[k] # <<>>
  BY DEF TakeBatch, DueFirst, Batched, BatchTypes
<1>2. <<>> \in Seq(Messages) /\ ToSet(<<>>) = {} /\ Distinct(<<>>)
  BY EmptySeq DEF ToSet, Distinct
<1>3. \A l \in Keys : batches'[l] = IF l = k THEN <<>> ELSE batches[l]
  BY <1>1
<1>4. BatchTypes'
  BY <1>1, <1>2 DEF BatchTypes
<1>5. ToSet(batches[k]) \subseteq InBatches
  BY <1>1, ElementsOf DEF InBatches
<1>6. InBatches' = InBatches \ ToSet(batches[k])
  BY <1>2, <1>3 DEF InBatches, BatchesApart
<1>7. BatchesApart'
  <2>1. \A l \in Keys : Distinct(batches'[l]) /\ \A n \in ToSet(batches'[l]) : KeyOf[n] = l
    BY <1>2, <1>3 DEF BatchesApart
  <2> QED BY <1>1, <1>6, <2>1 DEF BatchesApart
<1> QED BY <1>1, <1>4, <1>5, <1>6, <1>7

\* The messages of a batch are removed one by one.
LEMMA RemoveSquashedMoves ==
  ASSUME BatchTypes, BatchesApart, sending # <<>>, RemoveSquashed
  PROVE  /\ Head(sending) \in ToSet(sending)
         /\ ToSet(sending') = ToSet(sending) \ {Head(sending)}
         /\ sending' = <<>> <=> Len(sending) = 1
         /\ InBatches' = InBatches /\ Batched' = Batched
         /\ BatchTypes'
         /\ BatchesApart'
<1>1. /\ sending \in Seq(Messages) /\ Distinct(sending)
      /\ sending' = Tail(sending) /\ batches' = batches
  BY DEF RemoveSquashed, BatchTypes, BatchesApart, rateVars
<1>2. InBatches' = InBatches /\ Batched' = Batched
  BY <1>1 DEF InBatches, Batched
<1>3. /\ sending' \in Seq(Messages) /\ Distinct(sending')
      /\ Head(sending) \in ToSet(sending)
      /\ ToSet(sending') = ToSet(sending) \ {Head(sending)}
      /\ sending' = <<>> <=> Len(sending) = 1
  BY <1>1, TailRemoves
<1>4. BatchesApart'
  BY <1>1, <1>2, <1>3 DEF BatchesApart
<1> QED BY <1>1, <1>2, <1>3, <1>4 DEF BatchTypes

-----------------------------------------------------------------------------
(* The invariant.                                                          *)

LEMMA StepKeepsBatches ==
  ASSUME SquasherInv, SquasherStep
  PROVE  /\ BatchTypes' /\ BatchesApart'
         /\ Loaded' /\ WokenForAReason'
         /\ stopReq' \in BOOLEAN /\ sq' \in SqPCs
<1>1. /\ BatchTypes /\ BatchesApart /\ Loaded /\ WokenForAReason
      /\ stopReq \in BOOLEAN /\ sq \in SqPCs
  BY DEF SquasherInv, SquasherTypeOK, BatchTypes
<1> USE DEF SqPCs, Loaded, WokenForAReason
<1>2. CASE \E m \in Messages : PushNow(m)
  BY <1>1, <1>2, QuietBatches DEF PushNow
<1>3. CASE \E m \in Messages \ (InBatches \cup ToSet(sending)) : Squash(m)
  <2>1. PICK m \in Messages \ (InBatches \cup ToSet(sending)) : Squash(m)
    BY <1>3
  <2>2. BatchTypes' /\ BatchesApart' /\ Batched' # {} /\ UNCHANGED <<sending, stopReq>>
    BY <1>1, <2>1, SquashMoves DEF Squash
  <2> QED BY <1>1, <2>1, <2>2 DEF Squash, Signal
<1>4. CASE \E k \in Keys : TakeBatch(k)
  <2>1. PICK k \in Keys : TakeBatch(k)
    BY <1>4
  <2>2. BatchTypes' /\ BatchesApart' /\ sending' # <<>>
    BY <1>1, <2>1, TakeBatchMoves
  <2> QED BY <1>1, <2>1, <2>2 DEF TakeBatch
<1>5. CASE RemoveSquashed
  <2>1. sending # <<>>
    BY <1>1, <1>5 DEF RemoveSquashed
  <2>2. BatchTypes' /\ BatchesApart' /\ (sending' = <<>> <=> Len(sending) = 1)
    BY <1>1, <1>5, <2>1, RemoveSquashedMoves
  <2> QED BY <1>1, <1>5, <2>2 DEF RemoveSquashed
<1>6. CASE \/ RequestShutdown \/ WaitForBatch \/ Stop \/ Nap \/ WakeUp
           \/ RecordBatch \/ SendBatch \/ Tick \/ UNCHANGED sqVars
  <2>1. UNCHANGED <<batches, sending>>
    BY <1>6 DEF RequestShutdown, WaitForBatch, Stop, Nap, WakeUp, RecordBatch, SendBatch,
                Tick, sqVars, rateVars
  <2>2. BatchTypes' /\ BatchesApart' /\ Batched' = Batched
    BY <1>1, <2>1, QuietBatches
  <2> QED BY <1>1, <1>6, <2>1, <2>2
      DEF RequestShutdown, WaitForBatch, Stop, Nap, WakeUp, RecordBatch, SendBatch,
          Tick, sqVars, Signal, Choosing
<1> QED BY <1>2, <1>3, <1>4, <1>5, <1>6 DEF SquasherStep

LEMMA StepKeepsDue ==
  ASSUME SquasherInv, SquasherStep
  PROVE  due' \in [Keys -> Passed..RatePer] /\ wakeIn' \in 0..1
<1>1. /\ due \in [Keys -> Passed..RatePer] /\ wakeIn \in 0..1 /\ RatePer \in Nat
      /\ RateMax \in Nat \ {0}
  BY SquasherAssumption DEF SquasherInv, SquasherTypeOK
<1> USE DEF Passed
<1>2. CASE \E m \in Messages : Squash(m)
  <2>1. PICK m \in Messages : Squash(m)
    BY <1>2
  <2> DEFINE k == KeyOf[m]
  <2>2. k \in Keys /\ InWindow(k) \in Seq(0..RatePer)
    BY SquasherAssumption, InWindowIsAged DEF SquasherInv, SquasherTypeOK, Sizes
  <2>3. Len(InWindow(k)) # 0
    BY <1>1, <2>1, <2>2, LenProperties DEF Squash
  <2>4. Head(InWindow(k)) \in 0..RatePer
    BY <2>2, <2>3, HeadTailProperties, EmptySeq
  <2>5. RatePer - Head(InWindow(k)) \in -1..RatePer
    BY <1>1, <2>4
  <2> QED BY <1>1, <2>1, <2>2, <2>5 DEF Squash
<1>3. CASE \E k \in Keys : TakeBatch(k)
  BY <1>1, <1>3 DEF TakeBatch
<1>4. CASE Nap
  <2>1. PICK k \in Keys : due[k] # Passed /\ wakeIn' = Min({due[k], 1})
    BY <1>4 DEF Nap
  <2>2. due[k] \in 0..RatePer
    BY <1>1, <2>1
  <2>3. \E x \in {due[k], 1} : \A y \in {due[k], 1} : x <= y
    BY <2>2
  <2>4. wakeIn' \in {due[k], 1} /\ \A y \in {due[k], 1} : wakeIn' <= y
    BY <2>1, <2>3 DEF Min
  <2>5. wakeIn' \in 0..1
    BY <2>2, <2>4
  <2> QED BY <1>1, <1>4, <2>5 DEF Nap, rateVars
<1>5. CASE Tick
  <2>1. \A k \in Keys : Sooner(k) \in Passed..RatePer
    BY <1>1 DEF Sooner
  <2> QED BY <1>5, <2>1 DEF Tick
<1>6. CASE \/ \E m \in Messages : PushNow(m)
           \/ RequestShutdown \/ WaitForBatch \/ Stop \/ WakeUp \/ RecordBatch \/ SendBatch
           \/ RemoveSquashed \/ UNCHANGED sqVars
  BY <1>1, <1>6 DEF PushNow, RequestShutdown, WaitForBatch, Stop, WakeUp, RecordBatch,
                    SendBatch, RemoveSquashed, sqVars, rateVars
<1> QED BY <1>2, <1>3, <1>4, <1>5, <1>6 DEF SquasherStep

\* Every step of the squasher keeps its invariant.
LEMMA SquasherInvStep ==
  ASSUME SquasherInv, SquasherStep
  PROVE  SquasherInv'
BY StepKeepsPushes, StepKeepsBatches, StepKeepsDue
   DEF SquasherInv, SquasherTypeOK, BatchTypes, Sizes

LEMMA SquasherInvInit ==
  ASSUME SquasherInit, sq \in {"top", "stopped"}
  PROVE  SquasherInv
<1>1. <<>> \in Seq(Sizes) /\ Len(<<>>) = 0 /\ <<>> \in Seq(Messages) /\ 1..0 = {}
  BY EmptySeq
<1>2. Aged(<<>>) /\ Distinct(<<>>) /\ ToSet(<<>>) = {}
  BY <1>1 DEF Aged, Distinct, ToSet
<1>3. RatePer \in Nat
  BY SquasherAssumption
<1>4. SquasherTypeOK
  <2>1. 0 \in Passed..RatePer /\ 0 \in 0..1
    BY <1>3 DEF Passed
  <2>2. pushedAt \in [Keys -> Seq(Sizes)] /\ batches \in [Keys -> Seq(Messages)]
    BY <1>1 DEF SquasherInit
  <2>3. due \in [Keys -> Passed..RatePer]
    BY <2>1 DEF SquasherInit
  <2> QED BY <1>1, <2>1, <2>2, <2>3 DEF SquasherInit, SquasherTypeOK, Sizes, SqPCs
<1>5. BatchesApart
  BY <1>2 DEF SquasherInit, BatchesApart, InBatches
<1> QED BY <1>2, <1>4, <1>5 DEF SquasherInit, SquasherInv, WokenForAReason, Loaded
=============================================================================
