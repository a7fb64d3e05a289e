------------------------ MODULE RedisFeedbackProofs ------------------------
(***************************************************************************)
(* What several collectors, and a job that pops by itself, get from one     *)
(* list of feedback: the safety properties of RedisFeedback, for any number *)
(* of collectors, entries and limits.                                      *)
(*                                                                         *)
(* The bounds are not inductive: what is repeated when an answer is given,  *)
(* and lost when the list is trimmed, was decided when others removed or    *)
(* pushed entries before.  The invariant counts it from then on, as pairs   *)
(* of an entry and a collector: who holds an entry that is no longer in the *)
(* list (Held), and who is about to remove one it has not read (Doomed).   *)
(***************************************************************************)
EXTENDS RedisFeedback, FiniteSetTheorems, SequenceTheorems, TLAPS

\* How many entries have been removed from the list: the oldest ones.
Gone == pushed - Len(list)

Shape ==
  /\ Len(list) <= pushed
  /\ \A i \in 1..Len(list) : list[i] = pushed + 1 - i

\* Nobody has collected, or is to collect, what is to stay in the list.
Ahead ==
  /\ received \subseteq 1..Gone
  /\ \A c \in Collectors :
       /\ pc[c] = "popped" => ToSet(reply[c]) \subseteq 1..Gone
       /\ pc[c] = "ranged" => ToSet(reply[c]) \subseteq 1..(Gone + limit[c])

Ranged == {c \in Collectors : pc[c] = "ranged"}

Held ==
  {p \in (1..Gone) \X Collectors :
     pc[p[2]] \in {"ranged", "popped"} /\ p[1] \in ToSet(reply[p[2]])}

HeldEntries == {e \in 1..Gone : \E c \in Collectors : <<e, c>> \in Held}

\* Each time an entry was received or is held beyond the first is charged to
\* its removal by somebody else.
RepeatsCharged ==
  repeats + Cardinality(received) + Cardinality(Held)
    <= Cardinality(received \cup HeldEntries) + overtaken

Doomed ==
  {p \in ((Gone + 1)..pushed) \X Collectors :
     pc[p[2]] = "ranged" /\ p[1] <= Gone + limit[p[2]] /\ p[1] \notin ToSet(reply[p[2]])}

Lost == (1..Gone) \ (received \cup OnTheWay \cup dropped)

\* Each entry that is lost, or will be if a collector trims the list now, is
\* charged to a push or a removal by somebody else.
LossCharged == Cardinality(Lost) + Cardinality(Doomed) <= raced + overtaken

IInv == TypeOK /\ Shape /\ Ahead /\ RepeatsCharged /\ LossCharged

-----------------------------------------------------------------------------
(* The list.                                                               *)

LEMMA Numbers ==
  ASSUME TypeOK
  PROVE  /\ list \in Seq(1..pushed) /\ Len(list) \in Nat /\ DOMAIN list = 1..Len(list)
         /\ pushed \in Nat /\ raced \in Nat /\ overtaken \in Nat /\ repeats \in Nat
         /\ \A c \in Collectors : limit[c] \in Nat
         /\ \A n \in Limits : n \in Nat /\ n > 0
<1>1. list \in Seq(1..pushed) /\ Len(list) \in Nat /\ DOMAIN list = 1..Len(list)
  BY LenProperties DEF TypeOK
<1>2. pushed \in Nat
  BY FeedbackAssumption DEF TypeOK
<1>3. \A n \in Limits : n \in Nat /\ n > 0
  BY FeedbackAssumption
<1>4. \A c \in Collectors : limit[c] \in Nat
  BY <1>3 DEF TypeOK
<1> QED BY <1>1, <1>2, <1>3, <1>4 DEF TypeOK

\* The list has the entries that have not been removed.
LEMMA ListHas ==
  ASSUME TypeOK, Shape
  PROVE  /\ Gone \in Nat /\ Gone + Len(list) = pushed /\ Gone <= pushed
         /\ ToSet(list) = (Gone + 1)..pushed
<1>0. Len(list) \in Nat /\ pushed \in Nat /\ DOMAIN list = 1..Len(list)
  BY Numbers
<1>1. Gone \in Nat /\ Gone + Len(list) = pushed /\ Gone <= pushed
  BY <1>0 DEF Shape, Gone
<1>2. ASSUME NEW e \in ToSet(list) PROVE e \in (Gone + 1)..pushed
  <2>1. PICK i \in 1..Len(list) : e = list[i]
    BY <1>0 DEF ToSet
  <2>2. e = pushed + 1 - i
    BY <2>1 DEF Shape
  <2> QED BY <1>0, <1>1, <2>2
<1>3. ASSUME NEW e \in (Gone + 1)..pushed PROVE e \in ToSet(list)
  <2>1. pushed + 1 - e \in 1..Len(list)
    BY <1>0, <1>1
  <2>2. list[pushed + 1 - e] = pushed + 1 - (pushed + 1 - e)
    BY <2>1 DEF Shape
  <2>3. list[pushed + 1 - e] = e
    BY <1>0, <1>1, <2>2
  <2> QED BY <1>0, <2>1, <2>3 DEF ToSet
<1> QED BY <1>1, <1>2, <1>3

\* A window of the list, from its end, has the oldest entries that are there.
LEMMA TailmostHas ==
  ASSUME TypeOK, Shape, NEW n \in Nat
  PROVE  /\ Min2(n, Len(list)) \in 0..Len(list) /\ Min2(n, Len(list)) <= n
         /\ Min2(n, Len(list)) = n \/ Gone + Min2(n, Len(list)) = pushed
         /\ Tailmost(n) \in Seq(1..pushed)
         /\ ToSet(Tailmost(n)) = (Gone + 1)..(Gone + Min2(n, Len(list)))
<1>0. Len(list) \in Nat /\ pushed \in Nat /\ list \in Seq(1..pushed)
  BY Numbers
<1>1. Gone \in Nat /\ Gone + Len(list) = pushed
  BY ListHas
<1> DEFINE q == Min2(n, Len(list))
           from == Len(list) - q + 1
<1>2. q \in 0..Len(list) /\ q <= n /\ (q = n \/ q = Len(list)) /\ q \in Nat
  BY <1>0 DEF Min2
<1>3. from \in Nat /\ from >= 1 /\ Len(list) - from + 1 = q
  BY <1>0, <1>2
<1>4. Tailmost(n) = SubSeq(list, from, Len(list))
  BY DEF Tailmost
<1> HIDE DEF q, from
<1>5. /\ Tailmost(n) \in Seq(1..pushed)
      /\ DOMAIN Tailmost(n) = 1..q
      /\ \A i \in 1..q : Tailmost(n)[i] = list[from + i - 1]
  <2>1. from \in 1..(Len(list) + 1) /\ Len(list) \in (from - 1)..Len(list)
    BY <1>0, <1>2, <1>3
  <2>2. /\ SubSeq(list, from, Len(list)) \in Seq(1..pushed)
        /\ Len(SubSeq(list, from, Len(list))) = Len(list) - from + 1
        /\ \A i \in 1..(Len(list) - from + 1) :
             SubSeq(list, from, Len(list))[i] = list[from + i - 1]
    BY <1>0, <2>1, SubSeqProperties
  <2> QED BY <1>3, <1>4, <2>2, LenProperties
<1>6. \A i \in 1..q : Tailmost(n)[i] = Gone + q + 1 - i
  <2> SUFFICES ASSUME NEW i \in 1..q PROVE Tailmost(n)[i] = Gone + q + 1 - i
    OBVIOUS
  <2>1. from + i - 1 \in 1..Len(list)
    BY <1>0, <1>2, <1>3
  <2>2. list[from + i - 1] = pushed + 1 - (from + i - 1)
    BY <2>1 DEF Shape
  <2>3. pushed + 1 - (from + i - 1) = Gone + q + 1 - i
    BY <1>0, <1>1, <1>2, <1>3
  <2> QED BY <1>5, <2>2, <2>3
<1>7. ToSet(Tailmost(n)) = (Gone + 1)..(Gone + q)
  <2>1. ASSUME NEW e \in ToSet(Tailmost(n)) PROVE e \in (Gone + 1)..(Gone + q)
    <3>1. PICK i \in 1..q : e = Tailmost(n)[i]
      BY <1>5 DEF ToSet
    <3>2. e = Gone + q + 1 - i
      BY <1>6, <3>1
    <3> QED BY <1>1, <1>2, <3>2
  <2>2. ASSUME NEW e \in (Gone + 1)..(Gone + q) PROVE e \in ToSet(Tailmost(n))
    <3>1. Gone + q + 1 - e \in 1..q
      BY <1>1, <1>2
    <3>2. Tailmost(n)[Gone + q + 1 - e] = Gone + q + 1 - (Gone + q + 1 - e)
      BY <1>6, <3>1
    <3>3. Tailmost(n)[Gone + q + 1 - e] = e
      BY <1>1, <1>2, <3>2
    <3> QED BY <1>5, <3>1, <3>3 DEF ToSet
  <2> QED BY <2>1, <2>2
<1>8. q = n \/ Gone + q = pushed
  BY <1>1, <1>2
<1> QED BY <1>2, <1>5, <1>7, <1>8 DEF q

\* Without its last k entries the list has lost the k oldest.
LEMMA Shortened ==
  ASSUME TypeOK, Shape, NEW k \in 0..Len(list), pushed' = pushed,
         list' = SubSeq(list, 1, Len(list) - k)
  PROVE  Shape' /\ Gone' = Gone + k /\ list' \in Seq(1..pushed')
<1>0. Len(list) \in Nat /\ pushed \in Nat /\ list \in Seq(1..pushed)
  BY Numbers
<1>1. /\ list' \in Seq(1..pushed) /\ Len(list') = Len(list) - k
      /\ \A i \in 1..(Len(list) - k) : list'[i] = list[i]
  <2> DEFINE n == Len(list) - k
  <2>1. n \in Int /\ n \in Nat /\ \A i \in 1..n : i \in 1..Len(list)
    BY <1>0
  <2>2. \A i \in 1..n : list[i] \in 1..pushed
    BY <1>0, <2>1
  <2>3. list' = SubSeq(list, 1, n)
    OBVIOUS
  <2> HIDE DEF n
  <2>4. /\ SubSeq(list, 1, n) \in Seq(1..pushed)
        /\ Len(SubSeq(list, 1, n)) = IF 1 <= n THEN n - 1 + 1 ELSE 0
        /\ \A i \in 1..(n - 1 + 1) : SubSeq(list, 1, n)[i] = list[1 + i - 1]
    BY <2>1, <2>2, SubSeqProperties
  <2>5. Len(list') = n
    BY <2>1, <2>3, <2>4
  <2>6. \A i \in 1..n : list'[i] = list[i]
    BY <2>1, <2>3, <2>4
  <2> QED BY <2>3, <2>4, <2>5, <2>6 DEF n
<1>2. \A i \in 1..(Len(list) - k) : i \in 1..Len(list)
  BY <1>0
<1>3. Shape'
  <2>1. \A i \in 1..Len(list') : list'[i] = pushed' + 1 - i
    BY <1>1, <1>2 DEF Shape
  <2>2. Len(list') <= pushed'
    BY <1>0, <1>1 DEF Shape
  <2> QED BY <2>1, <2>2 DEF Shape
<1>4. Gone' = Gone + k
  <2>1. Gone' = pushed - Len(list') /\ Len(list') = Len(list) - k /\ Gone = pushed - Len(list)
    BY <1>1 DEF Gone
  <2>2. k \in Nat
    BY <1>0
  <2>3. pushed - (Len(list) - k) = (pushed - Len(list)) + k
    BY <1>0, <2>2
  <2> QED BY <2>1, <2>3
<1> QED BY <1>1, <1>3, <1>4

\* LPUSH adds the next entry at the other end.
LEMMA Lengthened ==
  ASSUME TypeOK, Shape, Push
  PROVE  Shape' /\ Gone' = Gone /\ list' \in Seq(1..pushed') /\ pushed' \in 0..MaxEntries
<1>0. /\ Len(list) \in Nat /\ pushed \in Nat /\ list \in Seq(1..pushed)
      /\ pushed' = pushed + 1 /\ list' = <<pushed + 1>> \o list
  BY Numbers DEF Push
<1>1. Len(list') = Len(list) + 1 /\ list' \in Seq(1..(pushed + 1))
  <2>1. list \in Seq(1..(pushed + 1))
    <3>1. 1..pushed \subseteq 1..(pushed + 1)
      BY <1>0
    <3> QED BY <1>0, <3>1
  <2>2. <<pushed + 1>> \in Seq(1..(pushed + 1))
    BY <1>0
  <2> QED BY <1>0, <2>1, <2>2, ConcatProperties
<1>2. \A i \in 1..Len(list') : list'[i] = pushed' + 1 - i
  <2> SUFFICES ASSUME NEW i \in 1..Len(list') PROVE list'[i] = pushed' + 1 - i
    OBVIOUS
  <2>1. CASE i = 1
    BY <1>0, <2>1
  <2>2. CASE i # 1
    <3>1. i - 1 \in 1..Len(list) /\ list'[i] = list[i - 1]
      BY <1>0, <1>1, <2>2
    <3>2. list[i - 1] = pushed + 1 - (i - 1)
      BY <3>1 DEF Shape
    <3> QED BY <1>0, <3>1, <3>2
  <2> QED BY <2>1, <2>2
<1>3. Len(list') <= pushed' /\ Gone' = Gone
  BY <1>0, <1>1 DEF Shape, Gone
<1>4. pushed' \in 0..MaxEntries
  BY <1>0, FeedbackAssumption DEF Push
<1> QED BY <1>0, <1>1, <1>2, <1>3, <1>4 DEF Shape

-----------------------------------------------------------------------------
(* Counting.                                                               *)

\* What is in one of two sets.
LEMMA CountEither ==
  ASSUME NEW A, NEW B, NEW X, IsFiniteSet(A), IsFiniteSet(B), X \subseteq A \cup B
  PROVE  /\ IsFiniteSet(X) /\ Cardinality(X) \in Nat
         /\ Cardinality(A) \in Nat /\ Cardinality(B) \in Nat
         /\ Cardinality(X) <= Cardinality(A) + Cardinality(B)
<1>1. /\ IsFiniteSet(A \cup B)
      /\ Cardinality(A \cup B) = Cardinality(A) + Cardinality(B) - Cardinality(A \cap B)
  BY FS_Union
<1>2. IsFiniteSet(X) /\ Cardinality(X) <= Cardinality(A \cup B)
  BY <1>1, FS_Subset
<1>3. IsFiniteSet(A \cap B)
  BY FS_Intersection
<1>4. /\ Cardinality(A) \in Nat /\ Cardinality(B) \in Nat /\ Cardinality(A \cap B) \in Nat
      /\ Cardinality(X) \in Nat /\ Cardinality(A \cup B) \in Nat
  BY <1>1, <1>2, <1>3, FS_CardinalityType
<1> QED BY <1>1, <1>2, <1>4

\* What two disjoint sets have in common with a third.
LEMMA CountBoth ==
  ASSUME NEW A, NEW B, NEW X, IsFiniteSet(X), A \cup B \subseteq X, A \cap B = {}
  PROVE  /\ IsFiniteSet(A) /\ IsFiniteSet(B)
         /\ Cardinality(A) \in Nat /\ Cardinality(B) \in Nat /\ Cardinality(X) \in Nat
         /\ Cardinality(A) + Cardinality(B) <= Cardinality(X)
<1>1. IsFiniteSet(A) /\ IsFiniteSet(B)
  BY FS_Subset
<1>2. Cardinality(A \cup B) = Cardinality(A) + Cardinality(B) - Cardinality({})
  BY <1>1, FS_Union
<1>3. Cardinality(A \cup B) <= Cardinality(X)
  BY FS_Subset
<1>4. Cardinality({}) = 0
  BY FS_EmptySet
<1>5. Cardinality(A) \in Nat /\ Cardinality(B) \in Nat /\ Cardinality(X) \in Nat
  BY <1>1, FS_CardinalityType
<1> QED BY <1>1, <1>2, <1>3, <1>4, <1>5

\* The pairs of some entries with one collector, and of the k entries after the
\* a-th with each of some collectors.
LEMMA CountPairs ==
  ASSUME NEW X, IsFiniteSet(X), NEW x
  PROVE  /\ IsFiniteSet(X \X {x}) /\ Cardinality(X \X {x}) = Cardinality(X)
         /\ Cardinality(X) \in Nat
<1>1. IsFiniteSet({x}) /\ Cardinality({x}) = 1
  BY FS_Singleton
<1>2. Cardinality(X) \in Nat
  BY FS_CardinalityType
<1>3. IsFiniteSet(X \X {x}) /\ Cardinality(X \X {x}) = Cardinality(X) * 1
  BY <1>1, FS_Product
<1> QED BY <1>2, <1>3

LEMMA CountRange ==
  ASSUME NEW D, IsFiniteSet(D), NEW a \in Nat, NEW k \in Nat
  PROVE  /\ IsFiniteSet(((a + 1)..(a + k)) \X D)
         /\ Cardinality(((a + 1)..(a + k)) \X D) = k * Cardinality(D)
<1> DEFINE S == (a + 1)..(a + k)
<1>1. IsFiniteSet(S) /\ Cardinality(S) = k
  <2>1. a + 1 \in Int /\ a + k \in Int
    OBVIOUS
  <2>2. IsFiniteSet(S) /\ Cardinality(S) = IF a + 1 > a + k THEN 0 ELSE (a + k) - (a + 1) + 1
    BY <2>1, FS_Interval
  <2> QED BY <2>2
<1> HIDE DEF S
<1>2. IsFiniteSet(S \X D) /\ Cardinality(S \X D) = k * Cardinality(D)
  BY <1>1, FS_Product
<1> QED BY <1>2 DEF S

\* The k entries after the a + f[d]-th, for each d: as many as k of each.
LEMMA CountShifted ==
  ASSUME NEW D, IsFiniteSet(D), NEW f, \A d \in D : f[d] \in Nat,
         NEW a \in Nat, NEW k \in Nat,
         NEW X, \A p \in X : \E e \in Nat, d \in D :
                  p = <<e, d>> /\ a + f[d] < e /\ e <= a + f[d] + k
  PROVE  IsFiniteSet(X) /\ Cardinality(X) <= k * Cardinality(D) /\ Cardinality(X) \in Nat
<1> DEFINE T == ((0 + 1)..(0 + k)) \X D
           g == [p \in X |-> <<p[1] - (a + f[p[2]]), p[2]>>]
<1>1. ASSUME NEW p \in X PROVE g[p] \in T
  <2>1. PICK e \in Nat, d \in D : p = <<e, d>> /\ a + f[d] < e /\ e <= a + f[d] + k
    OBVIOUS
  <2>2. g[p] = <<e - (a + f[d]), d>>
    BY <2>1
  <2>3. e - (a + f[d]) \in (0 + 1)..(0 + k)
    <3>1. f[d] \in Nat
      OBVIOUS
    <3> QED BY <2>1, <3>1
  <2> QED BY <2>2, <2>3
<1>2. ASSUME NEW p \in X, NEW q \in X, g[p] = g[q] PROVE p = q
  <2>1. PICK e \in Nat, d \in D : p = <<e, d>> /\ a + f[d] < e /\ e <= a + f[d] + k
    OBVIOUS
  <2>2. PICK e2 \in Nat, d2 \in D : q = <<e2, d2>> /\ a + f[d2] < e2 /\ e2 <= a + f[d2] + k
    OBVIOUS
  <2>3. <<e - (a + f[d]), d>> = <<e2 - (a + f[d2]), d2>>
    BY <1>2, <2>1, <2>2
  <2>4. d = d2 /\ e - (a + f[d]) = e2 - (a + f[d])
    BY <2>3
  <2>5. f[d] \in Nat
    OBVIOUS
  <2>6. e = e2
    BY <2>4, <2>5
  <2> QED BY <2>1, <2>2, <2>4, <2>6
<1>3. IsFiniteSet(T) /\ Cardinality(T) = k * Cardinality(D)
  <2>1. 0 \in Nat
    OBVIOUS
  <2> QED BY <2>1, CountRange
<1>4. g \in [X -> T]
  <2> HIDE DEF T
  <2> QED BY <1>1
<1>5. g \in Injection(X, T)
  <2> HIDE DEF T, g
  <2> QED BY <1>2, <1>4 DEF Injection, IsInjective
<1> HIDE DEF T, g
<1>6. IsFiniteSet(X) /\ Cardinality(X) <= Cardinality(T)
  BY <1>3, <1>5, FS_Injection
<1> QED BY <1>3, <1>6, FS_CardinalityType

\* What is counted is finite.
LEMMA Countable ==
  ASSUME TypeOK, Shape, Ahead
  PROVE  /\ IsFiniteSet(received) /\ Cardinality(received) \in Nat
         /\ IsFiniteSet(received \cup HeldEntries)
         /\ Cardinality(received \cup HeldEntries) \in Nat
         /\ received \cup HeldEntries \subseteq 1..Gone
         /\ IsFiniteSet(Held) /\ Cardinality(Held) \in Nat
         /\ IsFiniteSet(Doomed) /\ Cardinality(Doomed) \in Nat
         /\ IsFiniteSet(Lost) /\ Cardinality(Lost) \in Nat
         /\ IsFiniteSet(Ranged) /\ Cardinality(Ranged) \in Nat
         /\ Between(Collectors) = Cardinality(Ranged)
<1>1. /\ Gone \in Nat /\ Gone + Len(list) = pushed /\ Gone <= pushed
      /\ pushed \in Nat /\ Len(list) \in Nat
  BY ListHas, Numbers
<1>2. IsFiniteSet(1..Gone) /\ IsFiniteSet((Gone + 1)..pushed)
  <2>1. 1 \in Int /\ Gone \in Int /\ Gone + 1 \in Int /\ pushed \in Int
    BY <1>1
  <2> QED BY <2>1, FS_Interval
<1>3. received \cup HeldEntries \subseteq 1..Gone /\ received \subseteq 1..Gone /\ Lost \subseteq 1..Gone
  BY DEF Ahead, HeldEntries, Lost
<1>4. IsFiniteSet((1..Gone) \X Collectors) /\ IsFiniteSet(((Gone + 1)..pushed) \X Collectors)
  BY <1>2, FS_Product, FeedbackAssumption
<1>5. Held \subseteq (1..Gone) \X Collectors /\ Doomed \subseteq ((Gone + 1)..pushed) \X Collectors
  BY DEF Held, Doomed
<1>6. IsFiniteSet(Ranged)
  BY FS_Subset, FeedbackAssumption DEF Ranged
<1>7. /\ IsFiniteSet(received) /\ IsFiniteSet(received \cup HeldEntries) /\ IsFiniteSet(Lost)
      /\ IsFiniteSet(Held) /\ IsFiniteSet(Doomed)
  BY <1>2, <1>3, <1>4, <1>5, FS_Subset
<1>8. Between(Collectors) = Cardinality(Ranged)
  BY DEF Between, Ranged
<1> QED BY <1>3, <1>6, <1>7, <1>8, FS_CardinalityType

-----------------------------------------------------------------------------
(* Steps that leave the list as it is.                                     *)

\* What a collector has read and is no longer in the list.
Has(c) == {e \in 1..Gone : e \in ToSet(reply[c])}

\* A collector that has been given what it asked for, or nothing, holds nothing
\* any more.
LEMMA HoldsNothing ==
  ASSUME TypeOK, Shape, Ahead, NEW c \in Collectors,
         pc[c] \in {"ranged", "popped"}, pc' = [pc EXCEPT ![c] = "idle"],
         list' = list, pushed' = pushed, Over(c),
         NEW X, X = Has(c)
  PROVE  /\ Gone' = Gone
         /\ \A d \in Collectors : d # c =>
              pc'[d] = pc[d] /\ reply'[d] = reply[d] /\ limit'[d] = limit[d]
         /\ pc'[c] = "idle"
         /\ Held' \cup (X \X {c}) = Held /\ Held' \cap (X \X {c}) = {}
         /\ HeldEntries \subseteq HeldEntries' \cup X
         /\ HeldEntries' \cup X = HeldEntries
         /\ Doomed' \subseteq Doomed
         /\ IsFiniteSet(X) /\ Cardinality(X) \in Nat
         /\ Cardinality(Held) = Cardinality(Held') + Cardinality(X)
         /\ IsFiniteSet(Held') /\ Cardinality(Held') \in Nat
<1>0. X = {e \in 1..Gone : e \in ToSet(reply[c])}
  BY DEF Has
<1>1. Gone' = Gone
  BY DEF Gone
<1>2. /\ \A d \in Collectors : d # c =>
              pc'[d] = pc[d] /\ reply'[d] = reply[d] /\ limit'[d] = limit[d]
      /\ pc'[c] = "idle"
  BY DEF TypeOK, Over
<1>3. \A e, d : <<e, d>> \in Held <=>
        e \in 1..Gone /\ d \in Collectors /\ pc[d] \in {"ranged", "popped"} /\ e \in ToSet(reply[d])
  BY DEF Held
<1>4. \A e, d : <<e, d>> \in Held' <=>
        e \in 1..Gone /\ d \in Collectors /\ pc'[d] \in {"ranged", "popped"} /\ e \in ToSet(reply'[d])
  BY <1>1 DEF Held
<1>5. \A p \in Held \cup Held' \cup (X \X {c}) : p = <<p[1], p[2]>>
  BY DEF Held
<1>6. \A e, d : <<e, d>> \in Held <=> <<e, d>> \in Held' \/ <<e, d>> \in X \X {c}
  BY <1>0, <1>2, <1>3, <1>4
<1>7. \A e, d : ~(<<e, d>> \in Held' /\ <<e, d>> \in X \X {c})
  BY <1>2, <1>4
<1>8. Held' \cup (X \X {c}) = Held /\ Held' \cap (X \X {c}) = {}
  BY <1>5, <1>6, <1>7
<1>9. HeldEntries' \cup X = HeldEntries
  <2>1. \A e : e \in HeldEntries <=> e \in 1..Gone /\ \E d \in Collectors : <<e, d>> \in Held
    BY DEF HeldEntries
  <2>2. \A e : e \in HeldEntries' <=> e \in 1..Gone /\ \E d \in Collectors : <<e, d>> \in Held'
    BY <1>1 DEF HeldEntries
  <2>3. \A e : e \in X <=> e \in 1..Gone /\ <<e, c>> \in X \X {c}
    BY <1>0
  <2>4. ASSUME NEW e PROVE e \in HeldEntries <=> e \in HeldEntries' \/ e \in X
    <3>1. \A d : <<e, d>> \in X \X {c} => d = c /\ e \in X
      OBVIOUS
    <3> QED BY <1>6, <2>1, <2>2, <2>3, <3>1
  <2> QED BY <2>4
<1>10. Doomed' \subseteq Doomed
  <2>1. ASSUME NEW p \in Doomed' PROVE p \in Doomed
    <3>1. /\ p \in ((Gone + 1)..pushed) \X Collectors
          /\ pc'[p[2]] = "ranged" /\ p[1] <= Gone + limit'[p[2]] /\ p[1] \notin ToSet(reply'[p[2]])
      BY <1>1 DEF Doomed
    <3>2. p[2] # c /\ p[2] \in Collectors
      BY <1>2, <3>1
    <3> QED BY <1>2, <3>1, <3>2 DEF Doomed
  <2> QED BY <2>1
<1>11. IsFiniteSet(Held)
  BY Countable
<1>12. IsFiniteSet(X)
  <2>1. X \subseteq 1..Gone /\ 1 \in Int /\ Gone \in Int
    BY <1>0, ListHas
  <2> QED BY <2>1, FS_Interval, FS_Subset
<1>13. /\ IsFiniteSet(Held') /\ Cardinality(Held') \in Nat
       /\ Cardinality(Held) = Cardinality(Held') + Cardinality(X)
       /\ Cardinality(X) \in Nat
  <2> DEFINE P == X \X {c}
  <2>1. IsFiniteSet(P) /\ Cardinality(P) = Cardinality(X) /\ Cardinality(X) \in Nat
    BY <1>12, CountPairs
  <2>2. Held' \cup P = Held /\ Held' \cap P = {}
    BY <1>8
  <2> HIDE DEF P
  <2>3. IsFiniteSet(Held')
    BY <1>11, <2>2, FS_Subset
  <2>4. Cardinality(Held) = Cardinality(Held') + Cardinality(P) - Cardinality({})
    BY <2>1, <2>2, <2>3, FS_Union
  <2>5. Cardinality({}) = 0 /\ Cardinality(Held') \in Nat
    BY <2>3, FS_EmptySet, FS_CardinalityType
  <2> QED BY <2>1, <2>3, <2>4, <2>5
<1> QED BY <1>1, <1>2, <1>8, <1>9, <1>10, <1>12, <1>13

LEMMA OnTheWayHas ==
  \A e : e \in OnTheWay <=> \E d \in Collectors : pc[d] = "popped" /\ e \in ToSet(reply[d])
BY DEF OnTheWay

\* Nothing more is lost, or about to be.
LEMMA LossesKept ==
  ASSUME TypeOK, Shape, Ahead, LossCharged, Lost' \subseteq Lost, Doomed' \subseteq Doomed,
         raced' = raced, overtaken' = overtaken
  PROVE  LossCharged'
<1>1. /\ IsFiniteSet(Doomed) /\ Cardinality(Doomed) \in Nat
      /\ IsFiniteSet(Lost) /\ Cardinality(Lost) \in Nat
      /\ raced \in Nat /\ overtaken \in Nat
  BY Countable, Numbers
<1>2. /\ IsFiniteSet(Doomed') /\ Cardinality(Doomed') <= Cardinality(Doomed)
      /\ IsFiniteSet(Lost') /\ Cardinality(Lost') <= Cardinality(Lost)
  BY <1>1, FS_Subset
<1>3. Cardinality(Doomed') \in Nat /\ Cardinality(Lost') \in Nat
  BY <1>2, FS_CardinalityType
<1> QED BY <1>1, <1>2, <1>3 DEF LossCharged

\* A collector that gets nothing, and has removed nothing or lost what it has.
LEMMA GivenUp ==
  ASSUME IInv, NEW c \in Collectors, pc[c] \in {"ranged", "popped"},
         pc' = [pc EXCEPT ![c] = "idle"], Over(c),
         list' = list, pushed' = pushed, received' = received, repeats' = repeats,
         raced' = raced, overtaken' = overtaken,
         dropped \subseteq dropped', pc[c] = "popped" => ToSet(reply[c]) \subseteq dropped'
  PROVE  Ahead' /\ RepeatsCharged' /\ LossCharged'
<1> DEFINE X == Has(c)
<1>0. TypeOK /\ Shape /\ Ahead /\ RepeatsCharged /\ LossCharged
  BY DEF IInv
<1>1. /\ Gone' = Gone /\ pc'[c] = "idle"
      /\ \A d \in Collectors : d # c =>
           pc'[d] = pc[d] /\ reply'[d] = reply[d] /\ limit'[d] = limit[d]
      /\ HeldEntries' \cup X = HeldEntries
      /\ Doomed' \subseteq Doomed
      /\ IsFiniteSet(X) /\ Cardinality(X) \in Nat
      /\ Cardinality(Held) = Cardinality(Held') + Cardinality(X)
      /\ IsFiniteSet(Held') /\ Cardinality(Held') \in Nat
  BY <1>0, HoldsNothing
<1>2. Ahead'
  BY <1>0, <1>1 DEF Ahead
<1>3. RepeatsCharged'
  <2> DEFINE A == received \cup HeldEntries
             B == received \cup HeldEntries'
  <2>1. IsFiniteSet(A) /\ A \subseteq B \cup X /\ B \subseteq A
    BY <1>0, <1>1, Countable
  <2>2. RepeatsCharged' <=> repeats + Cardinality(received) + Cardinality(Held')
                              <= Cardinality(B) + overtaken
    BY DEF RepeatsCharged
  <2>3. repeats + Cardinality(received) + Cardinality(Held) <= Cardinality(A) + overtaken
    BY <1>0 DEF RepeatsCharged
  <2> HIDE DEF A, B, X
  <2>4. IsFiniteSet(B)
    BY <2>1, FS_Subset
  <2>5. /\ Cardinality(A) \in Nat /\ Cardinality(B) \in Nat
        /\ Cardinality(A) <= Cardinality(B) + Cardinality(X)
    BY <1>1, <2>1, <2>4, CountEither
  <2>6. repeats \in Nat /\ overtaken \in Nat /\ Cardinality(received) \in Nat
    BY <1>0, Numbers, Countable
  <2> QED BY <1>1, <2>2, <2>3, <2>5, <2>6
<1>4. Lost' \subseteq Lost
  <2>1. \A e : e \in OnTheWay' <=> \E d \in Collectors : pc'[d] = "popped" /\ e \in ToSet(reply'[d])
    BY DEF OnTheWay
  <2>2. \A e : e \in OnTheWay => e \in OnTheWay' \/ e \in dropped'
    BY <1>1, <2>1, OnTheWayHas
  <2> QED BY <1>1, <2>2 DEF Lost
<1>5. LossCharged'
  BY <1>0, <1>1, <1>4, LossesKept
<1> QED BY <1>2, <1>3, <1>5

\* An answer: what the collector has is the application's, and what the
\* application had already is repeated.
LEMMA Answered ==
  ASSUME IInv, NEW c \in Collectors, Answer(c)
  PROVE  Ahead' /\ RepeatsCharged' /\ LossCharged'
<1> DEFINE X == Has(c)
<1>0. /\ TypeOK /\ Shape /\ Ahead /\ RepeatsCharged /\ LossCharged
      /\ pc[c] = "popped" /\ pc' = [pc EXCEPT ![c] = "idle"] /\ Over(c)
      /\ list' = list /\ pushed' = pushed /\ dropped' = dropped /\ raced' = raced /\ overtaken' = overtaken
      /\ Receive(ToSet(reply[c]))
  BY DEF IInv, Answer, Goto, races
<1>1. /\ Gone' = Gone /\ pc'[c] = "idle"
      /\ \A d \in Collectors : d # c =>
           pc'[d] = pc[d] /\ reply'[d] = reply[d] /\ limit'[d] = limit[d]
      /\ HeldEntries' \cup X = HeldEntries
      /\ Doomed' \subseteq Doomed
      /\ IsFiniteSet(X) /\ Cardinality(X) \in Nat
      /\ Cardinality(Held) = Cardinality(Held') + Cardinality(X)
      /\ IsFiniteSet(Held') /\ Cardinality(Held') \in Nat
  BY <1>0, HoldsNothing
<1>2. X = ToSet(reply[c])
  BY <1>0 DEF Ahead, Has
<1>3. received' = received \cup X /\ repeats' = repeats + Cardinality(X \cap received)
  BY <1>0, <1>2 DEF Receive
<1>4. Ahead'
  <2>1. received' \subseteq 1..Gone
    BY <1>0, <1>3 DEF Ahead, Has
  <2> QED BY <1>0, <1>1, <2>1 DEF Ahead
<1>5. RepeatsCharged'
  <2>1. received' \cup HeldEntries' = received \cup HeldEntries
    BY <1>1, <1>3
  <2>2. repeats + Cardinality(received) + Cardinality(Held)
          <= Cardinality(received \cup HeldEntries) + overtaken
    BY <1>0 DEF RepeatsCharged
  <2>3. /\ IsFiniteSet(received) /\ Cardinality(received) \in Nat
        /\ Cardinality(received \cup HeldEntries) \in Nat
        /\ repeats \in Nat /\ overtaken \in Nat
    BY <1>0, Numbers, Countable
  <2> HIDE DEF X
  <2>4. /\ IsFiniteSet(X \cap received)
        /\ Cardinality(X \cup received)
             = Cardinality(X) + Cardinality(received) - Cardinality(X \cap received)
    BY <1>1, <2>3, FS_Union, FS_Intersection
  <2>5. Cardinality(X \cap received) \in Nat /\ received' = X \cup received
    BY <1>3, <2>4, FS_CardinalityType
  <2>6. repeats' + Cardinality(received') + Cardinality(Held')
          = repeats + Cardinality(received) + Cardinality(Held)
    <3>1. Cardinality(received') = Cardinality(X) + Cardinality(received) - Cardinality(X \cap received)
      BY <2>4, <2>5
    <3>2. repeats' = repeats + Cardinality(X \cap received)
      BY <1>3
    <3> QED BY <1>1, <2>3, <2>5, <3>1, <3>2
  <2>7. repeats' + Cardinality(received') + Cardinality(Held')
          <= Cardinality(received' \cup HeldEntries') + overtaken'
    BY <1>0, <2>1, <2>2, <2>6
  <2> QED BY <2>7 DEF RepeatsCharged
<1>6. Lost' \subseteq Lost
  <2>1. \A e : e \in OnTheWay' <=> \E d \in Collectors : pc'[d] = "popped" /\ e \in ToSet(reply'[d])
    BY DEF OnTheWay
  <2>2. \A e : e \in OnTheWay => e \in OnTheWay' \/ e \in received'
    BY <1>1, <1>2, <1>3, <2>1, OnTheWayHas
  <2> QED BY <1>0, <1>1, <1>3, <2>2 DEF Lost
<1>7. LossCharged'
  BY <1>0, <1>1, <1>6, LossesKept
<1> QED BY <1>4, <1>5, <1>7

LEMMA RepeatsKept ==
  ASSUME RepeatsCharged, Held' = Held, Gone' = Gone,
         received' = received, repeats' = repeats, overtaken' = overtaken
  PROVE  RepeatsCharged'
<1>1. HeldEntries' = HeldEntries
  BY DEF HeldEntries
<1> QED BY <1>1 DEF RepeatsCharged

\* LRANGE finds all that LTRIM would remove, if it came at once; a request that
\* looks only, or has looked, holds nothing.
LEMMA Asked ==
  ASSUME IInv, NEW c \in Collectors, LRange(c) \/ Peek(c) \/ Count(c)
  PROVE  Ahead' /\ RepeatsCharged' /\ LossCharged'
<1>0. /\ TypeOK /\ Shape /\ Ahead /\ RepeatsCharged /\ LossCharged
      /\ list' = list /\ pushed' = pushed /\ received' = received /\ repeats' = repeats
      /\ dropped' = dropped /\ raced' = raced /\ overtaken' = overtaken
  BY DEF IInv, LRange, Peek, Count, told, races
<1>1. /\ Gone' = Gone /\ Gone \in Nat /\ pushed \in Nat
      /\ pc[c] \notin {"ranged", "popped"} /\ pc'[c] # "popped"
      /\ \A d \in Collectors : d # c =>
           pc'[d] = pc[d] /\ reply'[d] = reply[d] /\ limit'[d] = limit[d]
  BY <1>0, ListHas, Numbers DEF Gone, LRange, Peek, Count, Over, Goto, TypeOK
<1>2. ASSUME pc'[c] = "ranged"
      PROVE  /\ limit'[c] \in Nat
             /\ \E q \in 0..limit'[c] : /\ ToSet(reply'[c]) = (Gone + 1)..(Gone + q)
                                        /\ q = limit'[c] \/ Gone + q = pushed
  <2>1. LRange(c)
    BY <1>0, <1>2 DEF Peek, Count, Goto, TypeOK
  <2>2. PICK n \in Limits : /\ limit' = [limit EXCEPT ![c] = n]
                            /\ reply' = [reply EXCEPT ![c] = Tailmost(n)]
    BY <2>1 DEF LRange
  <2>3. n \in Nat /\ Len(list) \in Nat /\ limit'[c] = n /\ reply'[c] = Tailmost(n)
    BY <1>0, <2>2, Numbers DEF TypeOK
  <2>4. /\ Min2(n, Len(list)) \in 0..n
        /\ ToSet(Tailmost(n)) = (Gone + 1)..(Gone + Min2(n, Len(list)))
        /\ Min2(n, Len(list)) = n \/ Gone + Min2(n, Len(list)) = pushed
    <3>1. /\ Min2(n, Len(list)) \in 0..Len(list) /\ Min2(n, Len(list)) <= n
          /\ Min2(n, Len(list)) = n \/ Gone + Min2(n, Len(list)) = pushed
          /\ ToSet(Tailmost(n)) = (Gone + 1)..(Gone + Min2(n, Len(list)))
      BY <1>0, <2>3, TailmostHas
    <3> QED BY <2>3, <3>1
  <2> QED BY <2>3, <2>4
<1>3. Ahead'
  <2>1. ASSUME pc'[c] = "ranged" PROVE ToSet(reply'[c]) \subseteq 1..(Gone + limit'[c])
    BY <1>1, <1>2, <2>1
  <2> QED BY <1>0, <1>1, <2>1 DEF Ahead
<1>4. Held' = Held
  <2>1. ASSUME NEW p \in (1..Gone) \X Collectors,
               pc'[p[2]] \in {"ranged", "popped"}, p[1] \in ToSet(reply'[p[2]])
        PROVE  p[2] # c
    <3>1. SUFFICES ASSUME p[2] = c PROVE FALSE
      OBVIOUS
    <3>2. pc'[c] = "ranged" /\ p[1] \in 1..Gone
      BY <1>1, <2>1, <3>1
    <3>3. p[1] \notin ToSet(reply'[c])
      BY <1>1, <1>2, <3>2
    <3> QED BY <2>1, <3>1, <3>3
  <2>2. \A p \in (1..Gone) \X Collectors : p[2] \in Collectors
    OBVIOUS
  <2> QED BY <1>1, <2>1, <2>2 DEF Held
<1>5. RepeatsCharged'
  BY <1>0, <1>1, <1>4, RepeatsKept
<1>6. Doomed' \subseteq Doomed
  <2> SUFFICES ASSUME NEW p \in Doomed' PROVE p \in Doomed
    OBVIOUS
  <2>1. /\ p \in ((Gone + 1)..pushed) \X Collectors /\ p[1] \in (Gone + 1)..pushed
        /\ p[2] \in Collectors
        /\ pc'[p[2]] = "ranged" /\ p[1] <= Gone + limit'[p[2]] /\ p[1] \notin ToSet(reply'[p[2]])
    BY <1>0, <1>1 DEF Doomed
  <2>2. p[2] # c
    <3>1. SUFFICES ASSUME p[2] = c PROVE FALSE
      OBVIOUS
    <3>2. limit'[c] \in Nat /\ pc'[c] = "ranged"
      BY <1>2, <2>1, <3>1
    <3>3. PICK q \in 0..limit'[c] : /\ ToSet(reply'[c]) = (Gone + 1)..(Gone + q)
                                    /\ q = limit'[c] \/ Gone + q = pushed
      BY <1>2, <3>2
    <3>4. p[1] \in (Gone + 1)..(Gone + q)
      BY <1>1, <2>1, <3>1, <3>2, <3>3
    <3> QED BY <2>1, <3>1, <3>3, <3>4
  <2> QED BY <1>1, <2>1, <2>2 DEF Doomed
<1>7. Lost' \subseteq Lost
  <2>1. \A e : e \in OnTheWay' <=> \E d \in Collectors : pc'[d] = "popped" /\ e \in ToSet(reply'[d])
    BY DEF OnTheWay
  <2>2. \A e : e \in OnTheWay => e \in OnTheWay'
    BY <1>1, <2>1, OnTheWayHas
  <2> QED BY <1>0, <1>1, <2>2 DEF Lost
<1>8. LossCharged'
  BY <1>0, <1>6, <1>7, LossesKept
<1> QED BY <1>3, <1>5, <1>8

\* A push dooms the new entry to at most each of those that are to trim.
LEMMA Pushed ==
  ASSUME IInv, Push
  PROVE  Ahead' /\ RepeatsCharged' /\ LossCharged'
<1>0. /\ TypeOK /\ Shape /\ Ahead /\ RepeatsCharged /\ LossCharged
      /\ pushed' = pushed + 1 /\ received' = received /\ repeats' = repeats
      /\ pc' = pc /\ limit' = limit /\ reply' = reply
      /\ dropped' = dropped /\ raced' = raced + Between(Collectors) /\ overtaken' = overtaken
  BY DEF IInv, Push, told
<1>1. Gone' = Gone /\ Gone \in Nat /\ pushed \in Nat
  BY <1>0, Lengthened, ListHas, Numbers
<1>2. Ahead'
  BY <1>0, <1>1 DEF Ahead
<1>3. Held' = Held
  BY <1>0, <1>1 DEF Held
<1>4. RepeatsCharged'
  BY <1>0, <1>1, <1>3, RepeatsKept
<1>5. Lost' = Lost
  <2>1. OnTheWay' = OnTheWay
    BY <1>0 DEF OnTheWay
  <2> QED BY <1>0, <1>1, <2>1 DEF Lost
<1> DEFINE New == ((pushed + 1)..(pushed + 1)) \X Ranged
<1>6. Doomed' \subseteq Doomed \cup New
  <2> SUFFICES ASSUME NEW p \in Doomed' PROVE p \in Doomed \cup New
    OBVIOUS
  <2>1. /\ p \in ((Gone + 1)..(pushed + 1)) \X Collectors
        /\ pc[p[2]] = "ranged" /\ p[1] <= Gone + limit[p[2]] /\ p[1] \notin ToSet(reply[p[2]])
    BY <1>0, <1>1 DEF Doomed
  <2>2. p = <<p[1], p[2]>> /\ p[1] \in (Gone + 1)..(pushed + 1) /\ p[2] \in Collectors
    BY <2>1
  <2>3. p[1] \in (Gone + 1)..pushed \/ p[1] = pushed + 1
    BY <1>1, <2>2
  <2>4. CASE p[1] \in (Gone + 1)..pushed
    <3>1. p \in ((Gone + 1)..pushed) \X Collectors
      BY <2>2, <2>4
    <3> QED BY <2>1, <3>1 DEF Doomed
  <2>5. CASE p[1] = pushed + 1
    <3>1. p[1] \in (pushed + 1)..(pushed + 1) /\ p[2] \in Ranged
      BY <1>1, <2>1, <2>2, <2>5 DEF Ranged
    <3> QED BY <2>2, <3>1
  <2> QED BY <2>3, <2>4, <2>5
<1>7. LossCharged'
  <2>1. /\ IsFiniteSet(Doomed) /\ Cardinality(Doomed) \in Nat
        /\ IsFiniteSet(Ranged) /\ Cardinality(Ranged) \in Nat
        /\ Between(Collectors) = Cardinality(Ranged) /\ Cardinality(Lost) \in Nat
        /\ raced \in Nat /\ overtaken \in Nat
    BY <1>0, Countable, Numbers
  <2>2. IsFiniteSet(New) /\ Cardinality(New) = 1 * Cardinality(Ranged)
    BY <1>1, <2>1, CountRange
  <2>3. 1 * Cardinality(Ranged) = Cardinality(Ranged)
    BY <2>1
  <2> HIDE DEF New
  <2>4. Cardinality(Doomed') \in Nat /\ Cardinality(Doomed') <= Cardinality(Doomed) + Cardinality(New)
    BY <1>6, <2>1, <2>2, CountEither
  <2>5. Cardinality(Lost) + Cardinality(Doomed) <= raced + overtaken
    BY <1>0 DEF LossCharged
  <2>6. Cardinality(Lost) + Cardinality(Doomed') <= raced' + overtaken
    BY <1>0, <2>1, <2>2, <2>3, <2>4, <2>5
  <2> QED BY <1>0, <1>5, <2>6 DEF LossCharged
<1> QED BY <1>2, <1>4, <1>7

-----------------------------------------------------------------------------
(* Steps that remove entries.                                              *)

\* When the k oldest entries are removed, those that are still to trim will each
\* remove at most k others instead.
LEMMA DoomedByRemoval ==
  ASSUME TypeOK, Shape, Ahead, NEW k \in Nat, Gone' = Gone + k, pushed' = pushed,
         reply' = reply, limit' = limit,
         NEW S \in SUBSET Ranged, S = {c \in Collectors : pc'[c] = "ranged"}
  PROVE  /\ IsFiniteSet(Doomed') /\ Cardinality(Doomed') \in Nat
         /\ Cardinality(Doomed')
              <= Cardinality({p \in Doomed : p[2] \in S}) + k * Cardinality(S)
<1> DEFINE Rest == {p \in Doomed : p[2] \in S}
           Next0 == {p \in Doomed' : p[1] > Gone + limit[p[2]]}
<1>0. /\ Gone \in Nat /\ pushed \in Nat /\ Gone <= pushed
      /\ \A c \in Collectors : limit[c] \in Nat
      /\ IsFiniteSet(S) /\ IsFiniteSet(Rest)
  BY ListHas, Numbers, Countable, FS_Subset
<1>1. ASSUME NEW p \in Doomed'
      PROVE  /\ p = <<p[1], p[2]>> /\ p[1] \in Nat /\ p[2] \in S /\ p[2] \in Collectors
             /\ p[1] \in (Gone + k + 1)..pushed
             /\ pc[p[2]] = "ranged" /\ p[1] <= Gone + k + limit[p[2]]
             /\ p[1] \notin ToSet(reply[p[2]])
  <2>1. /\ p \in ((Gone + k + 1)..pushed) \X Collectors
        /\ pc'[p[2]] = "ranged" /\ p[1] <= Gone + k + limit[p[2]] /\ p[1] \notin ToSet(reply[p[2]])
    BY DEF Doomed
  <2>2. p = <<p[1], p[2]>> /\ p[1] \in (Gone + k + 1)..pushed /\ p[2] \in Collectors
    BY <2>1
  <2>3. p[2] \in S /\ pc[p[2]] = "ranged"
    BY <2>1, <2>2 DEF Ranged
  <2>4. p[1] \in Nat
    BY <1>0, <2>2
  <2> QED BY <2>1, <2>2, <2>3, <2>4
<1>2. Doomed' \subseteq Rest \cup Next0
  <2> SUFFICES ASSUME NEW p \in Doomed', ~(p[1] > Gone + limit[p[2]]) PROVE p \in Rest
    OBVIOUS
  <2>1. p[1] <= Gone + limit[p[2]] /\ p[1] \in (Gone + 1)..pushed
    BY <1>0, <1>1
  <2>2. p \in ((Gone + 1)..pushed) \X Collectors
    BY <1>1, <2>1
  <2> QED BY <1>1, <2>1, <2>2 DEF Doomed
<1>3. /\ IsFiniteSet(Next0) /\ Cardinality(Next0) <= k * Cardinality(S)
      /\ Cardinality(Next0) \in Nat
  <2>1. \A p \in Next0 : \E e \in Nat, d \in S :
          p = <<e, d>> /\ Gone + limit[d] < e /\ e <= Gone + limit[d] + k
    <3> SUFFICES ASSUME NEW p \in Next0
                 PROVE  /\ p = <<p[1], p[2]>> /\ p[1] \in Nat /\ p[2] \in S
                        /\ Gone + limit[p[2]] < p[1] /\ p[1] <= Gone + limit[p[2]] + k
      OBVIOUS
    <3>1. limit[p[2]] \in Nat
      BY <1>0, <1>1
    <3> QED BY <1>0, <1>1, <3>1
  <2>2. \A d \in S : limit[d] \in Nat
    BY <1>0
  <2> HIDE DEF Next0
  <2> QED BY <1>0, <2>1, <2>2, CountShifted
<1> HIDE DEF Rest, Next0
<1>4. /\ IsFiniteSet(Doomed') /\ Cardinality(Doomed') \in Nat /\ Cardinality(Rest) \in Nat
      /\ Cardinality(Doomed') <= Cardinality(Rest) + Cardinality(Next0)
  BY <1>0, <1>2, <1>3, CountEither
<1>5. k * Cardinality(S) \in Nat
  BY <1>0, FS_CardinalityType
<1>6. Cardinality(Doomed') <= Cardinality(Rest) + k * Cardinality(S)
  BY <1>3, <1>4, <1>5
<1> QED BY <1>4, <1>6 DEF Rest

\* The entries removed are held by those that have removed them (Z), and by at
\* most each of those that are still to trim.
LEMMA HeldAfterRemoval ==
  ASSUME TypeOK, Shape, Ahead, NEW k \in Nat, Gone' = Gone + k, reply' = reply,
         NEW S \in SUBSET Ranged, S = {c \in Collectors : pc'[c] = "ranged"},
         \A c \in Collectors : pc'[c] \in {"ranged", "popped"} <=> pc[c] \in {"ranged", "popped"},
         NEW Z, IsFiniteSet(Z),
         \A p \in ((Gone + 1)..(Gone + k)) \X Collectors :
           pc'[p[2]] = "popped" /\ p[1] \in ToSet(reply[p[2]]) => p \in Z
  PROVE  /\ IsFiniteSet(Held') /\ Cardinality(Held') \in Nat /\ Cardinality(Z) \in Nat
         /\ Cardinality(Held') <= Cardinality(Held) + k * Cardinality(S) + Cardinality(Z)
         /\ HeldEntries \subseteq HeldEntries'
<1> DEFINE New == ((Gone + 1)..(Gone + k)) \X S
<1>0. Gone \in Nat /\ IsFiniteSet(Held) /\ Cardinality(Held) \in Nat /\ IsFiniteSet(S)
  BY ListHas, Countable, FS_Subset
<1>1. Held' \subseteq (Held \cup New) \cup Z
  <2> SUFFICES ASSUME NEW p \in Held', p \notin Z PROVE p \in Held \cup New
    OBVIOUS
  <2>1. /\ p \in (1..(Gone + k)) \X Collectors
        /\ pc'[p[2]] \in {"ranged", "popped"} /\ p[1] \in ToSet(reply[p[2]])
    BY DEF Held
  <2>2. p = <<p[1], p[2]>> /\ p[1] \in 1..(Gone + k) /\ p[2] \in Collectors
    BY <2>1
  <2>3. p[1] \in 1..Gone \/ p[1] \in (Gone + 1)..(Gone + k)
    BY <1>0, <2>2
  <2>4. CASE p[1] \in 1..Gone
    <3>1. p \in (1..Gone) \X Collectors
      BY <2>2, <2>4
    <3> QED BY <2>1, <2>2, <3>1 DEF Held
  <2>5. CASE p[1] \in (Gone + 1)..(Gone + k)
    <3>1. p \in ((Gone + 1)..(Gone + k)) \X Collectors
      BY <2>2, <2>5
    <3>2. p[2] \in S
      BY <2>1, <2>2, <3>1
    <3> QED BY <2>2, <2>5, <3>2
  <2> QED BY <2>3, <2>4, <2>5
<1>2. IsFiniteSet(New) /\ Cardinality(New) = k * Cardinality(S)
  BY <1>0, CountRange
<1>3. Held \subseteq Held'
  <2> SUFFICES ASSUME NEW p \in Held PROVE p \in Held'
    OBVIOUS
  <2>1. /\ p \in (1..Gone) \X Collectors
        /\ pc[p[2]] \in {"ranged", "popped"} /\ p[1] \in ToSet(reply[p[2]])
    BY DEF Held
  <2>2. p \in (1..(Gone + k)) \X Collectors /\ p[2] \in Collectors
    <3>1. 1..Gone \subseteq 1..(Gone + k)
      BY <1>0
    <3> QED BY <2>1, <3>1
  <2> QED BY <2>1, <2>2 DEF Held
<1>4. HeldEntries \subseteq HeldEntries'
  <2>1. 1..Gone \subseteq 1..(Gone + k)
    BY <1>0
  <2> QED BY <1>3, <2>1 DEF HeldEntries
<1> HIDE DEF New
<1>5. /\ IsFiniteSet(Held \cup New) /\ Cardinality(Held \cup New) \in Nat
      /\ Cardinality(New) \in Nat
      /\ Cardinality(Held \cup New) <= Cardinality(Held) + Cardinality(New)
  BY <1>0, <1>2, CountEither
<1>6. /\ IsFiniteSet(Held') /\ Cardinality(Held') \in Nat /\ Cardinality(Z) \in Nat
      /\ Cardinality(Held') <= Cardinality(Held \cup New) + Cardinality(Z)
  <2> DEFINE B == Held \cup New
  <2>1. IsFiniteSet(B) /\ Held' \subseteq B \cup Z
    BY <1>1, <1>5
  <2> HIDE DEF B
  <2>2. /\ IsFiniteSet(Held') /\ Cardinality(Held') \in Nat /\ Cardinality(Z) \in Nat
        /\ Cardinality(Held') <= Cardinality(B) + Cardinality(Z)
    BY <2>1, CountEither
  <2> QED BY <2>2 DEF B
<1>7. Cardinality(Held') <= Cardinality(Held) + k * Cardinality(S) + Cardinality(Z)
  BY <1>0, <1>2, <1>5, <1>6
<1> QED BY <1>4, <1>6, <1>7

\* LTRIM: what the collector has not read is lost, and was doomed before; the
\* entries it holds are repeated only if somebody else holds them.
LEMMA TrimmedAway ==
  ASSUME IInv, NEW c \in Collectors, LTrim(c)
  PROVE  Ahead' /\ RepeatsCharged' /\ LossCharged'
<1> DEFINE k == Min2(limit[c], Len(list))
           S == {d \in Collectors : pc'[d] = "ranged"}
           X == {e \in (Gone + 1)..(Gone + k) : e \in ToSet(reply[c])}
           W == ((Gone + 1)..(Gone + k)) \ ToSet(reply[c])
<1>0. /\ TypeOK /\ Shape /\ Ahead /\ RepeatsCharged /\ LossCharged
      /\ pushed' = pushed /\ limit' = limit /\ reply' = reply /\ dropped' = dropped
      /\ raced' = raced /\ received' = received /\ repeats' = repeats
      /\ pc[c] = "ranged" /\ pc' = [pc EXCEPT ![c] = "popped"]
      /\ list' = SubSeq(list, 1, Len(list) - k)
      /\ overtaken' = overtaken + k * Between(Collectors \ {c})
  BY DEF IInv, LTrim, Trim, Trimmed, Goto, told
<1>1. /\ Gone \in Nat /\ pushed \in Nat /\ Gone <= pushed /\ Gone + Len(list) = pushed
      /\ Len(list) \in Nat /\ limit[c] \in Nat
      /\ \A d \in Collectors : limit[d] \in Nat
  BY <1>0, ListHas, Numbers
<1>2. k \in Nat /\ k \in 0..Len(list) /\ k <= limit[c] /\ (k = limit[c] \/ Gone + k = pushed)
  BY <1>1 DEF Min2
<1>3. pc'[c] = "popped" /\ \A d \in Collectors : d # c => pc'[d] = pc[d]
  BY <1>0 DEF TypeOK
<1>4. S \in SUBSET Ranged /\ c \notin S /\ Between(Collectors \ {c}) = Cardinality(S)
  <2>1. S = {d \in Collectors \ {c} : pc[d] = "ranged"}
    BY <1>3
  <2> QED BY <2>1 DEF Between, Ranged
<1> HIDE DEF k
<1>5. Gone' = Gone + k
  BY <1>0, <1>2, Shortened
<1>6. Ahead'
  <2>1. received' \subseteq 1..(Gone + k)
    BY <1>0, <1>1, <1>2 DEF Ahead
  <2>2. ASSUME NEW d \in Collectors, d # c, pc'[d] = "popped"
        PROVE  ToSet(reply[d]) \subseteq 1..(Gone + k)
    <3>1. ToSet(reply[d]) \subseteq 1..Gone
      BY <1>0, <1>3, <2>2 DEF Ahead
    <3> QED BY <1>1, <1>2, <3>1
  <2>3. ASSUME NEW d \in Collectors, pc'[d] = "ranged"
        PROVE  ToSet(reply[d]) \subseteq 1..((Gone + k) + limit[d])
    <3>1. ToSet(reply[d]) \subseteq 1..(Gone + limit[d]) /\ limit[d] \in Nat
      BY <1>0, <1>1, <1>3, <2>3 DEF Ahead
    <3> QED BY <1>1, <1>2, <3>1
  <2>4. ToSet(reply[c]) \subseteq 1..(Gone + k)
    <3>1. reply[c] \in Seq(1..pushed)
      BY <1>0 DEF TypeOK
    <3> DEFINE s == reply[c]
    <3>2. ToSet(s) \subseteq 1..pushed
      <4> HIDE DEF s
      <4>1. s \in Seq(1..pushed)
        BY <3>1 DEF s
      <4>2. \A i \in DOMAIN s : s[i] \in 1..pushed
        BY <4>1, LenProperties
      <4> QED BY <4>2 DEF ToSet
    <3>3. ToSet(reply[c]) \subseteq 1..(Gone + limit[c])
      BY <1>0 DEF Ahead
    <3> QED BY <1>2, <3>2, <3>3
  <2> QED BY <1>0, <1>5, <2>1, <2>2, <2>3, <2>4 DEF Ahead
<1>7. /\ IsFiniteSet((Gone + 1)..(Gone + k)) /\ IsFiniteSet(X) /\ IsFiniteSet(W)
      /\ IsFiniteSet(S)
      /\ Cardinality(X) \in Nat /\ Cardinality(W) \in Nat /\ Cardinality(S) \in Nat
  <2>1. Gone + 1 \in Int /\ Gone + k \in Int
    BY <1>1, <1>2
  <2>2. IsFiniteSet((Gone + 1)..(Gone + k))
    BY <2>1, FS_Interval
  <2>3. X \in SUBSET ((Gone + 1)..(Gone + k)) /\ W \in SUBSET ((Gone + 1)..(Gone + k))
    OBVIOUS
  <2>4. IsFiniteSet(Ranged)
    BY <1>0, Countable
  <2> HIDE DEF X, W, S
  <2>5. IsFiniteSet(X) /\ IsFiniteSet(W) /\ IsFiniteSet(S)
    BY <1>4, <2>2, <2>3, <2>4, FS_Subset
  <2> QED BY <2>2, <2>5, FS_CardinalityType
<1>8. k * Cardinality(S) \in Nat /\ overtaken' = overtaken + k * Cardinality(S)
  BY <1>0, <1>2, <1>4, <1>7
<1>9. /\ repeats \in Nat /\ overtaken \in Nat /\ raced \in Nat
      /\ Cardinality(received) \in Nat
      /\ IsFiniteSet(Held) /\ Cardinality(Held) \in Nat
      /\ IsFiniteSet(Doomed) /\ Cardinality(Doomed) \in Nat
      /\ IsFiniteSet(Lost) /\ Cardinality(Lost) \in Nat
      /\ received \cup HeldEntries \subseteq 1..Gone
  BY <1>0, Countable, Numbers
<1>10. RepeatsCharged'
  <2> DEFINE Z == X \X {c}
  <2>1. IsFiniteSet(Z) /\ Cardinality(Z) = Cardinality(X)
    <3> HIDE DEF X
    <3> QED BY <1>7, CountPairs
  <2>2. \A d \in Collectors : pc'[d] \in {"ranged", "popped"} <=> pc[d] \in {"ranged", "popped"}
    BY <1>0, <1>3
  <2>3. ASSUME NEW p \in ((Gone + 1)..(Gone + k)) \X Collectors,
               pc'[p[2]] = "popped", p[1] \in ToSet(reply[p[2]])
        PROVE  p \in Z
    <3>1. p = <<p[1], p[2]>> /\ p[1] \in (Gone + 1)..(Gone + k) /\ p[2] \in Collectors
      OBVIOUS
    <3>2. p[2] = c
      <4>1. SUFFICES ASSUME p[2] # c PROVE FALSE
        OBVIOUS
      <4>2. p[1] \in 1..Gone
        BY <1>0, <1>3, <2>3, <3>1, <4>1 DEF Ahead
      <4> QED BY <1>1, <3>1, <4>2
    <3> QED BY <2>3, <3>1, <3>2
  <2> HIDE DEF Z
  <2>4. /\ Cardinality(Held') \in Nat /\ HeldEntries \subseteq HeldEntries'
        /\ Cardinality(Held') <= Cardinality(Held) + k * Cardinality(S) + Cardinality(Z)
    BY <1>0, <1>2, <1>4, <1>5, <2>1, <2>2, <2>3, HeldAfterRemoval
  <2>5. X \subseteq HeldEntries'
    <3> SUFFICES ASSUME NEW e \in X PROVE e \in HeldEntries'
      OBVIOUS
    <3>1. e \in 1..(Gone + k) /\ e \in ToSet(reply[c])
      BY <1>1, <1>2
    <3>2. <<e, c>> \in Held'
      BY <1>0, <1>3, <1>5, <3>1 DEF Held
    <3> QED BY <1>5, <3>1, <3>2 DEF HeldEntries
  <2> DEFINE A == received \cup HeldEntries
             B == received' \cup HeldEntries'
  <2>6. A \cup X \subseteq B /\ A \cap X = {}
    BY <1>0, <1>1, <1>9, <2>4, <2>5
  <2>7. IsFiniteSet(B)
    <3>1. B \subseteq 1..(Gone + k)
      BY <1>5, <1>6 DEF Ahead, HeldEntries
    <3>2. 1 \in Int /\ Gone + k \in Int
      BY <1>1, <1>2
    <3> QED BY <3>1, <3>2, FS_Interval, FS_Subset
  <2>8. repeats + Cardinality(received) + Cardinality(Held) <= Cardinality(A) + overtaken
    BY <1>0 DEF RepeatsCharged
  <2> HIDE DEF A, B, X, S
  <2>9. /\ Cardinality(A) \in Nat /\ Cardinality(B) \in Nat
        /\ Cardinality(A) + Cardinality(X) <= Cardinality(B)
    BY <2>6, <2>7, CountBoth
  <2>10. repeats + Cardinality(received) + Cardinality(Held') <= Cardinality(B) + overtaken'
    <3> DEFINE n == k * Cardinality(S)
    <3>1. n \in Nat /\ overtaken' = overtaken + n
          /\ Cardinality(Held') <= Cardinality(Held) + n + Cardinality(X)
      BY <1>8, <2>1, <2>4
    <3> HIDE DEF n, W
    <3>2. Cardinality(X) \in Nat
      BY <1>7
    <3>3. repeats + Cardinality(received) + Cardinality(Held')
            <= repeats + Cardinality(received) + Cardinality(Held) + n + Cardinality(X)
      BY <1>9, <2>4, <3>1, <3>2
    <3>4. repeats + Cardinality(received) + Cardinality(Held) + n + Cardinality(X)
            <= Cardinality(B) + overtaken + n
      BY <1>9, <2>8, <2>9, <3>1, <3>2
    <3>5. Cardinality(B) + overtaken + n = Cardinality(B) + overtaken'
      BY <1>9, <2>9, <3>1
    <3> QED BY <1>9, <2>4, <2>9, <3>1, <3>2, <3>3, <3>4, <3>5
  <2> QED BY <1>0, <2>10 DEF RepeatsCharged, B
<1>11. LossCharged'
  <2> DEFINE Rest == {p \in Doomed : p[2] \in S}
             P == W \X {c}
  <2>1. IsFiniteSet(P) /\ Cardinality(P) = Cardinality(W)
    <3> HIDE DEF W
    <3> QED BY <1>7, CountPairs
  <2>2. P \subseteq Doomed
    <3> SUFFICES ASSUME NEW e \in W PROVE <<e, c>> \in Doomed
      OBVIOUS
    <3>1. e \in (Gone + 1)..pushed /\ e <= Gone + limit[c] /\ e \notin ToSet(reply[c])
      BY <1>1, <1>2
    <3> QED BY <1>0, <3>1 DEF Doomed
  <2>3. Rest \cup P \subseteq Doomed /\ Rest \cap P = {}
    BY <1>4, <2>2
  <2>4. /\ IsFiniteSet(Doomed') /\ Cardinality(Doomed') \in Nat
        /\ Cardinality(Doomed') <= Cardinality(Rest) + k * Cardinality(S)
    BY <1>0, <1>2, <1>4, <1>5, DoomedByRemoval
  <2>5. Lost' \subseteq Lost \cup W
    <3>1. \A e : e \in OnTheWay' <=> \E d \in Collectors : pc'[d] = "popped" /\ e \in ToSet(reply[d])
      BY <1>0 DEF OnTheWay
    <3>2. \A e : e \in OnTheWay \/ e \in ToSet(reply[c]) => e \in OnTheWay'
      BY <1>0, <1>3, <3>1, OnTheWayHas
    <3>3. ASSUME NEW e \in Lost' PROVE e \in Lost \cup W
      <4>1. /\ e \in 1..(Gone + k) /\ e \notin received /\ e \notin OnTheWay /\ e \notin dropped
            /\ e \notin ToSet(reply[c])
        BY <1>0, <1>5, <3>2 DEF Lost
      <4>2. e \in 1..Gone \/ e \in (Gone + 1)..(Gone + k)
        BY <1>1, <4>1
      <4> QED BY <4>1, <4>2 DEF Lost
    <3> QED BY <3>3
  <2> HIDE DEF Rest, P, W, S
  <2>6. /\ Cardinality(Rest) \in Nat
        /\ Cardinality(Rest) + Cardinality(P) <= Cardinality(Doomed)
    BY <1>9, <2>3, CountBoth
  <2>7. Cardinality(Lost') \in Nat /\ Cardinality(Lost') <= Cardinality(Lost) + Cardinality(W)
    BY <1>7, <1>9, <2>5, CountEither
  <2>8. Cardinality(Lost) + Cardinality(Doomed) <= raced + overtaken
    BY <1>0 DEF LossCharged
  <2>9. Cardinality(Lost') + Cardinality(Doomed') <= raced + overtaken'
    <3> DEFINE n == k * Cardinality(S)
    <3>1. n \in Nat /\ overtaken' = overtaken + n /\ Cardinality(Doomed') <= Cardinality(Rest) + n
          /\ Cardinality(Rest) + Cardinality(W) <= Cardinality(Doomed)
      BY <1>8, <2>1, <2>4, <2>6
    <3> HIDE DEF n
    <3> QED BY <1>7, <1>9, <2>4, <2>6, <2>7, <2>8, <3>1
  <2> QED BY <1>0, <2>9 DEF LossCharged
<1> QED BY <1>6, <1>10, <1>11

\* RPOP by a job: the oldest entry has been collected, and may be held by each
\* of those that are still to trim.
LEMMA TakenAway ==
  ASSUME IInv, TakenDirectly
  PROVE  /\ Ahead' /\ RepeatsCharged' /\ LossCharged'
         /\ list' = SubSeq(list, 1, Len(list) - 1) /\ 1 \in 0..Len(list)
         /\ received' = received \cup {Gone + 1} /\ repeats' = repeats
<1> DEFINE S == {d \in Collectors : pc'[d] = "ranged"}
           e == Gone + 1
<1>0. /\ TypeOK /\ Shape /\ Ahead /\ RepeatsCharged /\ LossCharged
      /\ pushed' = pushed /\ limit' = limit /\ reply' = reply /\ dropped' = dropped
      /\ raced' = raced /\ pc' = pc
      /\ list' = SubSeq(list, 1, Len(list) - 1)
      /\ overtaken' = overtaken + Between(Collectors)
  BY DEF IInv, TakenDirectly, Front
<1>1. /\ Gone \in Nat /\ pushed \in Nat /\ Gone <= pushed /\ Gone + Len(list) = pushed
      /\ Len(list) \in Nat /\ list \in Seq(1..pushed)
      /\ \A d \in Collectors : limit[d] \in Nat
  BY <1>0, ListHas, Numbers
<1>2. Len(list) >= 1 /\ 1 \in 0..Len(list) /\ 1 \in Nat
  <2>1. Len(list) # 0
    BY <1>1, EmptySeq DEF TakenDirectly
  <2> QED BY <1>1, <2>1
<1>3. Gone' = Gone + 1
  BY <1>0, <1>2, Shortened
<1>4. S = Ranged /\ Between(Collectors) = Cardinality(S)
  BY <1>0, Countable DEF Ranged
<1>5. /\ repeats \in Nat /\ overtaken \in Nat /\ raced \in Nat
      /\ IsFiniteSet(received) /\ Cardinality(received) \in Nat
      /\ IsFiniteSet(Held) /\ Cardinality(Held) \in Nat
      /\ IsFiniteSet(Doomed) /\ Cardinality(Doomed) \in Nat
      /\ IsFiniteSet(Lost) /\ Cardinality(Lost) \in Nat
      /\ IsFiniteSet(S) /\ Cardinality(S) \in Nat
      /\ received \cup HeldEntries \subseteq 1..Gone /\ received \subseteq 1..Gone
  BY <1>0, <1>4, Countable, Numbers
<1>6. Last(list) = e
  <2>1. Last(list) = list[Len(list)] /\ Len(list) \in 1..Len(list)
    BY <1>1, <1>2 DEF Last
  <2>2. list[Len(list)] = pushed + 1 - Len(list)
    BY <1>0, <2>1 DEF Shape
  <2> QED BY <1>1, <2>1, <2>2
<1>7. e \notin received /\ e \notin HeldEntries
  BY <1>1, <1>5
<1>8. received' = received \cup {e} /\ repeats' = repeats
  <2>1. received' = received \cup {e} /\ repeats' = repeats + Cardinality({e} \cap received)
    BY <1>6 DEF TakenDirectly, Receive
  <2>2. {e} \cap received = {}
    BY <1>7
  <2>3. Cardinality({}) = 0
    BY FS_EmptySet
  <2> QED BY <1>5, <2>1, <2>2, <2>3
<1>9. Ahead'
  <2>1. received' \subseteq 1..(Gone + 1)
    BY <1>1, <1>5, <1>8
  <2>2. ASSUME NEW d \in Collectors, pc[d] = "popped"
        PROVE  ToSet(reply[d]) \subseteq 1..(Gone + 1)
    <3>1. ToSet(reply[d]) \subseteq 1..Gone
      BY <1>0, <2>2 DEF Ahead
    <3> QED BY <1>1, <3>1
  <2>3. ASSUME NEW d \in Collectors, pc[d] = "ranged"
        PROVE  ToSet(reply[d]) \subseteq 1..((Gone + 1) + limit[d])
    <3>1. ToSet(reply[d]) \subseteq 1..(Gone + limit[d]) /\ limit[d] \in Nat
      BY <1>0, <1>1, <2>3 DEF Ahead
    <3> QED BY <1>1, <3>1
  <2> QED BY <1>0, <1>3, <2>1, <2>2, <2>3 DEF Ahead
<1>10. 1 * Cardinality(S) = Cardinality(S) /\ overtaken' = overtaken + Cardinality(S)
  BY <1>0, <1>4, <1>5
<1>11. RepeatsCharged'
  <2> DEFINE Z == {}
             A == received \cup HeldEntries
             B == received' \cup HeldEntries'
  <2>1. IsFiniteSet(Z) /\ Cardinality(Z) = 0
    BY FS_EmptySet
  <2>2. \A p \in ((Gone + 1)..(Gone + 1)) \X Collectors :
          pc'[p[2]] = "popped" /\ p[1] \in ToSet(reply[p[2]]) => p \in Z
    <3> SUFFICES ASSUME NEW p \in ((Gone + 1)..(Gone + 1)) \X Collectors,
                        pc[p[2]] = "popped", p[1] \in ToSet(reply[p[2]])
                 PROVE  FALSE
      BY <1>0
    <3>1. p[1] \in (Gone + 1)..(Gone + 1) /\ p[2] \in Collectors
      OBVIOUS
    <3>2. p[1] \in 1..Gone
      BY <1>0, <3>1 DEF Ahead
    <3> QED BY <1>1, <3>1, <3>2
  <2> HIDE DEF Z
  <2>3. /\ Cardinality(Held') \in Nat /\ HeldEntries \subseteq HeldEntries'
        /\ Cardinality(Held') <= Cardinality(Held) + 1 * Cardinality(S) + Cardinality(Z)
    BY <1>0, <1>2, <1>3, <1>4, <2>1, <2>2, HeldAfterRemoval
  <2>4. A \cup {e} \subseteq B /\ A \cap {e} = {}
    BY <1>7, <1>8, <2>3
  <2>5. IsFiniteSet(B)
    <3>1. B \subseteq 1..(Gone + 1)
      BY <1>3, <1>9 DEF Ahead, HeldEntries
    <3>2. 1 \in Int /\ Gone + 1 \in Int
      BY <1>1
    <3> QED BY <3>1, <3>2, FS_Interval, FS_Subset
  <2>6. repeats + Cardinality(received) + Cardinality(Held) <= Cardinality(A) + overtaken
    BY <1>0 DEF RepeatsCharged
  <2>7. Cardinality(received') = Cardinality(received) + 1
    BY <1>5, <1>7, <1>8, FS_AddElement
  <2>8. Cardinality({e}) = 1
    BY FS_Singleton
  <2> HIDE DEF A, B, S
  <2>9. /\ Cardinality(A) \in Nat /\ Cardinality(B) \in Nat
        /\ Cardinality(A) + Cardinality({e}) <= Cardinality(B)
    BY <2>4, <2>5, CountBoth
  <2>10. Cardinality(Held') <= Cardinality(Held) + Cardinality(S)
    BY <1>5, <1>10, <2>1, <2>3
  <2>11. repeats + (Cardinality(received) + 1) + Cardinality(Held')
           <= Cardinality(B) + (overtaken + Cardinality(S))
    <3> HIDE DEF e
    <3> QED BY <1>5, <2>3, <2>6, <2>8, <2>9, <2>10
  <2> QED BY <1>8, <1>10, <2>7, <2>11 DEF RepeatsCharged, B
<1>12. LossCharged'
  <2> DEFINE Rest == {p \in Doomed : p[2] \in S}
  <2>1. /\ IsFiniteSet(Doomed') /\ Cardinality(Doomed') \in Nat
        /\ Cardinality(Doomed') <= Cardinality(Rest) + 1 * Cardinality(S)
    BY <1>0, <1>2, <1>3, <1>4, DoomedByRemoval
  <2>2. Lost' \subseteq Lost
    <3>1. OnTheWay' = OnTheWay
      BY <1>0 DEF OnTheWay
    <3>2. \A x \in 1..(Gone + 1) : x \in 1..Gone \/ x = e
      BY <1>1
    <3> QED BY <1>0, <1>3, <1>8, <3>1, <3>2 DEF Lost
  <2>3. Rest \subseteq Doomed
    OBVIOUS
  <2> HIDE DEF Rest, S
  <2>4. /\ Cardinality(Rest) \in Nat /\ Cardinality(Rest) <= Cardinality(Doomed)
        /\ Cardinality(Lost') \in Nat /\ Cardinality(Lost') <= Cardinality(Lost)
    BY <1>5, <2>2, <2>3, FS_Subset, FS_CardinalityType
  <2>5. Cardinality(Lost) + Cardinality(Doomed) <= raced + overtaken
    BY <1>0 DEF LossCharged
  <2>6. Cardinality(Lost') + Cardinality(Doomed') <= raced + (overtaken + Cardinality(S))
    BY <1>5, <1>10, <2>1, <2>4, <2>5
  <2> QED BY <1>0, <1>10, <2>6 DEF LossCharged
<1> QED BY <1>0, <1>2, <1>8, <1>9, <1>11, <1>12

-----------------------------------------------------------------------------
(* Types, and the shape of the list.                                       *)

LEMMA StepKeepsShape ==
  ASSUME TypeOK, Shape, Ahead, [Next]_vars
  PROVE  /\ Shape' /\ list' \in Seq(1..pushed') /\ pushed' \in 0..MaxEntries
         /\ pushed \in Nat /\ pushed' \in Nat /\ pushed <= pushed'
<1>1. pushed \in Nat /\ Len(list) \in Nat /\ list \in Seq(1..pushed) /\ MaxEntries \in Nat
  BY Numbers, FeedbackAssumption
<1>2. CASE Push
  <2>1. pushed' = pushed + 1
    BY <1>2 DEF Push
  <2> QED BY <1>1, <1>2, <2>1, Lengthened
<1>3. ASSUME NEW k \in 0..Len(list), pushed' = pushed, list' = SubSeq(list, 1, Len(list) - k)
      PROVE  Shape' /\ list' \in Seq(1..pushed')
  BY <1>3, Shortened
<1>4. CASE TakenDirectly
  <2>1. Len(list) # 0
    BY <1>1, <1>4, EmptySeq DEF TakenDirectly
  <2>2. 1 \in 0..Len(list)
    BY <1>1, <2>1
  <2>3. pushed' = pushed /\ list' = SubSeq(list, 1, Len(list) - 1)
    BY <1>4 DEF TakenDirectly, Front
  <2>4. Shape' /\ list' \in Seq(1..pushed')
    BY <1>3, <2>2, <2>3
  <2> QED BY <1>1, <2>3, <2>4 DEF TypeOK
<1>5. ASSUME NEW c \in Collectors, LTrim(c)
      PROVE  Shape' /\ list' \in Seq(1..pushed') /\ pushed' = pushed
  <2>1. /\ pushed' = pushed
        /\ list' = SubSeq(list, 1, Len(list) - Min2(limit[c], Len(list)))
    BY <1>5 DEF LTrim, Trim, Trimmed
  <2>2. Min2(limit[c], Len(list)) \in 0..Len(list)
    <3>1. limit[c] \in Nat
      BY Numbers
    <3> QED BY <1>1, <3>1 DEF Min2
  <2> QED BY <1>3, <2>1, <2>2
<1>6. CASE UNCHANGED <<list, pushed>>
  BY <1>1, <1>6 DEF TypeOK, Shape
<1> QED BY <1>1, <1>2, <1>4, <1>5, <1>6
        DEF Next, LRange, PipelineBreaks, Answer, AnswerLost, Peek, Count, vars, TypeOK

LEMMA StepKeepsTypes ==
  ASSUME TypeOK, Shape, Ahead, [Next]_vars
  PROVE  TypeOK'
<1>0. /\ list' \in Seq(1..pushed') /\ pushed' \in 0..MaxEntries
      /\ pushed \in Nat /\ pushed' \in Nat /\ pushed <= pushed'
      /\ 1..pushed \subseteq 1..pushed' /\ Seq(1..pushed) \subseteq Seq(1..pushed')
  <2>1. /\ list' \in Seq(1..pushed') /\ pushed' \in 0..MaxEntries
        /\ pushed \in Nat /\ pushed' \in Nat /\ pushed <= pushed'
    BY StepKeepsShape
  <2>2. 1..pushed \subseteq 1..pushed'
    BY <2>1
  <2> QED BY <2>1, <2>2
<1>1. pc' \in [Collectors -> PCs]
  BY DEF TypeOK, Next, Push, TakenDirectly, LRange, LTrim, PipelineBreaks, Answer, AnswerLost,
         Peek, Count, Goto, PCs, vars
<1>2. limit' \in [Collectors -> Limits \cup {0}]
  BY DEF TypeOK, Next, Push, TakenDirectly, LRange, LTrim, PipelineBreaks, Answer, AnswerLost,
         Peek, Count, Over, vars
<1>3. reply' \in [Collectors -> Seq(1..pushed')]
  <2>0. reply \in [Collectors -> Seq(1..pushed')]
    BY <1>0 DEF TypeOK
  <2>1. ASSUME NEW c \in Collectors, LRange(c) \/ Peek(c)
        PROVE  reply' \in [Collectors -> Seq(1..pushed')]
    <3>1. PICK n \in Limits : reply' = [reply EXCEPT ![c] = Tailmost(n)]
      BY <2>1 DEF LRange, Peek
    <3>2. n \in Nat
      BY Numbers
    <3>3. Tailmost(n) \in Seq(1..pushed)
      BY <3>2, TailmostHas
    <3> QED BY <1>0, <2>0, <3>1, <3>3
  <2>2. ASSUME NEW c \in Collectors, Over(c)
        PROVE  reply' \in [Collectors -> Seq(1..pushed')]
    BY <2>0, <2>2 DEF Over
  <2>3. CASE reply' = reply
    BY <2>0, <2>3
  <2> QED BY <2>1, <2>2, <2>3
          DEF Next, Push, TakenDirectly, LTrim, PipelineBreaks, Answer, AnswerLost, Count, vars
<1>4. ASSUME NEW c \in Collectors PROVE ToSet(reply[c]) \subseteq 1..pushed
  <2> DEFINE s == reply[c]
  <2>1. s \in Seq(1..pushed)
    BY DEF TypeOK
  <2> HIDE DEF s
  <2>2. \A i \in DOMAIN s : s[i] \in 1..pushed
    BY <2>1, LenProperties
  <2>3. ToSet(s) \subseteq 1..pushed
    BY <2>2 DEF ToSet
  <2> QED BY <2>3 DEF s
<1>5. received' \subseteq 1..pushed' /\ repeats' \in Nat
  <2>0. /\ received \subseteq 1..pushed' /\ received \subseteq 1..pushed /\ repeats \in Nat
        /\ IsFiniteSet(received)
    BY <1>0, Countable DEF TypeOK
  <2>1. ASSUME NEW entries, entries \subseteq 1..pushed, Receive(entries)
        PROVE  received' \subseteq 1..pushed' /\ repeats' \in Nat
    <3>1. IsFiniteSet(entries \cap received)
      BY <2>0, FS_Intersection
    <3>2. Cardinality(entries \cap received) \in Nat
      BY <3>1, FS_CardinalityType
    <3> QED BY <1>0, <2>0, <2>1, <3>2 DEF Receive
  <2>2. CASE TakenDirectly
    <3>1. Len(list) # 0 /\ Len(list) \in Nat /\ list \in Seq(1..pushed)
      BY <2>2, Numbers, EmptySeq DEF TakenDirectly
    <3>2. {Last(list)} \subseteq 1..pushed
      <4>1. Len(list) \in 1..Len(list) /\ DOMAIN list = 1..Len(list)
        BY <3>1, Numbers
      <4>2. list[Len(list)] \in 1..pushed
        BY <3>1, <4>1, LenProperties
      <4> QED BY <4>2 DEF Last
    <3>3. Receive({Last(list)})
      BY <2>2 DEF TakenDirectly
    <3> QED BY <2>1, <3>2, <3>3
  <2>3. ASSUME NEW c \in Collectors, Answer(c)
        PROVE  received' \subseteq 1..pushed' /\ repeats' \in Nat
    <3>1. Receive(ToSet(reply[c]))
      BY <2>3 DEF Answer
    <3> QED BY <1>4, <2>1, <3>1
  <2>4. CASE UNCHANGED told
    BY <2>0, <2>4 DEF told
  <2> QED BY <2>2, <2>3, <2>4
          DEF Next, Push, LRange, LTrim, PipelineBreaks, AnswerLost, Peek, Count, vars
<1>6. dropped' \subseteq 1..pushed'
  <2>1. ASSUME NEW c \in Collectors, AnswerLost(c) PROVE dropped' \subseteq 1..pushed'
    BY <1>0, <1>4, <2>1 DEF AnswerLost, TypeOK
  <2>2. CASE UNCHANGED dropped
    BY <1>0, <2>2 DEF TypeOK
  <2> QED BY <2>1, <2>2
          DEF Next, Push, TakenDirectly, LRange, LTrim, PipelineBreaks, Answer, Peek, Count, vars
<1>7. raced' \in Nat /\ overtaken' \in Nat
  <2>0. raced \in Nat /\ overtaken \in Nat
    BY DEF TypeOK
  <2>1. ASSUME NEW D \in SUBSET Collectors PROVE Between(D) \in Nat
    <3>1. IsFiniteSet({d \in D : pc[d] = "ranged"})
      <4>1. {d \in D : pc[d] = "ranged"} \subseteq Collectors
        OBVIOUS
      <4> QED BY <4>1, FS_Subset, FeedbackAssumption
    <3> QED BY <3>1, FS_CardinalityType DEF Between
  <2>2. ASSUME NEW c \in Collectors, LTrim(c) PROVE raced' \in Nat /\ overtaken' \in Nat
    <3>1. /\ raced' = raced
          /\ overtaken' = overtaken
               + Min2(limit[c], Len(list)) * Between(Collectors \ {c})
      BY <2>2 DEF LTrim, Trim
    <3>2. limit[c] \in Nat /\ Len(list) \in Nat
      BY Numbers
    <3>3. Min2(limit[c], Len(list)) \in Nat
      BY <3>2 DEF Min2
    <3>4. Between(Collectors \ {c}) \in Nat
      BY <2>1
    <3> QED BY <2>0, <3>1, <3>3, <3>4
  <2>3. CASE Push \/ TakenDirectly
    <3>1. Between(Collectors) \in Nat
      BY <2>1
    <3>2. \/ raced' = raced + Between(Collectors) /\ overtaken' = overtaken
          \/ raced' = raced /\ overtaken' = overtaken + Between(Collectors)
      BY <2>3 DEF Push, TakenDirectly
    <3> QED BY <2>0, <3>1, <3>2
  <2>4. CASE UNCHANGED races
    BY <2>0, <2>4 DEF races
  <2> QED BY <2>2, <2>3, <2>4
          DEF Next, LRange, PipelineBreaks, Answer, AnswerLost, Peek, Count, vars
<1> QED BY <1>0, <1>1, <1>2, <1>3, <1>5, <1>6, <1>7 DEF TypeOK

-----------------------------------------------------------------------------
(* The theorems.                                                           *)

\* The inductive invariant: the list has the newest entries, in order, nobody
\* is ahead of it, and repeats and losses are charged to those who raced.
THEOREM IInvHolds == Spec => []IInv
<1>1. Init => IInv
  <2> SUFFICES ASSUME Init PROVE IInv
    OBVIOUS
  <2>1. Len(list) = 0 /\ pushed = 0 /\ Gone = 0 /\ 1..0 = {} /\ 1..Gone = {}
    <3>1. Len(list) = 0 /\ pushed = 0
      BY DEF Init
    <3> QED BY <3>1 DEF Gone
  <2>2. TypeOK
    <3>1. pc \in [Collectors -> PCs] /\ 0 \in 0..MaxEntries
      BY FeedbackAssumption DEF Init, PCs
    <3>2. limit \in [Collectors -> Limits \cup {0}]
      BY DEF Init
    <3>3. reply \in [Collectors -> Seq(1..pushed)] /\ list \in Seq(1..pushed)
      BY DEF Init
    <3> QED BY <3>1, <3>2, <3>3 DEF Init, TypeOK
  <2>3. Shape
    BY <2>1 DEF Shape
  <2>4. Ahead
    BY DEF Init, Ahead
  <2>5. Cardinality({}) = 0
    BY FS_EmptySet
  <2>6. RepeatsCharged
    <3>1. received \cup HeldEntries = {} /\ received = {} /\ Held = {}
      BY <2>1 DEF Init, HeldEntries, Held
    <3>2. /\ Cardinality(received \cup HeldEntries) = 0 /\ Cardinality(received) = 0
          /\ Cardinality(Held) = 0
      BY <2>5, <3>1
    <3>3. repeats = 0 /\ overtaken = 0
      BY DEF Init
    <3> QED BY <3>2, <3>3 DEF RepeatsCharged
  <2>7. LossCharged
    <3>1. Lost = {} /\ Doomed = {}
      BY <2>1 DEF Init, Lost, Doomed
    <3> QED BY <2>5, <3>1 DEF Init, LossCharged
  <2> QED BY <2>2, <2>3, <2>4, <2>6, <2>7 DEF IInv
<1>2. IInv /\ [Next]_vars => IInv'
  <2> SUFFICES ASSUME IInv, [Next]_vars PROVE IInv'
    OBVIOUS
  <2>1. TypeOK' /\ Shape'
    BY StepKeepsTypes, StepKeepsShape DEF IInv
  <2>2. Ahead' /\ RepeatsCharged' /\ LossCharged'
    <3>1. CASE Push
      BY <3>1, Pushed
    <3>2. CASE TakenDirectly
      BY <3>2, TakenAway
    <3>3. ASSUME NEW c \in Collectors, LRange(c) \/ Peek(c) \/ Count(c)
          PROVE  Ahead' /\ RepeatsCharged' /\ LossCharged'
      BY <3>3, Asked
    <3>4. ASSUME NEW c \in Collectors, LTrim(c)
          PROVE  Ahead' /\ RepeatsCharged' /\ LossCharged'
      BY <3>4, TrimmedAway
    <3>5. ASSUME NEW c \in Collectors, Answer(c)
          PROVE  Ahead' /\ RepeatsCharged' /\ LossCharged'
      BY <3>5, Answered
    <3>6. ASSUME NEW c \in Collectors, PipelineBreaks(c) \/ AnswerLost(c)
          PROVE  Ahead' /\ RepeatsCharged' /\ LossCharged'
      <4>1. /\ pc[c] \in {"ranged", "popped"} /\ pc' = [pc EXCEPT ![c] = "idle"] /\ Over(c)
            /\ list' = list /\ pushed' = pushed /\ received' = received /\ repeats' = repeats
            /\ raced' = raced /\ overtaken' = overtaken
            /\ dropped \subseteq dropped'
            /\ pc[c] = "popped" => ToSet(reply[c]) \subseteq dropped'
        BY <3>6 DEF PipelineBreaks, AnswerLost, Goto, told, races
      <4> QED BY <4>1, GivenUp
    <3>7. CASE UNCHANGED vars
      <4>1. Gone' = Gone /\ Held' = Held /\ HeldEntries' = HeldEntries /\ Doomed' = Doomed
            /\ Lost' = Lost
        BY <3>7 DEF vars, told, races, Gone, Held, HeldEntries, Doomed, Lost, OnTheWay
      <4> QED BY <3>7, <4>1
              DEF vars, told, races, IInv, Ahead, RepeatsCharged, LossCharged
    <3> QED BY <3>1, <3>2, <3>3, <3>4, <3>5, <3>6, <3>7 DEF Next
  <2> QED BY <2>1, <2>2 DEF IInv
<1> QED BY <1>1, <1>2, PTL DEF Spec

\* The variables have their types.
THEOREM TypeOKHolds == Spec => []TypeOK
<1>1. IInv => TypeOK
  BY DEF IInv
<1> QED BY <1>1, IInvHolds, PTL

\* However many requests pop at one time, and whoever pushes or pops between
\* their two commands, all that was collected is older than all that is left.
THEOREM OlderPopsFirstHolds == Spec => []OlderPopsFirst
<1>1. IInv => OlderPopsFirst
  <2> SUFFICES ASSUME IInv, NEW old \in received \cup OnTheWay, NEW new \in ToSet(list)
               PROVE  old < new
    BY DEF OlderPopsFirst
  <2>1. Gone \in Nat /\ pushed \in Nat /\ new \in (Gone + 1)..pushed
    BY ListHas, Numbers DEF IInv
  <2>2. old \in 1..Gone
    BY OnTheWayHas DEF IInv, Ahead
  <2> QED BY <2>1, <2>2
<1> QED BY <1>1, IInvHolds, PTL

\* No entry is repeated but for a removal in the middle of another Pop.
THEOREM RepeatsBoundedHolds == Spec => []RepeatsBounded
<1>1. IInv => RepeatsBounded
  <2> SUFFICES ASSUME IInv PROVE repeats <= overtaken
    BY DEF RepeatsBounded
  <2>1. /\ IsFiniteSet(received) /\ Cardinality(received) \in Nat
        /\ IsFiniteSet(Held) /\ Cardinality(Held) \in Nat
        /\ repeats \in Nat /\ overtaken \in Nat
    BY Countable, Numbers DEF IInv
  <2>2. IsFiniteSet(HeldEntries) /\ Cardinality(HeldEntries) <= Cardinality(Held)
    <3> DEFINE f == [p \in Held |-> p[1]]
    <3>1. \A p \in Held : f[p] \in HeldEntries
      <4> SUFFICES ASSUME NEW p \in Held PROVE p[1] \in HeldEntries
        OBVIOUS
      <4>1. p = <<p[1], p[2]>> /\ p[1] \in 1..Gone /\ p[2] \in Collectors
        BY DEF Held
      <4> QED BY <4>1 DEF HeldEntries
    <3>2. \A e \in HeldEntries : \E p \in Held : f[p] = e
      <4> SUFFICES ASSUME NEW e \in HeldEntries PROVE \E p \in Held : f[p] = e
        OBVIOUS
      <4>1. PICK c \in Collectors : <<e, c>> \in Held
        BY DEF HeldEntries
      <4>2. f[<<e, c>>] = e
        BY <4>1
      <4> QED BY <4>1, <4>2
    <3>3. f \in [Held -> HeldEntries]
      BY <3>1
    <3> HIDE DEF f
    <3>4. f \in Surjection(Held, HeldEntries)
      BY <3>2, <3>3 DEF Surjection
    <3> QED BY <2>1, <3>4, FS_Surjection
  <2>3. /\ Cardinality(HeldEntries) \in Nat
        /\ Cardinality(received \cup HeldEntries) \in Nat
        /\ Cardinality(received \cup HeldEntries)
             <= Cardinality(received) + Cardinality(HeldEntries)
    <3> DEFINE U == received \cup HeldEntries
    <3>1. U \subseteq received \cup HeldEntries
      OBVIOUS
    <3> HIDE DEF U
    <3>2. /\ Cardinality(HeldEntries) \in Nat /\ Cardinality(U) \in Nat
          /\ Cardinality(U) <= Cardinality(received) + Cardinality(HeldEntries)
      BY <2>1, <2>2, <3>1, CountEither
    <3> QED BY <3>2 DEF U
  <2>4. repeats + Cardinality(received) + Cardinality(Held)
          <= Cardinality(received \cup HeldEntries) + overtaken
    BY DEF IInv, RepeatsCharged
  <2> QED BY <2>1, <2>2, <2>3, <2>4
<1> QED BY <1>1, IInvHolds, PTL

\* No more entries are removed unseen than were pushed, or removed by others,
\* in the middle of a Pop.
THEOREM LossBoundedHolds == Spec => []LossBounded
<1>1. IInv => LossBounded
  <2> SUFFICES ASSUME IInv PROVE LossBounded
    OBVIOUS
  <2>1. /\ Cardinality(Lost) \in Nat /\ Cardinality(Doomed) \in Nat
        /\ raced \in Nat /\ overtaken \in Nat
    BY Countable, Numbers DEF IInv
  <2>2. (1..pushed) \ (ToSet(list) \cup received \cup OnTheWay \cup dropped) = Lost
    <3>1. /\ Gone \in Nat /\ pushed \in Nat /\ Gone <= pushed
          /\ ToSet(list) = (Gone + 1)..pushed
      BY ListHas, Numbers DEF IInv
    <3>2. (1..pushed) \ ToSet(list) = 1..Gone
      BY <3>1
    <3> QED BY <3>2 DEF Lost
  <2>3. Cardinality(Lost) + Cardinality(Doomed) <= raced + overtaken
    BY DEF IInv, LossCharged
  <2>4. Cardinality(Lost) <= raced + overtaken
    BY <2>1, <2>3
  <2> QED BY <2>2, <2>4 DEF LossBounded
<1> QED BY <1>1, IInvHolds, PTL
=============================================================================
