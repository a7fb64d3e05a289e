-------------------------- MODULE RedisQueueProofs --------------------------
(***************************************************************************)
(* Proofs about RedisQueue, for any messages, any consumers, even infinitely *)
(* many, any cap of the back-off and any number of crashes.                *)
(*                                                                         *)
(* Custody counts how often a message is anywhere; the inductive invariant *)
(* says the same set by set: what is in the list, in hand, done and lost is *)
(* apart, and none of it twice.                                            *)
(***************************************************************************)
EXTENDS RedisQueue, FiniteSetTheorems, SequenceTheorems, TLAPS

Distinct(s) == \A i, j \in 1..Len(s) : s[i] = s[j] => i = j

Anywhere == ToSet(list) \cup Held \cup done \cup lost

\* The places of a message are apart, and it is in none of them twice.
Apart ==
  /\ ToSet(list) \cap Held = {} /\ ToSet(list) \cap done = {} /\ ToSet(list) \cap lost = {}
  /\ Held \cap done = {} /\ Held \cap lost = {} /\ done \cap lost = {}
  /\ Distinct(list)
  /\ \A c, d \in Consumers : current[c] = current[d] /\ current[c] # Nil => c = d

\* A consumer has a message exactly while it is handling one.
InHand == \A c \in Consumers : pc[c] = "holding" <=> current[c] # Nil

\* What callers of Queue were told.
Told ==
  \A m \in Messages :
    /\ asked[m] = "no" => m \notin Anywhere
    /\ asked[m] = "accepted" => m \in Anywhere

Losses == IsFiniteSet(lost) /\ Cardinality(lost) <= crashes + breaks

IInv == TypeOK /\ Apart /\ InHand /\ Told /\ Losses

-----------------------------------------------------------------------------
(* The list: LPUSH at its head, BRPOP at its tail.                         *)

LEMMA ElementsOf ==
  ASSUME NEW s \in Seq(Messages)
  PROVE  /\ Len(s) \in Nat /\ DOMAIN s = 1..Len(s)
         /\ ToSet(s) = {s[i] : i \in 1..Len(s)} /\ ToSet(s) \subseteq Messages
         /\ \A i \in 1..Len(s) : s[i] \in Messages
<1>1. Len(s) \in Nat /\ DOMAIN s = 1..Len(s) /\ \A i \in 1..Len(s) : s[i] \in Messages
  BY LenProperties, ElementOfSeq
<1> QED BY <1>1 DEF ToSet

LEMMA PushHeadAdds ==
  ASSUME list \in Seq(Messages), NEW m \in Messages, PushHead(m)
  PROVE  /\ list' \in Seq(Messages)
         /\ ToSet(list') = ToSet(list) \cup {m}
         /\ Distinct(list) /\ m \notin ToSet(list) => Distinct(list')
<1>1. /\ <<m>> \in Seq(Messages) /\ Len(<<m>>) = 1 /\ <<m>>[1] = m
      /\ Len(list) \in Nat
  BY LenProperties
<1>2. /\ list' \in Seq(Messages) /\ Len(list') = 1 + Len(list)
      /\ \A i \in 1..(1 + Len(list)) : list'[i] = IF i <= 1 THEN <<m>>[i] ELSE list[i - 1]
  BY <1>1, ConcatProperties DEF PushHead
<1>3. /\ list'[1] = m
      /\ \A i \in 1..Len(list) : i + 1 \in 1..Len(list') /\ list'[i + 1] = list[i]
      /\ \A i \in 1..Len(list') : i = 1 \/ (i - 1 \in 1..Len(list) /\ list'[i] = list[i - 1])
      /\ 1 \in 1..Len(list')
  BY <1>1, <1>2
<1>4. ToSet(list') = {list'[i] : i \in 1..Len(list')} /\ ToSet(list) = {list[i] : i \in 1..Len(list)}
  BY <1>2, ElementsOf
<1>5. ToSet(list') = ToSet(list) \cup {m}
  <2>1. \A i \in 1..Len(list') : list'[i] \in ToSet(list) \cup {m}
    BY <1>3, <1>4
  <2>2. m \in ToSet(list') /\ \A i \in 1..Len(list) : list[i] \in ToSet(list')
    BY <1>3, <1>4
  <2> QED BY <1>4, <2>1, <2>2
<1>6. ASSUME Distinct(list), m \notin ToSet(list) PROVE Distinct(list')
  <2> SUFFICES ASSUME NEW i \in 1..Len(list'), NEW j \in 1..Len(list'), list'[i] = list'[j]
               PROVE  i = j
    BY DEF Distinct
  <2>1. CASE i = 1 \/ j = 1
    BY <1>3, <1>4, <1>6, <2>1
  <2>2. CASE i # 1 /\ j # 1
    <3>1. i - 1 \in 1..Len(list) /\ j - 1 \in 1..Len(list) /\ list[i - 1] = list[j - 1]
      BY <1>3, <2>2
    <3>2. i - 1 = j - 1
      BY <1>6, <3>1 DEF Distinct
    <3> QED BY <1>2, <3>2
  <2> QED BY <2>1, <2>2
<1> QED BY <1>2, <1>5, <1>6

LEMMA PopRemoves ==
  ASSUME list \in Seq(Messages), list # <<>>, Distinct(list), list' = Front(list)
  PROVE  /\ Last(list) \in Messages /\ Last(list) \in ToSet(list)
         /\ list' \in Seq(Messages) /\ Distinct(list')
         /\ ToSet(list') = ToSet(list) \ {Last(list)}
<1> DEFINE n == Len(list) - 1
<1>1. Len(list) \in Nat \ {0}
  BY EmptySeq, LenProperties
<1>2. /\ \A i \in 1..Len(list) : list[i] \in Messages
      /\ ToSet(list) = {list[i] : i \in 1..Len(list)}
  BY ElementsOf
<1>3. /\ list' \in Seq(Messages) /\ Len(list') = n
      /\ \A i \in 1..n : list'[i] = list[i]
  <2>1. \A i \in 1..n : list[i] \in Messages
    BY <1>1, <1>2
  <2>2. /\ SubSeq(list, 1, n) \in Seq(Messages)
        /\ Len(SubSeq(list, 1, n)) = IF 1 <= n THEN n - 1 + 1 ELSE 0
        /\ \A i \in 1..(n - 1 + 1) : SubSeq(list, 1, n)[i] = list[1 + i - 1]
    BY <1>1, <2>1, SubSeqProperties
  <2>3. list' = SubSeq(list, 1, n)
    BY DEF Front
  <2>4. n \in Nat
    BY <1>1
  <2> HIDE DEF n
  <2>5. (IF 1 <= n THEN n - 1 + 1 ELSE 0) = n
    BY <2>4
  <2>6. n - 1 + 1 = n /\ \A i \in 1..n : 1 + i - 1 = i
    BY <2>4
  <2>7. \A i \in 1..n : SubSeq(list, 1, n)[i] = list[i]
    BY <2>2, <2>6
  <2> QED BY <2>2, <2>3, <2>5, <2>7
<1>4. ToSet(list') = {list'[i] : i \in 1..n}
  BY <1>3, ElementsOf
<1>5. Last(list) = list[Len(list)] /\ Len(list) \in 1..Len(list)
  BY <1>1 DEF Last
<1>6. \A i \in 1..Len(list) : i = Len(list) \/ i \in 1..n
  BY <1>1
<1>7. \A i \in 1..n : i \in 1..Len(list) /\ i # Len(list)
  BY <1>1
<1>8. ToSet(list') = ToSet(list) \ {Last(list)}
  BY <1>2, <1>3, <1>4, <1>5, <1>6, <1>7 DEF Distinct
<1>9. Distinct(list')
  BY <1>3, <1>7 DEF Distinct
<1> QED BY <1>2, <1>3, <1>5, <1>8, <1>9

-----------------------------------------------------------------------------
(* Hands.                                                                  *)

Hands == InHand /\ \A c, d \in Consumers : current[c] = current[d] /\ current[c] # Nil => c = d

LEMMA NilNotHeld ==
  ASSUME InHand
  PROVE  /\ Nil \notin Held
         /\ \A c \in Consumers : current[c] # Nil => current[c] \in Held
BY DEF InHand, Held

\* A consumer moves and keeps what it has.
LEMMA HandsKept ==
  ASSUME TypeOK, Hands, UNCHANGED current, NEW c \in Consumers, NEW q,
         pc' = [pc EXCEPT ![c] = q], pc[c] # "holding", q # "holding"
  PROVE  Hands' /\ Held' = Held
<1>1. \A d \in Consumers : pc'[d] = IF d = c THEN q ELSE pc[d]
  BY DEF TypeOK
<1>2. Hands'
  BY <1>1 DEF Hands, InHand
<1>3. Held' = Held
  BY <1>1 DEF Held
<1> QED BY <1>2, <1>3

LEMMA HandsGet ==
  ASSUME TypeOK, Hands, NEW c \in Consumers, NEW m \in Messages \ Held,
         pc[c] # "holding", pc' = [pc EXCEPT ![c] = "holding"],
         current' = [current EXCEPT ![c] = m]
  PROVE  Hands' /\ Held' = Held \cup {m}
<1>1. m # Nil /\ current[c] = Nil
  BY RedisAssumption DEF Hands, InHand
<1>2. /\ \A d \in Consumers : pc'[d] = IF d = c THEN "holding" ELSE pc[d]
      /\ \A d \in Consumers : current'[d] = IF d = c THEN m ELSE current[d]
  BY DEF TypeOK
<1>3. InHand'
  BY <1>1, <1>2 DEF Hands, InHand
<1>4. \A d \in Consumers : current[d] # m
  BY <1>1, NilNotHeld DEF Hands
<1>5. Hands'
  BY <1>2, <1>3, <1>4 DEF Hands
<1>6. Held' = {current'[d] : d \in {e \in Consumers : pc'[e] = "holding"}}
  BY DEF Held
<1>7. Held' = Held \cup {m}
  BY <1>2, <1>6 DEF Held
<1> QED BY <1>5, <1>7

LEMMA HandsLetGo ==
  ASSUME TypeOK, Hands, NEW c \in Consumers, NEW q, q # "holding",
         pc' = [pc EXCEPT ![c] = q], current' = [current EXCEPT ![c] = Nil]
  PROVE  /\ Hands' /\ Held' = Held \ {current[c]}
         /\ current[c] # Nil => current[c] \in Held /\ current[c] \in Messages
<1>1. /\ \A d \in Consumers : pc'[d] = IF d = c THEN q ELSE pc[d]
      /\ \A d \in Consumers : current'[d] = IF d = c THEN Nil ELSE current[d]
      /\ current[c] \in Messages \cup {Nil}
  BY DEF TypeOK
<1>2. Hands'
  BY <1>1 DEF Hands, InHand
<1>3. Held' = {current'[d] : d \in {e \in Consumers : pc'[e] = "holding"}}
  BY DEF Held
<1>4. Held' = Held \ {current[c]}
  <2>1. \A d \in Consumers : pc'[d] = "holding" =>
          d # c /\ pc[d] = "holding" /\ current'[d] = current[d] /\ current[d] # current[c]
    BY <1>1 DEF Hands, InHand
  <2>2. \A d \in Consumers : pc[d] = "holding" /\ current[d] # current[c] =>
          pc'[d] = "holding" /\ current'[d] = current[d]
    BY <1>1
  <2> QED BY <1>3, <2>1, <2>2 DEF Held
<1> QED BY <1>1, <1>2, <1>4, NilNotHeld DEF Hands

-----------------------------------------------------------------------------
(* Types and losses.                                                       *)

LEMMA StepKeepsTypes ==
  ASSUME TypeOK, Apart, InHand, [Next]_vars
  PROVE  TypeOK'
<1>1. list' \in Seq(Messages)
  <2>0. list \in Seq(Messages)
    BY DEF TypeOK
  <2>1. CASE \E m \in Messages : Queue(m) \/ QueueFails(m)
    BY <2>0, <2>1, PushHeadAdds DEF Queue, QueueFails
  <2>2. CASE \E c \in Consumers : Requeue(c)
    <3>1. PICK c \in Consumers : Requeue(c)
      BY <2>2
    <3>2. current[c] \in Messages
      BY <3>1 DEF Requeue, LetGo, Goto, InHand, TypeOK
    <3> QED BY <2>0, <3>1, <3>2, PushHeadAdds DEF Requeue
  <2>3. CASE \E c \in Consumers : Pop(c) \/ PopReplyLost(c)
    BY <2>0, <2>3, PopRemoves DEF Pop, PopReplyLost, Apart
  <2>4. CASE UNCHANGED list
    BY <2>0, <2>4
  <2> QED BY <2>1, <2>2, <2>3, <2>4
      DEF Next, GetStep, Handle, CallGet, TopOfLoop, PopTimesOut, BackoffOver, GetCancelled,
          PopFails, PopErrs, RemoveMessage, RequeueFails, Cancel, Crash, Restart, Stopped, vars
<1>2. asked' \in [Messages -> {"no", "accepted", "refused"}]
  <2>1. \/ UNCHANGED asked
        \/ \E m \in Messages : \E a \in {"accepted", "refused"} : asked' = [asked EXCEPT ![m] = a]
    BY DEF Next, GetStep, Handle, Queue, QueueFails, CallGet, TopOfLoop, PopTimesOut, BackoffOver,
           GetCancelled, Pop, PopFails, PopReplyLost, PopErrs, RemoveMessage, Requeue,
           RequeueFails, Cancel, Crash, Restart, Stopped, vars
  <2> QED BY <2>1 DEF TypeOK
<1>3. pc' \in [Consumers -> PCs]
  <2>1. \/ UNCHANGED pc
        \/ \E c \in Consumers : \E q \in PCs : pc' = [pc EXCEPT ![c] = q]
    BY DEF Next, GetStep, Handle, Queue, QueueFails, CallGet, TopOfLoop, PopTimesOut, BackoffOver,
           GetCancelled, Pop, PopFails, PopReplyLost, PopErrs, RemoveMessage, Requeue,
           RequeueFails, Cancel, Crash, Restart, Stopped, vars, LetGo, Goto, PCs
  <2> QED BY <2>1 DEF TypeOK
<1>4. current' \in [Consumers -> Messages \cup {Nil}]
  <2>1. list # <<>> => Last(list) \in Messages
    BY PopRemoves, ElementsOf, EmptySeq DEF TypeOK, Last
  <2>2. \/ UNCHANGED current
        \/ \E c \in Consumers : \E m \in Messages \cup {Nil} : current' = [current EXCEPT ![c] = m]
    BY <2>1
    DEF Next, GetStep, Handle, Queue, QueueFails, CallGet, TopOfLoop, PopTimesOut, BackoffOver,
        GetCancelled, Pop, PopFails, PopReplyLost, PopErrs, RemoveMessage, Requeue,
        RequeueFails, Cancel, Crash, Restart, Stopped, vars, LetGo
  <2> QED BY <2>2 DEF TypeOK
<1>5. wasRetrying' \in [Consumers -> BOOLEAN] /\ ctxDone' \in [Consumers -> BOOLEAN]
  <2>1. \/ UNCHANGED wasRetrying
        \/ \E c \in Consumers : \E b \in BOOLEAN : wasRetrying' = [wasRetrying EXCEPT ![c] = b]
    BY DEF Next, GetStep, Handle, Queue, QueueFails, CallGet, TopOfLoop, PopTimesOut, BackoffOver,
           GetCancelled, Pop, PopFails, PopReplyLost, PopErrs, RemoveMessage, Requeue,
           RequeueFails, Cancel, Crash, Restart, Stopped, vars, getVars
  <2>2. \/ UNCHANGED ctxDone
        \/ \E c \in Consumers : \E b \in BOOLEAN : ctxDone' = [ctxDone EXCEPT ![c] = b]
    BY DEF Next, GetStep, Handle, Queue, QueueFails, CallGet, TopOfLoop, PopTimesOut, BackoffOver,
           GetCancelled, Pop, PopFails, PopReplyLost, PopErrs, RemoveMessage, Requeue,
           RequeueFails, Cancel, Crash, Restart, Stopped, vars
  <2> QED BY <2>1, <2>2 DEF TypeOK
<1>6. delay' \in [Consumers -> 0..MaxDelay]
  <2>0. delay \in [Consumers -> 0..MaxDelay] /\ MaxDelay \in Nat
    BY RedisAssumption DEF TypeOK
  <2>1. CASE \E c \in Consumers : BackoffOver(c)
    BY <2>0, <2>1 DEF BackoffOver
  <2>2. CASE \E c \in Consumers : delay' = [delay EXCEPT ![c] = 0]
    BY <2>0, <2>2
  <2>3. CASE UNCHANGED delay
    BY <2>0, <2>3
  <2> QED BY <2>1, <2>2, <2>3
      DEF Next, GetStep, Handle, Queue, QueueFails, CallGet, TopOfLoop, PopTimesOut,
          GetCancelled, Pop, PopFails, PopReplyLost, PopErrs, RemoveMessage, Requeue,
          RequeueFails, Cancel, Crash, Restart, Stopped, vars, getVars
<1>7. done' \subseteq Messages /\ lost' \subseteq Messages
  <2>0. done \subseteq Messages /\ lost \subseteq Messages
    BY DEF TypeOK
  <2>1. \A c \in Consumers : pc[c] = "holding" => current[c] \in Messages
    BY DEF InHand, TypeOK
  <2>2. CASE \E c \in Consumers : RemoveMessage(c) \/ RequeueFails(c)
    BY <2>0, <2>1, <2>2 DEF RemoveMessage, RequeueFails, LetGo, Goto, Lose
  <2>3. CASE \E c \in Consumers : PopReplyLost(c)
    <3>1. Last(list) \in Messages
      BY <2>3, PopRemoves DEF PopReplyLost, TypeOK, Apart
    <3> QED BY <2>0, <2>3, <3>1 DEF PopReplyLost, Lose
  <2>4. CASE \E c \in Consumers : Crash(c)
    <3>1. \A c \in Consumers : current[c] \in Messages \cup {Nil}
      BY DEF TypeOK
    <3> QED BY <2>0, <2>4, <3>1 DEF Crash
  <2>5. CASE UNCHANGED <<done, lost>>
    BY <2>0, <2>5
  <2> QED BY <2>2, <2>3, <2>4, <2>5
      DEF Next, GetStep, Handle, Queue, QueueFails, CallGet, TopOfLoop, PopTimesOut, BackoffOver,
          GetCancelled, Pop, PopFails, PopErrs, Requeue, Cancel, Restart, Stopped, vars
<1>8. crashes' \in 0..MaxCrashes /\ breaks' \in Nat
  <2>0. crashes \in 0..MaxCrashes /\ breaks \in Nat /\ MaxCrashes \in Nat
    BY RedisAssumption DEF TypeOK
  <2>1. CASE \E c \in Consumers : PopReplyLost(c) \/ RequeueFails(c)
    BY <2>0, <2>1 DEF PopReplyLost, RequeueFails, Lose
  <2>2. CASE \E c \in Consumers : Crash(c)
    BY <2>0, <2>2 DEF Crash
  <2>3. CASE UNCHANGED faults
    BY <2>0, <2>3 DEF faults
  <2> QED BY <2>1, <2>2, <2>3
      DEF Next, GetStep, Handle, Queue, QueueFails, CallGet, TopOfLoop, PopTimesOut, BackoffOver,
          GetCancelled, Pop, PopFails, PopErrs, RemoveMessage, Requeue, Cancel, Restart, Stopped, vars
<1> QED BY <1>1, <1>2, <1>3, <1>4, <1>5, <1>6, <1>7, <1>8 DEF TypeOK

\* It takes a crash or a broken connection to lose one message.
LEMMA StepKeepsLosses ==
  ASSUME TypeOK, Losses, [Next]_vars
  PROVE  Losses'
<1>0. /\ crashes \in Nat /\ breaks \in Nat
      /\ IsFiniteSet(lost) /\ Cardinality(lost) \in Nat /\ Cardinality(lost) <= crashes + breaks
  BY RedisAssumption, FS_CardinalityType DEF TypeOK, Losses
<1>1. \A m : IsFiniteSet(lost \cup {m}) /\ Cardinality(lost \cup {m}) <= Cardinality(lost) + 1
             /\ Cardinality(lost \cup {m}) \in Nat
  BY <1>0, FS_AddElement, FS_CardinalityType
<1>2. CASE \E c \in Consumers : PopReplyLost(c) \/ RequeueFails(c)
  <2>1. PICK m : lost' = lost \cup {m} /\ breaks' = breaks + 1 /\ crashes' = crashes
    BY <1>2 DEF PopReplyLost, RequeueFails, Lose
  <2>2. /\ IsFiniteSet(lost') /\ Cardinality(lost') \in Nat
        /\ Cardinality(lost') <= Cardinality(lost) + 1
    BY <1>1, <2>1
  <2>3. Cardinality(lost') <= crashes' + breaks'
    BY <1>0, <2>1, <2>2
  <2> QED BY <2>2, <2>3 DEF Losses
<1>3. CASE \E c \in Consumers : Crash(c)
  <2>1. PICK c \in Consumers : Crash(c)
    BY <1>3
  <2>2. (lost' = lost \/ lost' = lost \cup {current[c]})
        /\ breaks' = breaks /\ crashes' = crashes + 1
    BY <2>1 DEF Crash
  <2>3. /\ IsFiniteSet(lost') /\ Cardinality(lost') \in Nat
        /\ Cardinality(lost') <= Cardinality(lost) + 1
    <3>1. CASE lost' = lost
      BY <1>0, <3>1
    <3>2. CASE lost' = lost \cup {current[c]}
      BY <1>1, <3>2
    <3> QED BY <2>2, <3>1, <3>2
  <2>4. Cardinality(lost') <= crashes' + breaks'
    BY <1>0, <2>2, <2>3
  <2> QED BY <2>3, <2>4 DEF Losses
<1>4. CASE UNCHANGED <<lost, faults>>
  BY <1>4 DEF faults, Losses
<1> QED BY <1>2, <1>3, <1>4
    DEF Next, GetStep, Handle, Queue, QueueFails, CallGet, TopOfLoop, PopTimesOut, BackoffOver,
        GetCancelled, Pop, PopFails, PopErrs, RemoveMessage, Requeue, Cancel, Restart, Stopped, vars

-----------------------------------------------------------------------------
(* Where messages go.                                                      *)

\* The seven ways in which a step may move messages.
Stay       == UNCHANGED <<list, done, lost>> /\ Held' = Held
Arrive(m)  == PushHead(m) /\ UNCHANGED <<done, lost>> /\ Held' = Held
HandOut(m) == list # <<>> /\ list' = Front(list) /\ m = Last(list)
              /\ UNCHANGED <<done, lost>> /\ Held' = Held \cup {m}
Vanish(m)  == list # <<>> /\ list' = Front(list) /\ m = Last(list)
              /\ UNCHANGED done /\ lost' = lost \cup {m} /\ Held' = Held
Finish(m)  == m \in Held /\ UNCHANGED <<list, lost>> /\ done' = done \cup {m} /\ Held' = Held \ {m}
Return(m)  == m \in Held /\ PushHead(m) /\ UNCHANGED <<done, lost>> /\ Held' = Held \ {m}
Drop(m)    == m \in Held /\ UNCHANGED <<list, done>> /\ lost' = lost \cup {m} /\ Held' = Held \ {m}

LEMMA GetMoves ==
  ASSUME TypeOK, Apart, Hands, NEW c \in Consumers, Pop(c) \/ PopReplyLost(c)
  PROVE  /\ Hands' /\ UNCHANGED asked /\ Last(list) \in Messages
         /\ HandOut(Last(list)) \/ Vanish(Last(list))
<1>1. Last(list) \in Messages /\ Last(list) \in ToSet(list) /\ list # <<>>
  BY PopRemoves DEF Pop, PopReplyLost, TypeOK, Apart
<1>2. CASE Pop(c)
  <2>1. Last(list) \notin Held
    BY <1>1 DEF Apart
  <2>2. Hands' /\ Held' = Held \cup {Last(list)}
    BY <1>1, <1>2, <2>1, HandsGet DEF Pop, Goto
  <2> QED BY <1>1, <1>2, <2>2 DEF Pop, HandOut
<1>3. CASE PopReplyLost(c)
  <2>1. Hands' /\ Held' = Held
    BY <1>3, HandsKept DEF PopReplyLost, Goto
  <2> QED BY <1>1, <1>3, <2>1 DEF PopReplyLost, Lose, Vanish
<1> QED BY <1>2, <1>3

LEMMA LetGoMoves ==
  ASSUME TypeOK, Hands, NEW c \in Consumers, Handle(c)
  PROVE  /\ Hands' /\ UNCHANGED asked /\ current[c] \in Messages
         /\ Finish(current[c]) \/ Return(current[c]) \/ Drop(current[c])
<1>1. /\ pc[c] = "holding" /\ pc' = [pc EXCEPT ![c] = "loop"]
      /\ current' = [current EXCEPT ![c] = Nil]
  BY DEF Handle, RemoveMessage, Requeue, RequeueFails, LetGo, Goto
<1>2. current[c] # Nil
  BY <1>1 DEF Hands, InHand
<1>3. /\ Hands' /\ Held' = Held \ {current[c]}
      /\ current[c] \in Held /\ current[c] \in Messages
  BY <1>1, <1>2, HandsLetGo
<1> QED BY <1>3 DEF Handle, RemoveMessage, Requeue, RequeueFails, Lose, Finish, Return, Drop

LEMMA CrashMoves ==
  ASSUME TypeOK, Hands, NEW c \in Consumers, Crash(c)
  PROVE  /\ Hands' /\ UNCHANGED asked
         /\ Stay \/ (current[c] \in Messages /\ Drop(current[c]))
<1>1. /\ pc' = [pc EXCEPT ![c] = "down"] /\ current' = [current EXCEPT ![c] = Nil]
      /\ lost' = lost \cup ({current[c]} \ {Nil}) /\ UNCHANGED <<list, done, asked>>
  BY DEF Crash
<1>2. /\ Hands' /\ Held' = Held \ {current[c]}
      /\ current[c] # Nil => current[c] \in Held /\ current[c] \in Messages
  BY <1>1, HandsLetGo
<1>3. current[c] = Nil => Held' = Held
  BY <1>2, NilNotHeld DEF Hands
<1> QED BY <1>1, <1>2, <1>3 DEF Stay, Drop

LEMMA RestMoves ==
  ASSUME TypeOK, Hands, NEW c \in Consumers,
         GetStep(c) \/ PopFails(c) \/ PopErrs(c) \/ Cancel(c) \/ Restart(c)
  PROVE  Hands' /\ UNCHANGED asked /\ Stay
<1>1. UNCHANGED <<current, list, done, lost, asked>>
  BY DEF GetStep, CallGet, TopOfLoop, PopTimesOut, BackoffOver, GetCancelled, PopFails, PopErrs,
         Cancel, Restart
<1>2. CASE Cancel(c)
  BY <1>1, <1>2 DEF Cancel, Stay, Hands, InHand, Held
<1>3. CASE ~Cancel(c)
  <2>1. \E q \in PCs \ {"holding"} : pc[c] # "holding" /\ pc' = [pc EXCEPT ![c] = q]
    BY <1>3 DEF GetStep, CallGet, TopOfLoop, PopTimesOut, BackoffOver, GetCancelled, PopFails,
                PopErrs, Restart, Goto, PCs
  <2>2. Hands' /\ Held' = Held
    BY <1>1, <2>1, HandsKept
  <2> QED BY <1>1, <2>2 DEF Stay
<1> QED BY <1>2, <1>3

\* What a step does to the messages, and what it tells.
Tells(m, a) == asked[m] = "no" /\ asked' = [asked EXCEPT ![m] = a]

LEMMA StepMoves ==
  ASSUME TypeOK, Apart, InHand, [Next]_vars
  PROVE  /\ Hands'
         /\ \/ Stay /\ UNCHANGED asked
            \/ \E m \in Messages : Arrive(m) /\ (Tells(m, "accepted") \/ Tells(m, "refused"))
            \/ \E m \in Messages : Stay /\ Tells(m, "refused")
            \/ \E m \in Messages :
                 /\ HandOut(m) \/ Vanish(m) \/ Finish(m) \/ Return(m) \/ Drop(m)
                 /\ UNCHANGED asked
<1>0. Hands
  BY DEF Apart, Hands
<1>1. CASE \E m \in Messages : Queue(m) \/ QueueFails(m)
  <2>1. PICK m \in Messages : Queue(m) \/ QueueFails(m)
    BY <1>1
  <2>2. Hands' /\ Held' = Held
    BY <1>0, <2>1 DEF Queue, QueueFails, Hands, InHand, Held
  <2> QED BY <2>1, <2>2 DEF Queue, QueueFails, Arrive, Stay, Tells
<1>2. CASE \E c \in Consumers : Pop(c) \/ PopReplyLost(c)
  BY <1>0, <1>2, GetMoves
<1>3. CASE \E c \in Consumers : Handle(c)
  BY <1>0, <1>3, LetGoMoves
<1>4. CASE \E c \in Consumers : Crash(c)
  BY <1>0, <1>4, CrashMoves
<1>5. CASE \E c \in Consumers :
             GetStep(c) \/ PopFails(c) \/ PopErrs(c) \/ Cancel(c) \/ Restart(c)
  BY <1>0, <1>5, RestMoves
<1>6. CASE UNCHANGED vars
  BY <1>0, <1>6 DEF vars, Hands, InHand, Held, Stay
<1> QED BY <1>1, <1>2, <1>3, <1>4, <1>5, <1>6 DEF Next, Stopped

\* What each way does to the places of messages, m being the one that moves.
LEMMA MovesApart ==
  ASSUME TypeOK, Apart, NEW m \in Messages,
         \/ m \notin Anywhere /\ Arrive(m)
         \/ HandOut(m) \/ Vanish(m) \/ Finish(m) \/ Return(m) \/ Drop(m)
  PROVE  /\ Anywhere' = Anywhere \cup {m}
         /\ ToSet(list') \cap Held' = {} /\ ToSet(list') \cap done' = {}
         /\ ToSet(list') \cap lost' = {} /\ Held' \cap done' = {}
         /\ Held' \cap lost' = {} /\ done' \cap lost' = {}
         /\ Distinct(list')
<1>0. list \in Seq(Messages)
  BY DEF TypeOK
<1>1. CASE m \notin Anywhere /\ Arrive(m)
  <2>1. ToSet(list') = ToSet(list) \cup {m} /\ Distinct(list')
    BY <1>0, <1>1, PushHeadAdds DEF Arrive, Apart, Anywhere
  <2> QED BY <1>1, <2>1 DEF Arrive, Apart, Anywhere
<1>2. CASE HandOut(m) \/ Vanish(m)
  <2>1. /\ m \in ToSet(list)
        /\ ToSet(list') = ToSet(list) \ {m} /\ Distinct(list')
    BY <1>0, <1>2, PopRemoves DEF HandOut, Vanish, Apart
  <2> QED BY <1>2, <2>1 DEF HandOut, Vanish, Apart, Anywhere
<1>3. CASE Return(m)
  <2>1. ToSet(list') = ToSet(list) \cup {m} /\ Distinct(list')
    BY <1>0, <1>3, PushHeadAdds DEF Return, Apart
  <2> QED BY <1>3, <2>1 DEF Return, Apart, Anywhere
<1>4. CASE Finish(m) \/ Drop(m)
  BY <1>4 DEF Finish, Drop, Apart, Anywhere
<1> QED BY <1>1, <1>2, <1>3, <1>4

\* A message that moves within the system has been there.
LEMMA MovesKnown ==
  ASSUME TypeOK, Apart, NEW m \in Messages,
         HandOut(m) \/ Vanish(m) \/ Finish(m) \/ Return(m) \/ Drop(m)
  PROVE  m \in Anywhere
<1>1. CASE HandOut(m) \/ Vanish(m)
  BY <1>1, PopRemoves DEF TypeOK, Apart, HandOut, Vanish, Anywhere
<1>2. CASE Finish(m) \/ Return(m) \/ Drop(m)
  BY <1>2 DEF Finish, Return, Drop, Anywhere
<1> QED BY <1>1, <1>2

LEMMA StepKeepsPlaces ==
  ASSUME TypeOK, Apart, InHand, Told, [Next]_vars
  PROVE  Apart' /\ InHand' /\ Told'
<1>0. Hands'
  BY StepMoves
<1>1. CASE Stay /\ (UNCHANGED asked \/ \E m \in Messages : Tells(m, "refused"))
  <2>1. Anywhere' = Anywhere
    BY <1>1 DEF Stay, Anywhere
  <2>2. Told'
    BY <1>1, <2>1 DEF TypeOK, Told, Tells
  <2> QED BY <1>0, <1>1, <2>2 DEF Apart, Stay, Hands
<1>2. CASE \E m \in Messages : Arrive(m) /\ (Tells(m, "accepted") \/ Tells(m, "refused"))
  <2>1. PICK m \in Messages : Arrive(m) /\ (Tells(m, "accepted") \/ Tells(m, "refused"))
    BY <1>2
  <2>2. m \notin Anywhere
    BY <2>1 DEF Told, Tells
  <2>3. Told'
    BY <2>1, <2>2, MovesApart DEF TypeOK, Told, Tells
  <2> QED BY <1>0, <2>1, <2>2, <2>3, MovesApart DEF Apart, Hands
<1>3. CASE \E m \in Messages :
             /\ HandOut(m) \/ Vanish(m) \/ Finish(m) \/ Return(m) \/ Drop(m)
             /\ UNCHANGED asked
  <2>1. PICK m \in Messages :
             /\ HandOut(m) \/ Vanish(m) \/ Finish(m) \/ Return(m) \/ Drop(m)
             /\ UNCHANGED asked
    BY <1>3
  <2>2. Anywhere' = Anywhere
    BY <2>1, MovesApart, MovesKnown
  <2>3. Told'
    BY <2>1, <2>2 DEF Told
  <2> QED BY <1>0, <2>1, <2>3, MovesApart DEF Apart, Hands
<1> QED BY <1>1, <1>2, <1>3, StepMoves

-----------------------------------------------------------------------------
(* The theorems.                                                           *)

LEMMA InitHolds ==
  ASSUME Init
  PROVE  IInv
<1>1. <<>> \in Seq(Messages) /\ Len(<<>>) = 0
  BY EmptySeq
<1>2. TypeOK
  <2>1. /\ delay \in [Consumers -> 0..MaxDelay] /\ crashes \in 0..MaxCrashes /\ breaks \in Nat
    BY RedisAssumption DEF Init
  <2>2. /\ asked \in [Messages -> {"no", "accepted", "refused"}] /\ pc \in [Consumers -> PCs]
        /\ current \in [Consumers -> Messages \cup {Nil}]
    BY DEF Init, PCs
  <2>3. wasRetrying \in [Consumers -> BOOLEAN] /\ ctxDone \in [Consumers -> BOOLEAN]
    BY DEF Init
  <2> QED BY <1>1, <2>1, <2>2, <2>3 DEF Init, TypeOK
<1>3. Held = {} /\ ToSet(list) = {} /\ done = {} /\ lost = {} /\ Distinct(list)
  <2>1. Held = {} /\ ToSet(list) = {} /\ done = {} /\ lost = {}
    BY DEF Init, Held, ToSet
  <2>2. Distinct(<<>>)
    BY <1>1 DEF Distinct
  <2> QED BY <2>1, <2>2 DEF Init
<1>4. Losses
  <2>1. Cardinality(lost) = 0 /\ IsFiniteSet(lost)
    BY <1>3, FS_EmptySet
  <2>2. crashes = 0 /\ breaks = 0
    BY DEF Init
  <2> QED BY <2>1, <2>2 DEF Losses
<1>5. Apart /\ InHand
  BY <1>3 DEF Apart, InHand, Init
<1>6. Told
  BY <1>3 DEF Told, Anywhere, Init
<1> QED BY <1>2, <1>4, <1>5, <1>6 DEF IInv

THEOREM IInvHolds == Spec => []IInv
<1>1. IInv /\ [Next]_vars => IInv'
  BY StepKeepsTypes, StepKeepsLosses, StepKeepsPlaces DEF IInv
<1> QED BY InitHolds, <1>1, PTL DEF Spec

\* Every variable keeps its type; retryDelay stays under its cap.
THEOREM TypeOKHolds == Spec => []TypeOK
<1>1. IInv => TypeOK
  BY DEF IInv
<1> QED BY <1>1, IInvHolds, PTL

LEMMA AtMostOne ==
  ASSUME NEW S, \A x, y \in S : x = y
  PROVE  Cardinality(S) = IF S = {} THEN 0 ELSE 1
<1>1. CASE S = {}
  BY <1>1, FS_EmptySet
<1>2. CASE S # {}
  <2>1. PICK x \in S : TRUE
    BY <1>2
  <2>2. S = {x}
    BY <2>1
  <2> QED BY <1>2, <2>2, FS_Singleton
<1> QED BY <1>1, <1>2

\* A message is where one of the four sets has it, and nowhere twice.
LEMMA CopiesAre ==
  ASSUME IInv, NEW m \in Messages
  PROVE  Copies(m) = IF m \in Anywhere THEN 1 ELSE 0
<1> DEFINE inList == {i \in DOMAIN list : list[i] = m}
           inHand == {c \in Consumers : current[c] = m}
           gone   == {s \in {<<"done", done>>, <<"lost", lost>>} : m \in s[2]}
<1>1. Cardinality(inList) = IF m \in ToSet(list) THEN 1 ELSE 0
  <2>1. DOMAIN list = 1..Len(list) /\ Distinct(list)
    BY ElementsOf DEF IInv, TypeOK, Apart
  <2>2. \A i, j \in inList : i = j
    BY <2>1 DEF Distinct
  <2>3. inList = {} <=> m \notin ToSet(list)
    BY DEF ToSet
  <2> HIDE DEF inList
  <2> QED BY <2>2, <2>3, AtMostOne
<1>2. Cardinality(inHand) = IF m \in Held THEN 1 ELSE 0
  <2>1. m # Nil
    BY RedisAssumption
  <2>2. \A c, d \in inHand : c = d
    BY <2>1 DEF IInv, Apart
  <2>3. inHand = {} <=> m \notin Held
    BY <2>1 DEF IInv, InHand, Held
  <2> HIDE DEF inHand
  <2> QED BY <2>2, <2>3, AtMostOne
<1>3. Cardinality(gone) = IF m \in done \cup lost THEN 1 ELSE 0
  <2>1. \A s, t \in gone : s = t
    BY DEF IInv, Apart
  <2>2. gone = {} <=> m \notin done \cup lost
    <3>1. <<"done", done>>[2] = done /\ <<"lost", lost>>[2] = lost
      OBVIOUS
    <3> QED BY <3>1
  <2> HIDE DEF gone
  <2> QED BY <2>1, <2>2, AtMostOne
<1>4. Copies(m) = (IF m \in ToSet(list) THEN 1 ELSE 0) + (IF m \in Held THEN 1 ELSE 0)
                  + (IF m \in done \cup lost THEN 1 ELSE 0)
  BY <1>1, <1>2, <1>3 DEF Copies
<1>5. /\ ~(m \in ToSet(list) /\ m \in Held) /\ ~(m \in ToSet(list) /\ m \in done \cup lost)
      /\ ~(m \in Held /\ m \in done \cup lost)
  BY DEF IInv, Apart
<1>6. m \in Anywhere <=> m \in ToSet(list) \/ m \in Held \/ m \in done \cup lost
  BY DEF Anywhere
<1> QED BY <1>4, <1>5, <1>6

\* BRPOP, LPUSH and crashes keep every message in one place: what Queue accepted
\* is in the list, with one consumer, done or lost, and there are no more lost
\* messages than crashes and broken connections.
THEOREM CustodyHolds == Spec => []Custody
<1>1. IInv => Custody
  <2> SUFFICES ASSUME IInv PROVE Custody
    OBVIOUS
  <2>1. ASSUME NEW m \in Messages
        PROVE  /\ Copies(m) <= (IF asked[m] = "no" THEN 0 ELSE 1)
               /\ asked[m] = "accepted" => Copies(m) = 1
    <3>1. Copies(m) = IF m \in Anywhere THEN 1 ELSE 0
      BY CopiesAre
    <3>2. /\ asked[m] = "no" => m \notin Anywhere
          /\ asked[m] = "accepted" => m \in Anywhere
      BY DEF IInv, Told
    <3> QED BY <3>1, <3>2
  <2> QED BY <2>1 DEF Custody, IInv, Losses
<1> QED BY <1>1, IInvHolds, PTL

\* Within one call of Get retryDelay shrinks only when a PING has succeeded.
THEOREM BackoffGrowsHolds == Spec => BackoffGrows
<1>1. ASSUME TypeOK, [Next]_vars, NEW c \in Consumers, delay'[c] < delay[c]
      PROVE  pc[c] = "loop" \/ (wasRetrying[c] /\ ~wasRetrying'[c])
  <2>0. /\ delay \in [Consumers -> 0..MaxDelay] /\ delay[c] \in Nat /\ MaxDelay \in Nat
        /\ ~(delay[c] < delay[c])
    <3>1. delay \in [Consumers -> 0..MaxDelay] /\ MaxDelay \in Nat
      BY <1>1, RedisAssumption DEF TypeOK
    <3>2. delay[c] \in 0..MaxDelay
      BY <3>1
    <3> QED BY <3>1, <3>2
  <2>1. CASE \E d \in Consumers : BackoffOver(d)
    <3>1. PICK d \in Consumers : delay' = [delay EXCEPT ![d] = IF @ < MaxDelay THEN @ + 1 ELSE @]
      BY <2>1 DEF BackoffOver
    <3>2. delay'[c] = delay[c] \/ delay'[c] = delay[c] + 1
      BY <2>0, <3>1
    <3> QED BY <1>1, <2>0, <3>2
  <2>2. CASE \E d \in Consumers : CallGet(d) \/ TopOfLoop(d)
    <3>1. PICK d \in Consumers : CallGet(d) \/ TopOfLoop(d)
      BY <2>2
    <3>2. d = c /\ delay' # delay
      BY <1>1, <2>0, <3>1 DEF CallGet, TopOfLoop, getVars
    <3>3. CASE CallGet(d)
      BY <3>2, <3>3 DEF CallGet, Goto
    <3>4. CASE TopOfLoop(d)
      <4>1. wasRetrying[c] /\ wasRetrying' = [wasRetrying EXCEPT ![c] = FALSE]
        BY <3>2, <3>4 DEF TopOfLoop, getVars
      <4>2. ~wasRetrying'[c]
        BY <1>1, <4>1 DEF TypeOK
      <4> QED BY <4>1, <4>2
    <3> QED BY <3>1, <3>3, <3>4
  <2>3. CASE UNCHANGED delay
    BY <1>1, <2>0, <2>3
  <2> QED BY <1>1, <2>1, <2>2, <2>3
      DEF Next, GetStep, Handle, Queue, QueueFails, PopTimesOut, GetCancelled, Pop, PopFails,
          PopReplyLost, PopErrs, RemoveMessage, Requeue, RequeueFails, Cancel, Crash, Restart,
          Stopped, vars, getVars
<1>2. TypeOK /\ [Next]_vars
        => [\A c \in Consumers :
              delay'[c] < delay[c] => pc[c] = "loop" \/ (wasRetrying[c] /\ ~wasRetrying'[c])]_vars
  BY <1>1
<1> QED BY <1>2, TypeOKHolds, PTL DEF Spec, BackoffGrows

\* To its callers the list is a WorkQueue, whatever breaks: a message is accepted
\* once, handed out to one consumer at a time, and settled or put back once.
THEOREM RedisQueueImplementsWorkQueue == Spec => ImplementsWorkQueue
<1>1. Init => Work!QueueInit
  BY DEF Init, Work!QueueInit, Held, ToSet
<1>2. ASSUME IInv, [Next]_vars PROVE [Work!QueueNext]_(Work!queueVars)
  <2>0. TypeOK /\ Apart /\ InHand /\ Told /\ list \in Seq(Messages)
    BY <1>2 DEF IInv, TypeOK
  <2>1. CASE Stay
    BY <2>1 DEF Stay, Work!queueVars
  <2>2. CASE \E m \in Messages : Arrive(m) /\ (Tells(m, "accepted") \/ Tells(m, "refused"))
    <3>1. PICK m \in Messages : Arrive(m) /\ (Tells(m, "accepted") \/ Tells(m, "refused"))
      BY <2>2
    <3>2. m \notin Anywhere
      BY <2>0, <3>1 DEF Told, Tells
    <3>3. ToSet(list') = ToSet(list) \cup {m}
      BY <2>0, <3>1, PushHeadAdds DEF Arrive
    <3>4. Work!Accept(m)
      BY <3>1, <3>2, <3>3 DEF Arrive, Work!Accept, Anywhere
    <3> QED BY <3>4 DEF Work!QueueNext
  <2>3. CASE \E m \in Messages : HandOut(m) \/ Vanish(m)
    <3>1. PICK m \in Messages : HandOut(m) \/ Vanish(m)
      BY <2>3
    <3>2. m \in ToSet(list) /\ ToSet(list') = ToSet(list) \ {m}
      BY <2>0, <3>1, PopRemoves DEF HandOut, Vanish, Apart
    <3>3. Work!Take(m)
      BY <3>1, <3>2 DEF HandOut, Vanish, Work!Take
    <3> QED BY <3>3 DEF Work!QueueNext
  <2>4. CASE \E m \in Messages : Finish(m)
    <3>1. PICK m \in Messages : Finish(m)
      BY <2>4
    <3>2. m \notin lost
      BY <2>0, <3>1 DEF Finish, Apart
    <3>3. Work!Settle(m)
      BY <3>1, <3>2 DEF Finish, Work!Settle
    <3> QED BY <3>3 DEF Work!QueueNext
  <2>5. CASE \E m \in Messages : Return(m)
    <3>1. PICK m \in Messages : Return(m)
      BY <2>5
    <3>2. m \notin lost /\ ToSet(list') = ToSet(list) \cup {m}
      BY <2>0, <3>1, PushHeadAdds DEF Return, Apart
    <3>3. Work!Release(m)
      BY <3>1, <3>2 DEF Return, Work!Release
    <3> QED BY <3>3 DEF Work!QueueNext
  <2>6. CASE \E m \in Messages : Drop(m)
    BY <2>6 DEF Drop, Work!queueVars
  <2> QED BY <1>2, <2>0, <2>1, <2>2, <2>3, <2>4, <2>5, <2>6, StepMoves
<1> QED BY <1>1, <1>2, IInvHolds, PTL DEF Spec, ImplementsWorkQueue, Work!QueueSpec
=============================================================================
