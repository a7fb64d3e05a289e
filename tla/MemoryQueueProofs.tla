------------------------- MODULE MemoryQueueProofs -------------------------
(***************************************************************************)
(* Proofs about MemoryQueue, for any set of messages and any finite set of *)
(* consumers.                                                              *)
(*                                                                         *)
(* The invariants of the runs are not inductive by themselves.  Ownership  *)
(* adds what ties a slot, the mark of the message in it, and the holder of *)
(* the message together; Signalled adds a count: while a consumer waits,   *)
(* there are no more ready messages than signals under way and consumers   *)
(* about to look.                                                          *)
(***************************************************************************)
EXTENDS MemoryQueue, FiniteSetTheorems, SequenceTheorems, TLAPS

\* A message sits in the slot it remembers, and in no other.
Slotted == \A i \in DOMAIN buf : buf[i] # Nil => idx[buf[i]] = i

\* A message that Queue was not called with yet is nowhere.
Unqueued ==
  \A m \in Messages : idx[m] = 0 => m \notin pending /\ m \notin signalling

\* A consumer has a message exactly while it handles it.
InHand == \A c \in Consumers : pc[c] = "handling" <=> current[c] # Nil

HeldIsPending == \A m \in Messages : Held(m) => m \in pending

Ownership ==
  /\ TypeOK
  /\ Slotted
  /\ Unqueued
  /\ InHand
  /\ HeldIsPending
  /\ SlotOwnership
  /\ SoleHolder
  /\ PendingIsHeld

\* Shutdown wakes everybody, and nobody goes to sleep after it.
AwakeAfterShutdown ==
  /\ ctxDone => shuttingDown
  /\ shuttingDown => Waiting = {}

Counted ==
  Waiting # {} => Cardinality(Ready) <= Cardinality(signalling) + Cardinality(Awake)

Signalled ==
  /\ AwakeAfterShutdown
  /\ IsFiniteSet(signalling)
  /\ Counted

IInv == Ownership /\ Signalled

Slot == Messages \cup {Nil}

-----------------------------------------------------------------------------
(* What Place and Remove do to the slots.                                  *)

LEMMA SlotsAreIndexed ==
  ASSUME TypeOK
  PROVE  /\ Len(buf) \in Nat
         /\ DOMAIN buf = 1..Len(buf)
         /\ \A i \in DOMAIN buf : buf[i] \in Slot
  BY LenProperties, ElementOfSeq DEF TypeOK, Slot

\* Place fills one slot, which held nothing, and leaves the others alone.
LEMMA PlaceFillsOneSlot ==
  ASSUME TypeOK, NEW m \in Messages, Place(m)
  PROVE  \E i \in Nat \ {0} :
           /\ buf' \in Seq(Slot)
           /\ idx' = [idx EXCEPT ![m] = i]
           /\ i \in DOMAIN buf' /\ buf'[i] = m
           /\ i \in DOMAIN buf => buf[i] = Nil
           /\ DOMAIN buf \subseteq DOMAIN buf'
           /\ \A j \in DOMAIN buf' : j # i => j \in DOMAIN buf /\ buf'[j] = buf[j]
<1>0. Len(buf) \in Nat /\ DOMAIN buf = 1..Len(buf)
  BY SlotsAreIndexed
<1>1. buf \in Seq(Slot) /\ m \in Slot
  BY DEF TypeOK, Slot
<1>2. CASE \E i \in Free : /\ buf' = [buf EXCEPT ![i] = m]
                         /\ idx' = [idx EXCEPT ![m] = i]
  <2>1. PICK i \in Free : /\ buf' = [buf EXCEPT ![i] = m]
                          /\ idx' = [idx EXCEPT ![m] = i]
    BY <1>2
  <2>2. i \in 1..Len(buf) /\ buf[i] = Nil
    BY <1>0, <2>1 DEF Free
  <2>3. /\ buf' \in Seq(Slot)
        /\ Len(buf') = Len(buf)
        /\ \A j \in 1..Len(buf) : buf'[j] = IF j = i THEN m ELSE buf[j]
    BY <1>1, <2>1, <2>2, ExceptSeq
  <2>4. DOMAIN buf' = DOMAIN buf
    BY <1>0, <2>3, LenProperties
  <2>5. i \in Nat \ {0}
    BY <1>0, <2>2
  <2> QED BY <1>0, <2>1, <2>2, <2>3, <2>4, <2>5
<1>3. CASE /\ buf' = Append(buf, m)
           /\ idx' = [idx EXCEPT ![m] = Len(buf) + 1]
  <2>1. /\ buf' \in Seq(Slot)
        /\ Len(buf') = Len(buf) + 1
        /\ \A j \in 1..Len(buf) : buf'[j] = buf[j]
        /\ buf'[Len(buf) + 1] = m
    BY <1>0, <1>1, <1>3
  <2>2. DOMAIN buf' = 1..(Len(buf) + 1)
    BY <2>1, LenProperties
  <2>3. /\ Len(buf) + 1 \in Nat \ {0}
        /\ Len(buf) + 1 \notin DOMAIN buf
        /\ DOMAIN buf \subseteq DOMAIN buf'
        /\ \A j \in DOMAIN buf' : j # Len(buf) + 1 => j \in DOMAIN buf
    BY <1>0, <2>2
  <2>4. PICK i : i = Len(buf) + 1
    OBVIOUS
  <2>5. /\ i \in Nat \ {0}
        /\ idx' = [idx EXCEPT ![m] = i]
        /\ i \in DOMAIN buf' /\ buf'[i] = m
        /\ i \notin DOMAIN buf
        /\ \A j \in DOMAIN buf' : j # i => j \in DOMAIN buf /\ buf'[j] = buf[j]
    BY <1>0, <1>3, <2>1, <2>2, <2>3, <2>4
  <2> QED BY <2>1, <2>3, <2>5
<1> QED BY <1>2, <1>3 DEF Place

\* Remove empties the slot of the message and leaves the others alone.
LEMMA RemoveEmptiesOneSlot ==
  ASSUME TypeOK, NEW m \in Messages, idx[m] \in DOMAIN buf, Remove(m)
  PROVE  /\ buf' \in Seq(Slot)
         /\ DOMAIN buf' = DOMAIN buf
         /\ \A j \in DOMAIN buf : buf'[j] = IF j = idx[m] THEN Nil ELSE buf[j]
<1>0. Len(buf) \in Nat /\ DOMAIN buf = 1..Len(buf)
  BY SlotsAreIndexed
<1>1. buf \in Seq(Slot) /\ Nil \in Slot
  BY DEF TypeOK, Slot
<1>2. /\ buf' \in Seq(Slot)
      /\ Len(buf') = Len(buf)
      /\ \A j \in 1..Len(buf) : buf'[j] = IF j = idx[m] THEN Nil ELSE buf[j]
  BY <1>0, <1>1, ExceptSeq DEF Remove
<1> QED BY <1>0, <1>2, LenProperties

-----------------------------------------------------------------------------
(* Ownership is kept by every step.                                        *)

\* A step that changes neither a slot, nor a mark, nor who holds what.
LEMMA QuietStep ==
  ASSUME Ownership,
         UNCHANGED <<buf, idx, pending, current, parked>>,
         signalling' \subseteq signalling,
         pc' \in [Consumers -> PCs],
         \A c \in Consumers : pc'[c] = "handling" <=> pc[c] = "handling",
         shuttingDown' \in BOOLEAN, ctxDone' \in BOOLEAN
  PROVE  Ownership'
<1>1. TypeOK'
  BY DEF Ownership, TypeOK
<1>2. Slotted' /\ Unqueued' /\ InHand'
  BY DEF Ownership, Slotted, Unqueued, InHand
<1>3. \A m \in Messages : /\ Held(m)' <=> Held(m)
                          /\ InBuf(m)' <=> InBuf(m)
                          /\ \A c \in Consumers : HeldBy(c, m)' <=> HeldBy(c, m)
  BY DEF Held, HeldBy, InBuf
<1>4. HeldIsPending' /\ SlotOwnership' /\ SoleHolder' /\ PendingIsHeld'
  BY <1>3 DEF Ownership, HeldIsPending, SlotOwnership, SoleHolder, PendingIsHeld
<1> QED BY <1>1, <1>2, <1>4 DEF Ownership

\* A message that was not queued is held by nobody.
LEMMA UnqueuedIsNotHeld ==
  ASSUME Ownership, NEW m \in Messages, idx[m] = 0
  PROVE  m \notin pending /\ m \notin signalling /\ ~Held(m) /\ ~InBuf(m)
<1>1. m \notin pending /\ m \notin signalling /\ ~Held(m)
  BY DEF Ownership, Unqueued, HeldIsPending
<1>2. ASSUME NEW i \in DOMAIN buf, buf[i] = m
      PROVE  FALSE
  <2>1. idx[m] = i
    BY <1>2, NilIsNoMessage DEF Ownership, Slotted
  <2>2. i \in 1..Len(buf) /\ Len(buf) \in Nat
    BY SlotsAreIndexed DEF Ownership
  <2> QED BY <2>1, <2>2
<1> QED BY <1>1, <1>2 DEF InBuf

LEMMA QueueKeepsOwnership ==
  ASSUME Ownership, NEW m \in Messages, Queue(m)
  PROVE  Ownership'
<1>1. PICK i \in Nat \ {0} :
           /\ buf' \in Seq(Slot)
           /\ idx' = [idx EXCEPT ![m] = i]
           /\ i \in DOMAIN buf' /\ buf'[i] = m
           /\ i \in DOMAIN buf => buf[i] = Nil
           /\ DOMAIN buf \subseteq DOMAIN buf'
           /\ \A j \in DOMAIN buf' : j # i => j \in DOMAIN buf /\ buf'[j] = buf[j]
  BY PlaceFillsOneSlot DEF Queue, Ownership
<1>2. /\ m \notin pending /\ ~Held(m) /\ ~InBuf(m)
      /\ idx \in [Messages -> Nat]
      /\ UNCHANGED <<pending, shuttingDown, ctxDone, pc, current, parked>>
      /\ signalling' = signalling \cup {m}
  BY UnqueuedIsNotHeld DEF Queue, Ownership, TypeOK
<1>3. TypeOK'
  BY <1>1, <1>2 DEF Ownership, TypeOK, Slot
<1>4. Slotted'
  <2> SUFFICES ASSUME NEW j \in DOMAIN buf', buf'[j] # Nil
               PROVE  idx'[buf'[j]] = j
    BY DEF Slotted
  <2>1. CASE j = i
    BY <1>1, <1>2, <2>1
  <2>2. CASE j # i
    <3>1. j \in DOMAIN buf /\ buf'[j] = buf[j] /\ buf[j] # m
      BY <1>1, <1>2, <2>2 DEF InBuf
    <3>2. buf[j] \in Messages
      BY <3>1, SlotsAreIndexed DEF Ownership, Slot
    <3> QED BY <1>1, <1>2, <3>1, <3>2 DEF Ownership, Slotted
  <2> QED BY <2>1, <2>2
<1>5. Unqueued' /\ InHand'
  BY <1>1, <1>2 DEF Ownership, Unqueued, InHand
<1>6. \A n \in Messages : /\ Held(n)' <=> Held(n)
                          /\ \A c \in Consumers : HeldBy(c, n)' <=> HeldBy(c, n)
  BY <1>2 DEF Held, HeldBy
<1>7. HeldIsPending' /\ SoleHolder'
  BY <1>2, <1>6 DEF Ownership, HeldIsPending, SoleHolder
<1>8. SlotOwnership'
  <2> SUFFICES ASSUME NEW n \in Messages, Held(n)
               PROVE  idx'[n] \in DOMAIN buf' /\ buf'[idx'[n]] = n
    BY <1>6 DEF SlotOwnership
  <2>1. n # m /\ idx[n] \in DOMAIN buf /\ buf[idx[n]] = n
    BY <1>2 DEF Ownership, SlotOwnership
  <2>2. idx[n] # i
    BY <1>1, <2>1, NilIsNoMessage
  <2> QED BY <1>1, <1>2, <2>1, <2>2
<1>9. PendingIsHeld'
  <2> SUFFICES ASSUME NEW n \in Messages, InBuf(n)', n \in pending
               PROVE  Held(n)
    BY <1>2, <1>6 DEF PendingIsHeld
  <2>1. n # m
    BY <1>2
  <2>2. InBuf(n)
    BY <1>1, <2>1 DEF InBuf
  <2> QED BY <2>2 DEF Ownership, PendingIsHeld
<1> QED BY <1>3, <1>4, <1>5, <1>7, <1>8, <1>9 DEF Ownership

LEMMA GetMessageKeepsOwnership ==
  ASSUME Ownership, NEW c \in Consumers, GetMessage(c)
  PROVE  Ownership'
<1>1. PICK i \in Ready : /\ pending' = pending \cup {buf[i]}
                        /\ current' = [current EXCEPT ![c] = buf[i]]
  BY DEF GetMessage
<1>2. PICK m \in Messages : m = buf[i] /\ i \in DOMAIN buf /\ m \notin pending
  BY SlotsAreIndexed DEF Ready, Slot, Ownership
<1>3. /\ pc[c] = "get" /\ pc' = [pc EXCEPT ![c] = "handling"]
      /\ UNCHANGED <<buf, idx, shuttingDown, ctxDone, signalling, parked>>
      /\ pc \in [Consumers -> PCs] /\ current \in [Consumers -> Messages \cup {Nil}]
  BY DEF GetMessage, Goto, Ownership, TypeOK
<1>4. idx[m] = i /\ idx[m] # 0 /\ ~Held(m)
  <2>1. idx[m] = i
    BY <1>2, NilIsNoMessage DEF Ownership, Slotted
  <2>2. i # 0
    BY <1>2, SlotsAreIndexed DEF Ownership
  <2> QED BY <1>2, <2>1, <2>2 DEF Ownership, HeldIsPending
<1>5. TypeOK'
  BY <1>1, <1>2, <1>3 DEF Ownership, TypeOK, PCs
<1>6. Slotted' /\ Unqueued' /\ InHand'
  BY <1>1, <1>2, <1>3, <1>4, NilIsNoMessage DEF Ownership, Slotted, Unqueued, InHand
<1>7. /\ \A d \in Consumers, n \in Messages :
             HeldBy(d, n)' <=> (d = c /\ n = m) \/ HeldBy(d, n)
      /\ \A n \in Messages : Held(n)' <=> n = m \/ Held(n)
  BY <1>1, <1>2, <1>3 DEF Held, HeldBy
<1>8. HeldIsPending' /\ PendingIsHeld'
  BY <1>1, <1>2, <1>3, <1>7 DEF Ownership, HeldIsPending, PendingIsHeld, InBuf
<1>9. SlotOwnership'
  BY <1>2, <1>3, <1>4, <1>7 DEF Ownership, SlotOwnership
<1>10. SoleHolder'
  <2>1. \A d \in Consumers : ~HeldBy(d, m)
    BY <1>4 DEF Held
  <2>2. m \notin parked /\ parked' = parked
    BY <1>3, <1>4 DEF Held
  <2> QED BY <1>7, <2>1, <2>2 DEF Ownership, SoleHolder
<1> QED BY <1>5, <1>6, <1>8, <1>9, <1>10 DEF Ownership

\* The message a consumer handles sits, marked, in its slot.
LEMMA HandledMessage ==
  ASSUME Ownership, NEW c \in Consumers, pc[c] = "handling"
  PROVE  /\ current[c] \in Messages
         /\ HeldBy(c, current[c]) /\ Held(current[c])
         /\ current[c] \in pending
         /\ idx[current[c]] \in DOMAIN buf /\ buf[idx[current[c]]] = current[c]
         /\ current[c] \notin parked
         /\ \A d \in Consumers : HeldBy(d, current[c]) => d = c
<1>1. current[c] \in Messages
  BY DEF Ownership, TypeOK, InHand
<1>2. HeldBy(c, current[c]) /\ Held(current[c])
  BY DEF Held, HeldBy
<1> QED BY <1>1, <1>2 DEF Ownership, HeldIsPending, SlotOwnership, SoleHolder

LEMMA RequeueKeepsOwnership ==
  ASSUME Ownership, NEW c \in Consumers, Requeue(c)
  PROVE  Ownership'
<1> DEFINE m == current[c]
<1>1. /\ pc[c] = "handling" /\ pc' = [pc EXCEPT ![c] = "signal"]
      /\ pending' = pending \ {m} /\ current' = [current EXCEPT ![c] = Nil]
      /\ UNCHANGED <<buf, idx, shuttingDown, ctxDone, signalling, parked>>
      /\ pc \in [Consumers -> PCs] /\ current \in [Consumers -> Messages \cup {Nil}]
  BY DEF Requeue, Goto, Ownership, TypeOK
<1>2. /\ m \in Messages /\ m \notin parked
      /\ \A d \in Consumers : HeldBy(d, m) => d = c
  BY <1>1, HandledMessage
<1>3. TypeOK'
  BY <1>1 DEF Ownership, TypeOK, PCs
<1>4. Slotted' /\ Unqueued' /\ InHand'
  BY <1>1, NilIsNoMessage DEF Ownership, Slotted, Unqueued, InHand
<1>5. /\ \A d \in Consumers, n \in Messages : HeldBy(d, n)' <=> HeldBy(d, n) /\ d # c
      /\ \A n \in Messages : Held(n)' <=> Held(n) /\ n # m
  BY <1>1, <1>2 DEF Held, HeldBy
<1>6. HeldIsPending' /\ SlotOwnership' /\ SoleHolder' /\ PendingIsHeld'
  BY <1>1, <1>2, <1>5 DEF Ownership, HeldIsPending, SlotOwnership, SoleHolder, PendingIsHeld, InBuf
<1> QED BY <1>3, <1>4, <1>6 DEF Ownership

LEMMA ParkKeepsOwnership ==
  ASSUME Ownership, NEW c \in Consumers, Park(c)
  PROVE  Ownership'
<1> DEFINE m == current[c]
<1>1. /\ pc[c] = "handling" /\ pc' = [pc EXCEPT ![c] = "loop"]
      /\ parked' = parked \cup {m} /\ current' = [current EXCEPT ![c] = Nil]
      /\ UNCHANGED <<buf, idx, pending, shuttingDown, ctxDone, signalling>>
      /\ pc \in [Consumers -> PCs] /\ current \in [Consumers -> Messages \cup {Nil}]
  BY DEF Park, Goto, Ownership, TypeOK, queue
<1>2. /\ m \in Messages /\ Held(m)
      /\ \A d \in Consumers : HeldBy(d, m) => d = c
  BY <1>1, HandledMessage
<1>3. TypeOK'
  BY <1>1, <1>2 DEF Ownership, TypeOK, PCs
<1>4. Slotted' /\ Unqueued' /\ InHand'
  BY <1>1, NilIsNoMessage DEF Ownership, Slotted, Unqueued, InHand
<1>5. /\ \A d \in Consumers, n \in Messages : HeldBy(d, n)' <=> HeldBy(d, n) /\ d # c
      /\ \A n \in Messages : Held(n)' <=> Held(n)
  BY <1>1, <1>2 DEF Held, HeldBy
<1>6. HeldIsPending' /\ SlotOwnership' /\ SoleHolder' /\ PendingIsHeld'
  BY <1>1, <1>2, <1>5 DEF Ownership, HeldIsPending, SlotOwnership, SoleHolder, PendingIsHeld, InBuf
<1> QED BY <1>3, <1>4, <1>6 DEF Ownership

\* Both removals: the message m leaves its slot and its holder.
LEMMA RemovalKeepsOwnership ==
  ASSUME Ownership, NEW m \in Messages, Held(m), Remove(m),
         UNCHANGED <<idx, pending, shuttingDown, ctxDone, signalling>>,
         TypeOK', InHand',
         \A n \in Messages : Held(n)' <=> Held(n) /\ n # m,
         \A d \in Consumers, n \in Messages : HeldBy(d, n)' => HeldBy(d, n),
         parked' \subseteq parked
  PROVE  Ownership'
<1>1. idx[m] \in DOMAIN buf /\ buf[idx[m]] = m
  BY DEF Ownership, SlotOwnership
<1>2. /\ DOMAIN buf' = DOMAIN buf
      /\ \A j \in DOMAIN buf : buf'[j] = IF j = idx[m] THEN Nil ELSE buf[j]
  BY <1>1, RemoveEmptiesOneSlot DEF Ownership
<1>3. Slotted' /\ Unqueued'
  BY <1>2 DEF Ownership, Slotted, Unqueued
<1>4. HeldIsPending' /\ SoleHolder'
  BY DEF Ownership, HeldIsPending, SoleHolder
<1>5. SlotOwnership'
  <2> SUFFICES ASSUME NEW n \in Messages, Held(n), n # m
               PROVE  idx[n] \in DOMAIN buf' /\ buf'[idx[n]] = n
    BY DEF SlotOwnership
  <2>1. idx[n] \in DOMAIN buf /\ buf[idx[n]] = n
    BY DEF Ownership, SlotOwnership
  <2> QED BY <1>1, <1>2, <2>1
<1>6. PendingIsHeld'
  <2> SUFFICES ASSUME NEW n \in Messages, NEW j \in DOMAIN buf', buf'[j] = n, n \in pending
               PROVE  Held(n) /\ n # m
    BY DEF PendingIsHeld, InBuf
  <2>1. j \in DOMAIN buf /\ buf[j] = n /\ j # idx[m]
    BY <1>2, NilIsNoMessage
  <2>2. n # m
    BY <2>1, NilIsNoMessage DEF Ownership, Slotted
  <2> QED BY <2>1, <2>2 DEF Ownership, PendingIsHeld, InBuf
<1> QED BY <1>3, <1>4, <1>5, <1>6 DEF Ownership

LEMMA RemoveCurrentKeepsOwnership ==
  ASSUME Ownership, NEW c \in Consumers, RemoveCurrent(c)
  PROVE  Ownership'
<1> DEFINE m == current[c]
<1>1. /\ pc[c] = "handling" /\ pc' = [pc EXCEPT ![c] = "loop"]
      /\ Remove(m) /\ current' = [current EXCEPT ![c] = Nil]
      /\ UNCHANGED <<idx, pending, shuttingDown, ctxDone, signalling, parked>>
      /\ pc \in [Consumers -> PCs] /\ current \in [Consumers -> Messages \cup {Nil}]
  BY DEF RemoveCurrent, Goto, Ownership, TypeOK
<1>2. /\ m \in Messages /\ Held(m) /\ m \notin parked
      /\ idx[m] \in DOMAIN buf
      /\ \A d \in Consumers : HeldBy(d, m) => d = c
  BY <1>1, HandledMessage
<1>3. buf' \in Seq(Messages \cup {Nil})
  BY <1>1, <1>2, RemoveEmptiesOneSlot DEF Ownership, Slot
<1>4. TypeOK'
  BY <1>1, <1>3 DEF Ownership, TypeOK, PCs
<1>5. InHand'
  BY <1>1 DEF Ownership, InHand
<1>6. /\ \A d \in Consumers, n \in Messages : HeldBy(d, n)' <=> HeldBy(d, n) /\ d # c
      /\ \A n \in Messages : Held(n)' <=> Held(n) /\ n # m
  BY <1>1, <1>2 DEF Held, HeldBy
<1> QED BY <1>1, <1>2, <1>4, <1>5, <1>6, RemovalKeepsOwnership

LEMMA RemoveParkedKeepsOwnership ==
  ASSUME Ownership, NEW m \in Messages, RemoveParked(m)
  PROVE  Ownership'
<1>1. /\ m \in parked /\ Remove(m) /\ parked' = parked \ {m}
      /\ UNCHANGED <<idx, pending, shuttingDown, ctxDone, signalling, pc, current>>
  BY DEF RemoveParked
<1>2. Held(m) /\ \A d \in Consumers : ~HeldBy(d, m)
  BY <1>1 DEF Held, Ownership, SoleHolder
<1>3. idx[m] \in DOMAIN buf
  BY <1>2 DEF Ownership, SlotOwnership
<1>4. buf' \in Seq(Messages \cup {Nil})
  BY <1>1, <1>3, RemoveEmptiesOneSlot DEF Ownership, Slot
<1>5. TypeOK' /\ InHand'
  BY <1>1, <1>4 DEF Ownership, TypeOK, InHand
<1>6. /\ \A d \in Consumers, n \in Messages : HeldBy(d, n)' <=> HeldBy(d, n)
      /\ \A n \in Messages : Held(n)' <=> Held(n) /\ n # m
  BY <1>1, <1>2 DEF Held, HeldBy
<1> QED BY <1>1, <1>2, <1>5, <1>6, RemovalKeepsOwnership

LEMMA OwnershipInit == Init => Ownership
<1> SUFFICES ASSUME Init PROVE Ownership
  OBVIOUS
<1>1. TypeOK
  BY EmptySeq DEF Init, TypeOK, PCs
<1>2. \A m \in Messages : ~Held(m) /\ ~InBuf(m) /\ \A c \in Consumers : ~HeldBy(c, m)
  BY DEF Init, Held, HeldBy, InBuf
<1>3. Slotted /\ Unqueued /\ InHand
  BY DEF Init, Slotted, Unqueued, InHand
<1>4. HeldIsPending /\ SlotOwnership /\ SoleHolder /\ PendingIsHeld
  BY <1>2 DEF Init, HeldIsPending, SlotOwnership, SoleHolder, PendingIsHeld
<1> QED BY <1>1, <1>3, <1>4 DEF Ownership

\* The steps of which QuietStep speaks.
LEMMA QuietSteps ==
  ASSUME Ownership,
         \/ \E m \in Messages : QueueSignal(m)
         \/ \E c \in Consumers : \/ CallGet(c) \/ LeaveLoop(c)
                                 \/ GetWait(c) \/ GetFail(c)
                                 \/ RequeueSignal(c)
         \/ Shutdown \/ Cancel \/ Stopped \/ UNCHANGED vars
  PROVE  Ownership'
<1>1. TypeOK
  BY DEF Ownership
<1>2. CASE \E m \in Messages : QueueSignal(m)
  BY <1>1, <1>2, QuietStep DEF QueueSignal, Waiting, queue, TypeOK, PCs
<1>3. CASE \E c \in Consumers : CallGet(c)
  BY <1>1, <1>3, QuietStep DEF CallGet, Goto, queue, TypeOK, PCs
<1>4. CASE \E c \in Consumers : LeaveLoop(c)
  BY <1>1, <1>4, QuietStep DEF LeaveLoop, Goto, queue, TypeOK, PCs
<1>5. CASE \E c \in Consumers : GetWait(c)
  BY <1>1, <1>5, QuietStep DEF GetWait, Goto, queue, TypeOK, PCs
<1>6. CASE \E c \in Consumers : GetFail(c)
  BY <1>1, <1>6, QuietStep DEF GetFail, Goto, queue, TypeOK, PCs
<1>7. CASE \E c \in Consumers : RequeueSignal(c)
  BY <1>1, <1>7, QuietStep DEF RequeueSignal, Waiting, queue, TypeOK, PCs
<1>8. CASE Shutdown
  BY <1>1, <1>8, QuietStep DEF Shutdown, Waiting, TypeOK, PCs
<1>9. CASE Cancel
  BY <1>1, <1>9, QuietStep DEF Cancel, queue, TypeOK
<1>10. CASE Stopped \/ UNCHANGED vars
  BY <1>1, <1>10, QuietStep DEF Stopped, vars, queue, TypeOK
<1> QED BY <1>2, <1>3, <1>4, <1>5, <1>6, <1>7, <1>8, <1>9, <1>10

LEMMA OwnershipStep == Ownership /\ [Next]_vars => Ownership'
<1> SUFFICES ASSUME Ownership, [Next]_vars PROVE Ownership'
  OBVIOUS
<1>1. CASE \E m \in Messages : Queue(m)
  BY <1>1, QueueKeepsOwnership
<1>2. CASE \E m \in Messages : RemoveParked(m)
  BY <1>2, RemoveParkedKeepsOwnership
<1>3. CASE \E c \in Consumers : GetMessage(c)
  BY <1>3, GetMessageKeepsOwnership
<1>4. CASE \E c \in Consumers : RemoveCurrent(c)
  BY <1>4, RemoveCurrentKeepsOwnership
<1>5. CASE \E c \in Consumers : Requeue(c)
  BY <1>5, RequeueKeepsOwnership
<1>6. CASE \E c \in Consumers : Park(c)
  BY <1>6, ParkKeepsOwnership
<1> QED BY <1>1, <1>2, <1>3, <1>4, <1>5, <1>6, QuietSteps DEF Next, Step

-----------------------------------------------------------------------------

\* The slots, marks and holders agree in every reachable state.
THEOREM OwnershipHolds == Spec => []Ownership
  BY OwnershipInit, OwnershipStep, PTL DEF Spec

\* Every variable keeps to its type.
THEOREM TypeCorrect == Spec => []TypeOK
<1>1. Ownership => TypeOK
  BY DEF Ownership
<1> QED BY <1>1, OwnershipHolds, PTL

\* Remove erases the message it is called with and no other client's: the
\* slot index a held message remembers is the slot it is in (queue.go, Remove).
THEOREM SlotOwnershipHolds == Spec => []SlotOwnership
<1>1. Ownership => SlotOwnership
  BY DEF Ownership
<1> QED BY <1>1, OwnershipHolds, PTL

\* No message is handled by two workers, or by a worker and the squasher, at
\* the same time (queue.go, getNextMessage).
THEOREM SoleHolderHolds == Spec => []SoleHolder
<1>1. Ownership => SoleHolder
  BY DEF Ownership
<1> QED BY <1>1, OwnershipHolds, PTL

\* No message is hidden from Get by a mark that nobody will take away.
THEOREM PendingIsHeldHolds == Spec => []PendingIsHeld
<1>1. Ownership => PendingIsHeld
  BY DEF Ownership
<1> QED BY <1>1, OwnershipHolds, PTL

-----------------------------------------------------------------------------
(* The count of signals.                                                   *)

LEMMA OneMoreAtMost ==
  ASSUME NEW S, NEW T, NEW x, IsFiniteSet(S), T \in SUBSET (S \cup {x})
  PROVE  Cardinality(T) <= Cardinality(S) + 1 /\ Cardinality(T) \in Nat
<1>1. IsFiniteSet(S \cup {x})
  BY FS_AddElement
<1>2. Cardinality(S \cup {x}) = IF x \in S THEN Cardinality(S) ELSE Cardinality(S) + 1
  BY FS_AddElement
<1>3. IsFiniteSet(T) /\ Cardinality(T) <= Cardinality(S \cup {x})
  BY <1>1, FS_Subset
<1>4. /\ Cardinality(S) \in Nat /\ Cardinality(T) \in Nat
      /\ Cardinality(S \cup {x}) \in Nat
  BY <1>1, <1>3, FS_CardinalityType
<1> QED BY <1>2, <1>3, <1>4

LEMMA CountsAreNumbers ==
  ASSUME Ownership, IsFiniteSet(signalling)
  PROVE  /\ IsFiniteSet(Ready) /\ Cardinality(Ready) \in Nat
         /\ IsFiniteSet(Awake) /\ Cardinality(Awake) \in Nat
         /\ Cardinality(signalling) \in Nat
<1>1. Len(buf) \in Nat /\ DOMAIN buf = 1..Len(buf)
  BY SlotsAreIndexed DEF Ownership
<1>2. IsFiniteSet(1..Len(buf))
  BY <1>1, FS_Interval
<1>3. Ready \in SUBSET (1..Len(buf))
  BY <1>1 DEF Ready
<1>4. IsFiniteSet(Ready)
  BY <1>2, <1>3, FS_Subset
<1>5. IsFiniteSet(Awake)
  <2>1. Awake \in SUBSET Consumers
    BY DEF Awake
  <2> QED BY <2>1, ConsumersFinite, FS_Subset
<1> QED BY <1>4, <1>5, FS_CardinalityType

\* Neither a new ready message, nor a new waiter, nor fewer signals.
LEMMA CountIsKept ==
  ASSUME IInv,
         Ready' \subseteq Ready, signalling' = signalling,
         Awake \subseteq Awake', Waiting' \subseteq Waiting
  PROVE  Counted'
<1>1. /\ IsFiniteSet(Ready) /\ Cardinality(Ready) \in Nat
      /\ Cardinality(Awake) \in Nat /\ Cardinality(signalling) \in Nat
  BY CountsAreNumbers DEF IInv, Signalled
<1>2. Ready' \in SUBSET Ready /\ Awake \in SUBSET Awake'
  OBVIOUS
<1>3. Cardinality(Ready') <= Cardinality(Ready)
  BY <1>1, <1>2, FS_Subset
<1>4. Awake' \in SUBSET Consumers
  BY DEF Awake
<1>5. IsFiniteSet(Awake')
  BY <1>4, ConsumersFinite, FS_Subset
<1>6. Cardinality(Awake) <= Cardinality(Awake')
  BY <1>2, <1>5, FS_Subset
<1>7. Cardinality(Ready') \in Nat /\ Cardinality(Awake') \in Nat
  BY <1>1, <1>2, <1>5, FS_Subset, FS_CardinalityType
<1>8. Waiting' # {} => Cardinality(Ready) <= Cardinality(signalling) + Cardinality(Awake)
  BY DEF IInv, Signalled, Counted
<1> QED BY <1>1, <1>3, <1>6, <1>7, <1>8 DEF Counted

LEMMA QueueKeepsCount ==
  ASSUME IInv, NEW m \in Messages, Queue(m)
  PROVE  Signalled'
<1>1. PICK i : \A j \in DOMAIN buf' : j # i => j \in DOMAIN buf /\ buf'[j] = buf[j]
  BY PlaceFillsOneSlot DEF Queue, IInv, Ownership
<1>2. /\ m \notin signalling /\ signalling' = signalling \cup {m}
      /\ UNCHANGED <<pending, shuttingDown, ctxDone, pc>>
  BY UnqueuedIsNotHeld DEF Queue, IInv
<1>3. Ready' \in SUBSET (Ready \cup {i})
  BY <1>1, <1>2 DEF Ready
<1>4. /\ IsFiniteSet(Ready) /\ Cardinality(Ready) \in Nat
      /\ Cardinality(Awake) \in Nat /\ Cardinality(signalling) \in Nat
      /\ IsFiniteSet(signalling)
  BY CountsAreNumbers DEF IInv, Signalled
<1>6. Cardinality(Ready') <= Cardinality(Ready) + 1 /\ Cardinality(Ready') \in Nat
  BY <1>3, <1>4, OneMoreAtMost
<1>7. /\ IsFiniteSet(signalling')
      /\ Cardinality(signalling') = Cardinality(signalling) + 1
  BY <1>2, <1>4, FS_AddElement
<1>8. Awake' = Awake /\ Waiting' = Waiting
  BY <1>2 DEF Awake, Waiting
<1>9. Counted'
  BY <1>4, <1>6, <1>7, <1>8 DEF IInv, Signalled, Counted
<1> QED BY <1>2, <1>7, <1>8, <1>9 DEF IInv, Signalled, AwakeAfterShutdown

\* While the queue is not shut down, a signal that finds a waiter wakes it.
LEMMA QueueSignalKeepsCount ==
  ASSUME IInv, NEW m \in Messages, QueueSignal(m)
  PROVE  Signalled'
<1>1. /\ m \in signalling /\ signalling' = signalling \ {m}
      /\ UNCHANGED <<buf, pending, shuttingDown, ctxDone>>
      /\ pc \in [Consumers -> PCs]
  BY DEF QueueSignal, queue, IInv, Ownership, TypeOK
<1>2. /\ Cardinality(Ready) \in Nat /\ IsFiniteSet(Awake)
      /\ Cardinality(Awake) \in Nat /\ Cardinality(signalling) \in Nat
      /\ IsFiniteSet(signalling)
  BY CountsAreNumbers DEF IInv, Signalled
<1>3. /\ IsFiniteSet(signalling')
      /\ Cardinality(signalling') = Cardinality(signalling) - 1
  BY <1>1, <1>2, FS_RemoveElement
<1>4. Ready' = Ready
  BY <1>1 DEF Ready
<1>5. CASE \E c \in Waiting : pc' = [pc EXCEPT ![c] = "get"]
  <2>1. PICK c \in Waiting : pc' = [pc EXCEPT ![c] = "get"]
    BY <1>5
  <2>2. Awake' = Awake \cup {c} /\ c \notin Awake /\ Waiting' \subseteq Waiting
    BY <1>1, <2>1 DEF Awake, Waiting
  <2>3. Cardinality(Awake') = Cardinality(Awake) + 1
    BY <1>2, <2>2, FS_AddElement
  <2>4. Counted'
    BY <1>2, <1>3, <1>4, <2>1, <2>3 DEF IInv, Signalled, Counted
  <2> QED BY <1>1, <1>3, <2>2, <2>4 DEF IInv, Signalled, AwakeAfterShutdown
<1>6. CASE Waiting = {} /\ UNCHANGED pc
  <2>1. Waiting' = {}
    BY <1>6 DEF Waiting
  <2> QED BY <1>1, <1>3, <2>1 DEF IInv, Signalled, AwakeAfterShutdown, Counted
<1> QED BY <1>5, <1>6 DEF QueueSignal

LEMMA GetMessageKeepsCount ==
  ASSUME IInv, NEW c \in Consumers, GetMessage(c)
  PROVE  Signalled'
<1>1. PICK i \in Ready : pending' = pending \cup {buf[i]}
  BY DEF GetMessage
<1>2. /\ pc[c] = "get" /\ pc' = [pc EXCEPT ![c] = "handling"]
      /\ UNCHANGED <<buf, shuttingDown, ctxDone, signalling>>
      /\ pc \in [Consumers -> PCs]
  BY DEF GetMessage, Goto, IInv, Ownership, TypeOK
<1>3. /\ IsFiniteSet(Ready) /\ Cardinality(Ready) \in Nat
      /\ IsFiniteSet(Awake) /\ Cardinality(Awake) \in Nat
      /\ Cardinality(signalling) \in Nat
  BY CountsAreNumbers DEF IInv, Signalled
<1>4. Ready' \in SUBSET (Ready \ {i})
  BY <1>1, <1>2 DEF Ready
<1>5. /\ IsFiniteSet(Ready \ {i})
      /\ Cardinality(Ready \ {i}) = Cardinality(Ready) - 1
  BY <1>3, FS_RemoveElement
<1>6. Cardinality(Ready') <= Cardinality(Ready) - 1 /\ Cardinality(Ready') \in Nat
  BY <1>4, <1>5, FS_Subset, FS_CardinalityType
<1>7. Awake' = Awake \ {c} /\ c \in Awake /\ Waiting' = Waiting
  BY <1>2 DEF Awake, Waiting
<1>8. Cardinality(Awake') = Cardinality(Awake) - 1
  BY <1>3, <1>7, FS_RemoveElement
<1>9. Counted'
  BY <1>2, <1>3, <1>6, <1>7, <1>8 DEF IInv, Signalled, Counted
<1> QED BY <1>2, <1>7, <1>9 DEF IInv, Signalled, AwakeAfterShutdown

LEMMA RequeueKeepsCount ==
  ASSUME IInv, NEW c \in Consumers, Requeue(c)
  PROVE  Signalled'
<1> DEFINE m == current[c]
<1>1. /\ pc[c] = "handling" /\ pc' = [pc EXCEPT ![c] = "signal"]
      /\ pending' = pending \ {m}
      /\ UNCHANGED <<buf, shuttingDown, ctxDone, signalling>>
      /\ pc \in [Consumers -> PCs]
  BY DEF Requeue, Goto, IInv, Ownership, TypeOK
<1>2. m \in Messages /\ idx[m] \in DOMAIN buf
  BY <1>1, HandledMessage DEF IInv
<1>3. Ready' \in SUBSET (Ready \cup {idx[m]})
  BY <1>1, <1>2 DEF Ready, IInv, Ownership, Slotted
<1>4. /\ IsFiniteSet(Ready) /\ Cardinality(Ready) \in Nat
      /\ IsFiniteSet(Awake) /\ Cardinality(Awake) \in Nat
      /\ Cardinality(signalling) \in Nat
  BY CountsAreNumbers DEF IInv, Signalled
<1>6. Cardinality(Ready') <= Cardinality(Ready) + 1 /\ Cardinality(Ready') \in Nat
  BY <1>3, <1>4, OneMoreAtMost
<1>7. Awake' = Awake \cup {c} /\ c \notin Awake /\ Waiting' = Waiting
  BY <1>1 DEF Awake, Waiting
<1>8. Cardinality(Awake') = Cardinality(Awake) + 1
  BY <1>4, <1>7, FS_AddElement
<1>9. Counted'
  BY <1>1, <1>4, <1>6, <1>7, <1>8 DEF IInv, Signalled, Counted
<1> QED BY <1>1, <1>7, <1>9 DEF IInv, Signalled, AwakeAfterShutdown

LEMMA RequeueSignalKeepsCount ==
  ASSUME IInv, NEW c \in Consumers, RequeueSignal(c)
  PROVE  Signalled'
<1>1. /\ pc[c] = "signal"
      /\ UNCHANGED <<buf, pending, shuttingDown, ctxDone, signalling>>
      /\ pc \in [Consumers -> PCs]
  BY DEF RequeueSignal, queue, IInv, Ownership, TypeOK
<1>2. Ready' = Ready
  BY <1>1 DEF Ready
<1>3. CASE \E w \in Waiting : pc' = [pc EXCEPT ![c] = "loop", ![w] = "get"]
  <2>1. PICK w \in Waiting : pc' = [pc EXCEPT ![c] = "loop", ![w] = "get"]
    BY <1>3
  <2>2. w # c /\ w \notin Awake /\ c \in Awake
    BY <1>1, <2>1 DEF Waiting, Awake
  <2>3. Awake' = (Awake \ {c}) \cup {w} /\ Waiting' \subseteq Waiting
    BY <1>1, <2>1, <2>2 DEF Waiting, Awake
  <2>4. IsFiniteSet(Awake) /\ Cardinality(Awake) \in Nat
    BY CountsAreNumbers DEF IInv, Signalled
  <2>5. IsFiniteSet(Awake \ {c}) /\ Cardinality(Awake \ {c}) = Cardinality(Awake) - 1
    BY <2>2, <2>4, FS_RemoveElement
  <2>6. Cardinality(Awake') = Cardinality(Awake)
    <3>1. Cardinality((Awake \ {c}) \cup {w}) = Cardinality(Awake \ {c}) + 1
      BY <2>2, <2>5, FS_AddElement
    <3> QED BY <2>3, <2>4, <2>5, <3>1
  <2>7. Counted'
    BY <1>1, <1>2, <2>1, <2>6 DEF IInv, Signalled, Counted
  <2> QED BY <1>1, <2>3, <2>7 DEF IInv, Signalled, AwakeAfterShutdown
<1>4. CASE Waiting = {} /\ pc' = [pc EXCEPT ![c] = "loop"]
  <2>1. Waiting' = {}
    BY <1>1, <1>4 DEF Waiting
  <2> QED BY <1>1, <2>1 DEF IInv, Signalled, AwakeAfterShutdown, Counted
<1> QED BY <1>3, <1>4 DEF RequeueSignal

\* A message leaves its slot: nothing new is ready.
LEMMA RemovalReadiesNothing ==
  ASSUME Ownership, NEW m \in Messages, Held(m), Remove(m), pending' = pending
  PROVE  Ready' \subseteq Ready
<1>1. idx[m] \in DOMAIN buf
  BY DEF Ownership, SlotOwnership
<1>2. /\ DOMAIN buf' = DOMAIN buf
      /\ \A j \in DOMAIN buf : buf'[j] = IF j = idx[m] THEN Nil ELSE buf[j]
  BY <1>1, RemoveEmptiesOneSlot DEF Ownership
<1> QED BY <1>2 DEF Ready

LEMMA SignalledStep == IInv /\ [Next]_vars => Signalled'
<1> SUFFICES ASSUME IInv, [Next]_vars PROVE Signalled'
  OBVIOUS
<1>0. /\ pc \in [Consumers -> PCs] /\ IsFiniteSet(signalling)
      /\ AwakeAfterShutdown /\ Ownership
  BY DEF IInv, Signalled, Ownership, TypeOK
<1>1. CASE \E m \in Messages : Queue(m)
  BY <1>1, QueueKeepsCount
<1>2. CASE \E m \in Messages : QueueSignal(m)
  BY <1>2, QueueSignalKeepsCount
<1>3. CASE \E m \in Messages : RemoveParked(m)
  <2>1. PICK m \in Messages : RemoveParked(m)
    BY <1>3
  <2>2. Ready' \subseteq Ready
    BY <1>0, <2>1, RemovalReadiesNothing DEF RemoveParked, Held
  <2>3. Counted'
    BY <2>1, <2>2, CountIsKept DEF RemoveParked, Awake, Waiting
  <2> QED BY <1>0, <2>1, <2>3 DEF RemoveParked, Signalled, AwakeAfterShutdown, Waiting
<1>4. CASE \E c \in Consumers : CallGet(c)
  <2>1. PICK c \in Consumers : CallGet(c)
    BY <1>4
  <2>2. Ready' = Ready /\ Awake \subseteq Awake' /\ Waiting' \subseteq Waiting
    BY <1>0, <2>1 DEF CallGet, Goto, queue, Ready, Awake, Waiting
  <2>3. Counted'
    BY <2>1, <2>2, CountIsKept DEF CallGet
  <2> QED BY <1>0, <2>1, <2>2, <2>3 DEF CallGet, queue, Signalled, AwakeAfterShutdown
<1>5. CASE \E c \in Consumers : LeaveLoop(c)
  <2>1. PICK c \in Consumers : LeaveLoop(c)
    BY <1>5
  <2>2. Ready' = Ready /\ Awake \subseteq Awake' /\ Waiting' \subseteq Waiting
    BY <1>0, <2>1 DEF LeaveLoop, Goto, queue, Ready, Awake, Waiting
  <2>3. Counted'
    BY <2>1, <2>2, CountIsKept DEF LeaveLoop
  <2> QED BY <1>0, <2>1, <2>2, <2>3 DEF LeaveLoop, queue, Signalled, AwakeAfterShutdown
<1>6. CASE \E c \in Consumers : GetMessage(c)
  BY <1>6, GetMessageKeepsCount
<1>7. CASE \E c \in Consumers : GetWait(c)
  <2>1. PICK c \in Consumers : GetWait(c)
    BY <1>7
  <2>2. Ready' = {} /\ ~shuttingDown' /\ ~ctxDone' /\ signalling' = signalling
    BY <2>1 DEF GetWait, Ready, queue
  <2>3. Awake' \in SUBSET Consumers
    BY DEF Awake
  <2>4. /\ Cardinality(Ready') = 0 /\ Cardinality(Awake') \in Nat
        /\ Cardinality(signalling') \in Nat
    BY <1>0, <2>2, <2>3, ConsumersFinite, FS_EmptySet, FS_Subset, FS_CardinalityType
  <2> QED BY <1>0, <2>2, <2>4 DEF Signalled, AwakeAfterShutdown, Counted
<1>8. CASE \E c \in Consumers : GetFail(c)
  <2>1. PICK c \in Consumers : GetFail(c)
    BY <1>8
  <2>2. Waiting = {} /\ Waiting' = {}
    BY <1>0, <2>1 DEF GetFail, Goto, AwakeAfterShutdown, Waiting
  <2> QED BY <1>0, <2>1, <2>2 DEF GetFail, queue, Signalled, AwakeAfterShutdown, Counted
<1>9. CASE \E c \in Consumers : RemoveCurrent(c)
  <2>1. PICK c \in Consumers : RemoveCurrent(c)
    BY <1>9
  <2>2. Ready' \subseteq Ready
    BY <1>0, <2>1, HandledMessage, RemovalReadiesNothing DEF RemoveCurrent, Goto
  <2>3. Awake' = Awake /\ Waiting' = Waiting
    BY <1>0, <2>1 DEF RemoveCurrent, Goto, Awake, Waiting
  <2>4. Counted'
    BY <2>1, <2>2, <2>3, CountIsKept DEF RemoveCurrent
  <2> QED BY <1>0, <2>1, <2>3, <2>4 DEF RemoveCurrent, Signalled, AwakeAfterShutdown
<1>10. CASE \E c \in Consumers : Requeue(c)
  BY <1>10, RequeueKeepsCount
<1>11. CASE \E c \in Consumers : RequeueSignal(c)
  BY <1>11, RequeueSignalKeepsCount
<1>12. CASE \E c \in Consumers : Park(c)
  <2>1. PICK c \in Consumers : Park(c)
    BY <1>12
  <2>2. Ready' = Ready /\ Awake' = Awake /\ Waiting' = Waiting
    BY <1>0, <2>1 DEF Park, Goto, queue, Ready, Awake, Waiting
  <2>3. Counted'
    BY <2>1, <2>2, CountIsKept DEF Park
  <2> QED BY <1>0, <2>1, <2>2, <2>3 DEF Park, queue, Signalled, AwakeAfterShutdown
<1>13. CASE Shutdown
  <2>1. Waiting' = {}
    BY <1>13 DEF Shutdown, Waiting
  <2> QED BY <1>0, <1>13, <2>1 DEF Shutdown, Signalled, AwakeAfterShutdown, Counted
<1>14. CASE Cancel
  <2>1. Ready' = Ready /\ Awake' = Awake /\ Waiting' = Waiting
    BY <1>14 DEF Cancel, queue, Ready, Awake, Waiting
  <2>2. Counted'
    BY <1>14, <2>1, CountIsKept DEF Cancel
  <2> QED BY <1>0, <1>14, <2>1, <2>2 DEF Cancel, queue, Signalled, AwakeAfterShutdown
<1>15. CASE Stopped \/ UNCHANGED vars
  BY <1>15 DEF Stopped, vars, queue, IInv, Signalled, AwakeAfterShutdown, Counted,
               Ready, Awake, Waiting
<1> QED BY <1>1, <1>2, <1>3, <1>4, <1>5, <1>6, <1>7, <1>8, <1>9, <1>10, <1>11,
           <1>12, <1>13, <1>14, <1>15 DEF Next, Step

LEMMA IInvInit == Init => IInv
<1> SUFFICES ASSUME Init PROVE IInv
  OBVIOUS
<1>1. Waiting = {}
  BY DEF Init, Waiting
<1> QED BY <1>1, OwnershipInit, FS_EmptySet DEF Init, IInv, Signalled, AwakeAfterShutdown, Counted

\* The inductive invariant holds in every reachable state.
THEOREM IInvHolds == Spec => []IInv
<1>1. IInv /\ [Next]_vars => IInv'
  BY OwnershipStep, SignalledStep DEF IInv
<1> QED BY <1>1, IInvInit, PTL DEF Spec

\* No wake-up is lost though Queue and Requeue signal after they have released
\* the mutex: while a consumer sleeps and a message is ready, a signal is under
\* way or another consumer is about to look.
THEOREM NoLostWakeupHolds == Spec => []NoLostWakeup
<1>1. ASSUME IInv PROVE NoLostWakeup
  <2> SUFFICES ASSUME Waiting # {}, Ready # {}, signalling = {}, Awake = {}
               PROVE  FALSE
    BY DEF NoLostWakeup
  <2>1. Cardinality(signalling) = 0 /\ Cardinality(Awake) = 0
    BY FS_EmptySet
  <2>2. Cardinality(Ready) \in Nat /\ Cardinality(Ready) # 0
    BY <1>1, CountsAreNumbers, FS_EmptySet DEF IInv, Signalled
  <2> QED BY <1>1, <2>1, <2>2 DEF IInv, Signalled, Counted
<1> QED BY <1>1, IInvHolds, PTL

-----------------------------------------------------------------------------
(* Steps: what they never do, and the promise they keep.                   *)

\* After Shutdown no step gives anybody a message.
THEOREM NothingTakenAfterShutdownHolds == Spec => NothingTakenAfterShutdown
<1>1. ASSUME IInv, [Next]_vars, shuttingDown, NEW m \in Messages, Held(m)', ~Held(m)
      PROVE  FALSE
  <2>1. /\ pc \in [Consumers -> PCs] /\ current \in [Consumers -> Messages \cup {Nil}]
        /\ Ownership
    BY <1>1 DEF IInv, Ownership, TypeOK
  <2>2. CASE \E n \in Messages : Queue(n) \/ QueueSignal(n) \/ RemoveParked(n)
    BY <1>1, <2>1, <2>2
       DEF Queue, QueueSignal, RemoveParked, Held, HeldBy, Waiting
  <2>3. CASE \E c \in Consumers : \/ CallGet(c) \/ LeaveLoop(c) \/ GetWait(c)
                                  \/ GetFail(c) \/ RequeueSignal(c)
    BY <1>1, <2>1, <2>3
       DEF CallGet, LeaveLoop, GetWait, GetFail, RequeueSignal, Goto, Held, HeldBy, Waiting
  <2>4. CASE \E c \in Consumers : RemoveCurrent(c) \/ Requeue(c)
    BY <1>1, <2>1, <2>4 DEF RemoveCurrent, Requeue, Goto, Held, HeldBy
  <2>5. CASE \E c \in Consumers : Park(c)
    <3>1. PICK c \in Consumers : Park(c)
      BY <2>5
    <3>2. pc[c] = "handling" /\ parked' = parked \cup {current[c]}
      BY <3>1 DEF Park, Goto
    <3>3. HeldBy(c, current[c])
      BY <3>2 DEF HeldBy
    <3> QED BY <1>1, <2>1, <3>1, <3>2, <3>3 DEF Park, Goto, Held, HeldBy
  <2>6. CASE \E c \in Consumers : GetMessage(c)
    BY <1>1, <2>6 DEF GetMessage
  <2>7. CASE Shutdown \/ Cancel \/ Stopped \/ UNCHANGED vars
    BY <1>1, <2>1, <2>7 DEF Shutdown, Cancel, Stopped, vars, Held, HeldBy, Waiting
  <2> QED BY <1>1, <2>2, <2>3, <2>4, <2>5, <2>6, <2>7 DEF Next, Step
<1>2. IInv /\ [Next]_vars
        => [shuttingDown => \A m \in Messages : Held(m)' => Held(m)]_vars
  BY <1>1
<1> QED BY <1>2, IInvHolds, PTL DEF Spec, NothingTakenAfterShutdown

\* What the slots hold.
LEMMA SlotsAre ==
  ASSUME Ownership
  PROVE  /\ Slots = {m \in Messages : InBuf(m)}
         /\ \A m \in Messages : InBuf(m) => idx[m] # 0
<1>1. \A i \in DOMAIN buf : i # 0 /\ buf[i] \in Slot
  BY SlotsAreIndexed DEF Ownership
<1>2. Slots = {m \in Messages : InBuf(m)}
  BY <1>1, NilIsNoMessage DEF Slots, InBuf, Slot
<1>3. ASSUME NEW m \in Messages, InBuf(m) PROVE idx[m] # 0
  BY <1>1, <1>3, NilIsNoMessage DEF InBuf, Ownership, Slotted
<1> QED BY <1>2, <1>3

\* A held message is in a slot.
LEMMA HeldIsInSlots ==
  ASSUME Ownership, NEW m \in Messages, Held(m)
  PROVE  m \in Slots /\ m \in pending /\ idx[m] # 0
<1>1. InBuf(m) /\ m \in pending
  BY DEF Ownership, SlotOwnership, HeldIsPending, InBuf
<1> QED BY <1>1, SlotsAre

\* Queue accepts a message.
LEMMA QueueAccepts ==
  ASSUME Ownership, Ownership', NEW m \in Messages, Queue(m)
  PROVE  Work!Accept(m)
<1>1. PICK i \in Nat \ {0} :
           /\ idx' = [idx EXCEPT ![m] = i]
           /\ i \in DOMAIN buf' /\ buf'[i] = m
           /\ i \in DOMAIN buf => buf[i] = Nil
           /\ DOMAIN buf \subseteq DOMAIN buf'
           /\ \A j \in DOMAIN buf' : j # i => j \in DOMAIN buf /\ buf'[j] = buf[j]
  BY PlaceFillsOneSlot DEF Queue, Ownership
<1>2. /\ m \notin pending /\ ~InBuf(m) /\ idx[m] = 0
      /\ idx \in [Messages -> Nat]
      /\ UNCHANGED <<pending, shuttingDown>>
  BY UnqueuedIsNotHeld DEF Queue, Ownership, TypeOK
<1>3. Slots' = Slots \cup {m}
  BY <1>1, NilIsNoMessage DEF Slots
<1>4. m \notin Slots
  BY <1>2, SlotsAre
<1>5. {n \in Messages : idx'[n] # 0} = {n \in Messages : idx[n] # 0} \cup {m}
  BY <1>1, <1>2
<1> QED BY <1>2, <1>3, <1>4, <1>5 DEF Work!Accept

\* Get takes one that is available.
LEMMA GetMessageTakes ==
  ASSUME Ownership, NEW c \in Consumers, GetMessage(c)
  PROVE  \E m \in Messages : Work!Take(m)
<1>1. PICK i \in Ready : pending' = pending \cup {buf[i]}
  BY DEF GetMessage
<1>2. PICK m \in Messages : m = buf[i] /\ i \in DOMAIN buf /\ m \notin pending
  BY SlotsAreIndexed DEF Ready, Slot, Ownership
<1>3. m \in Slots
  BY <1>2, NilIsNoMessage DEF Slots
<1>4. ~shuttingDown /\ UNCHANGED <<buf, idx, shuttingDown>> /\ Slots' = Slots
  BY DEF GetMessage, Slots
<1> QED BY <1>1, <1>2, <1>3, <1>4 DEF Work!Take

\* Remove settles the message it is given.
LEMMA RemoveSettles ==
  ASSUME Ownership, NEW m \in Messages, Held(m), Remove(m),
         UNCHANGED <<idx, pending, shuttingDown>>
  PROVE  Work!Settle(m)
<1>1. idx[m] \in DOMAIN buf /\ buf[idx[m]] = m
  BY DEF Ownership, SlotOwnership
<1>2. /\ DOMAIN buf' = DOMAIN buf
      /\ \A j \in DOMAIN buf : buf'[j] = IF j = idx[m] THEN Nil ELSE buf[j]
  BY <1>1, RemoveEmptiesOneSlot DEF Ownership
<1>3. \A j \in DOMAIN buf : buf[j] = m => j = idx[m]
  BY NilIsNoMessage DEF Ownership, Slotted
<1>4. Slots' = Slots \ {m}
  BY <1>1, <1>2, <1>3 DEF Slots
<1>5. m \in Slots /\ m \in pending /\ idx[m] # 0
  BY HeldIsInSlots
<1> QED BY <1>4, <1>5 DEF Work!Settle

\* Requeue releases it.
LEMMA RequeueReleases ==
  ASSUME Ownership, NEW c \in Consumers, Requeue(c)
  PROVE  \E m \in Messages : Work!Release(m)
<1>1. /\ pc[c] = "handling" /\ pending' = pending \ {current[c]}
      /\ UNCHANGED <<buf, idx, shuttingDown>>
  BY DEF Requeue, Goto
<1>2. current[c] \in Messages /\ Held(current[c])
  BY <1>1, HandledMessage
<1>3. current[c] \in Slots /\ current[c] \in pending
  BY <1>2, HeldIsInSlots
<1>4. Slots' = Slots
  BY <1>1 DEF Slots
<1> QED BY <1>1, <1>2, <1>3, <1>4 DEF Work!Release

LEMMA StepImplements ==
  IInv /\ IInv' /\ [Next]_vars => [Work!QueueNext]_(Work!queueVars)
<1> SUFFICES ASSUME IInv, IInv', [Next]_vars
             PROVE  Work!QueueNext \/ UNCHANGED Work!queueVars
  OBVIOUS
<1> USE DEF Work!QueueNext
<1>0. Ownership /\ Ownership'
  BY DEF IInv
<1>1. CASE \E m \in Messages : Queue(m)
  BY <1>0, <1>1, QueueAccepts
<1>2. CASE \E m \in Messages : RemoveParked(m)
  BY <1>0, <1>2, RemoveSettles DEF RemoveParked, Held
<1>3. CASE \E c \in Consumers : GetMessage(c)
  BY <1>0, <1>3, GetMessageTakes
<1>4. CASE \E c \in Consumers : RemoveCurrent(c)
  BY <1>0, <1>4, HandledMessage, RemoveSettles DEF RemoveCurrent, Goto
<1>5. CASE \E c \in Consumers : Requeue(c)
  BY <1>0, <1>5, RequeueReleases
<1>6. CASE Shutdown
  BY <1>6 DEF Shutdown, Slots, Work!Close
<1>7. CASE \/ \E m \in Messages : QueueSignal(m)
           \/ \E c \in Consumers : \/ CallGet(c) \/ LeaveLoop(c)
                                   \/ GetWait(c) \/ GetFail(c)
                                   \/ RequeueSignal(c) \/ Park(c)
           \/ Cancel \/ Stopped \/ UNCHANGED vars
  <2>1. UNCHANGED <<buf, idx, pending, shuttingDown>>
    BY <1>7 DEF QueueSignal, CallGet, LeaveLoop, GetWait, GetFail, RequeueSignal, Park,
                Cancel, Stopped, vars, queue
  <2> QED BY <2>1 DEF Slots, Work!queueVars
<1> QED BY <1>1, <1>2, <1>3, <1>4, <1>5, <1>6, <1>7 DEF Next, Step

\* The memory queue keeps the promise of WorkQueue: each message is accepted
\* once, given to one holder at a time, and settled only by its holder.
THEOREM MemoryQueueImplementsWorkQueue == Spec => ImplementsWorkQueue
<1>1. Init => Work!QueueInit
  BY DEF Init, Work!QueueInit, Slots
<1> QED BY <1>1, IInvHolds, StepImplements, PTL DEF Spec, ImplementsWorkQueue, Work!QueueSpec
=============================================================================
