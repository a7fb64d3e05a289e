----------------------------- MODULE PumpProofs -----------------------------
(***************************************************************************)
(* Proofs about Pump, for any messages, keys, rate, workers and            *)
(* configurations.                                                         *)
(*                                                                         *)
(* What the runs check is not inductive.  Places and SquasherInv say where  *)
(* messages can be before anybody takes them; Counting relates the counter  *)
(* of the wait group to the goroutines that will call Done; Starting and    *)
(* Stopping say in which order goroutines come and go.                     *)
(***************************************************************************)
EXTENDS Pump, SquasherProofs

\* A message is in the queue, handed out, or settled.
Places ==
  /\ available \cap taken = {}
  /\ available \cap settled = {}
  /\ taken \cap settled = {}

\* The workers that have yet to call Done.
Live == {w \in Workers : pc[w] \in {"loop", "get", "holding", "pushing", "backoff", "leaving"}}

\* The counter lacks one goroutine, the worker just started, until it is added.
Counting ==
  /\ panicked => serve = "add"
  /\ ~panicked =>
       wg = Cardinality(Live) + (IF sqCounted THEN 1 ELSE 0) - (IF serve = "add" THEN 1 ELSE 0)

\* No worker before there are clients, none to come when Serve waits, none left
\* when it has returned; and the squasher is counted until it has stopped.
Starting ==
  /\ serve \in {"clients", "failed"} =>
       (\A w \in Workers : pc[w] = "unborn") /\ InBatches = {} /\ sending = <<>>
  /\ serve \in {"wait", "returned"} => \A w \in Workers : pc[w] # "unborn"
  /\ serve = "returned" => Live = {} /\ ~sqCounted
  /\ ~sqCounted => sq = "stopped"

Gone == {w \in Workers : pc[w] \in {"leaving", "notify", "exited"}}

\* With a queue in memory nobody leaves before the queue was shut down.
Stopping ==
  /\ closed \/ ctxDone => main # "serving"
  /\ main # "serving" => closed \/ Redis
  /\ ~closed /\ ~Redis => Gone = {} /\ ~stopReq /\ (Squashing => sq # "stopped")

IInv ==
  /\ TypeOK /\ SquasherInv
  /\ Places /\ Custody
  /\ Counting /\ Starting /\ Stopping

-----------------------------------------------------------------------------
(* The queue.                                                              *)

LEMMA QueueKeepsPlaces ==
  ASSUME Q!QueueTypeOK, Places, [Q!QueueNext]_queueVars
  PROVE  Q!QueueTypeOK' /\ Places'
BY DEF Q!QueueTypeOK, Places, Q!QueueNext, queueVars,
       Q!Accept, Q!Take, Q!Settle, Q!Release, Q!Close

LEMMA HandsInQueue ==
  ASSUME TypeOK, Custody
  PROVE  /\ taken \subseteq Messages
         /\ InHand \subseteq taken /\ InBatches \subseteq taken /\ ToSet(sending) \subseteq taken
         /\ InSquasher = InBatches \cup ToSet(sending)
         /\ InHand \cap InBatches = {} /\ InHand \cap ToSet(sending) = {}
         /\ \A w \in Holding : current[w] \in InHand /\ current[w] \in Messages
<1>1. InSquasher = InBatches \cup ToSet(sending)
  BY DEF InSquasher, InBatches, InBatch
<1> QED BY <1>1 DEF TypeOK, Custody, Q!QueueTypeOK, InHand

\* Whatever the pump does to its queue is an operation the queue offers.
LEMMA StepOfQueue ==
  ASSUME TypeOK, SquasherInv, Custody, [Next]_vars
  PROVE  [Q!QueueNext]_queueVars
<1>1. \A w \in Holding : current[w] \in Messages
  BY HandsInQueue
<1>2. ASSUME NEW w \in Workers, WorkerStep(w) \/ GetErrs(w)
      PROVE  [Q!QueueNext]_queueVars
  <2>1. CASE RemoveBad(w) \/ PushSettled(w) \/ PushTempFail(w)
    <3>1. w \in Holding
      BY <2>1 DEF RemoveBad, PushSettled, PushTempFail, Goto, Holding
    <3> QED BY <1>1, <2>1, <3>1 DEF RemoveBad, PushSettled, PushTempFail, Q!QueueNext
  <2>2. CASE Get(w)
    BY <2>2 DEF Get, Q!QueueNext
  <2>3. CASE \/ EnterLoop(w) \/ GetFails(w) \/ PushDirectly(w) \/ LeaveToSquasher(w)
             \/ RequeueFails(w) \/ BackoffOver(w) \/ Leave(w) \/ Notify(w) \/ GetErrs(w)
    BY <2>3 DEF EnterLoop, GetFails, PushDirectly, LeaveToSquasher, RequeueFails,
                BackoffOver, Leave, Notify, GetErrs
  <2> QED BY <1>2, <2>1, <2>2, <2>3 DEF WorkerStep
<1>3. CASE BatchRemoval
  <2>1. sending # <<>> /\ sending \in Seq(Messages)
    BY <1>3 DEF BatchRemoval, RemoveSquashed, SquasherInv, Loaded, SquasherTypeOK
  <2>2. Head(sending) \in Messages
    BY <2>1, HeadTailProperties
  <2> QED BY <1>3, <2>2 DEF BatchRemoval, Q!QueueNext
<1>4. CASE \E m \in Messages : Accept(m)
  BY <1>4 DEF Accept, Q!QueueNext
<1>5. CASE CloseQueue
  BY <1>5 DEF CloseQueue, Q!QueueNext
<1>6. CASE \/ ServeStep \/ BatchStep \/ SquasherDone \/ Cancel \/ Join \/ Clock
           \/ Crashed \/ UNCHANGED vars
  BY <1>6 DEF ServeStep, NewClients, Spawn, CountWorker, WaitOver, BatchStep, SquasherDone,
              Cancel, Join, Clock, Crashed, vars
<1> QED BY <1>2, <1>3, <1>4, <1>5, <1>6 DEF Next, Running, SquasherRuns

-----------------------------------------------------------------------------
(* The squasher.                                                           *)

\* Whatever the pump does to its squasher is one of the squasher's steps, and a
\* message is squashed that the squasher does not have.
LEMMA StepOfSquasher ==
  ASSUME TypeOK, Custody, [Next]_vars
  PROVE  SquasherStep
<1>1. \A w \in Holding : current[w] \in Messages \ (InBatches \cup ToSet(sending))
  BY HandsInQueue
<1>2. ASSUME NEW w \in Workers, WorkerStep(w) \/ GetErrs(w)
      PROVE  SquasherStep
  <2>1. CASE PushDirectly(w) \/ LeaveToSquasher(w)
    <3>1. w \in Holding
      BY <2>1 DEF PushDirectly, LeaveToSquasher, Goto, Holding
    <3> QED BY <1>1, <2>1, <3>1 DEF PushDirectly, LeaveToSquasher, SquasherStep
  <2>2. CASE Notify(w)
    BY <2>2 DEF Notify, SquasherStep
  <2>3. CASE \/ EnterLoop(w) \/ Get(w) \/ GetFails(w) \/ RemoveBad(w) \/ PushSettled(w)
             \/ PushTempFail(w) \/ RequeueFails(w) \/ BackoffOver(w) \/ Leave(w) \/ GetErrs(w)
    BY <2>3 DEF EnterLoop, Get, GetFails, RemoveBad, PushSettled, PushTempFail,
                RequeueFails, BackoffOver, Leave, GetErrs, SquasherStep
  <2> QED BY <1>2, <2>1, <2>2, <2>3 DEF WorkerStep
<1>3. CASE BatchStep \/ BatchRemoval \/ Clock
  BY <1>3 DEF BatchStep, BatchRemoval, Clock, SquasherStep
<1>4. CASE \/ ServeStep \/ SquasherDone \/ CloseQueue \/ Cancel \/ Join
           \/ (\E m \in Messages : Accept(m)) \/ Crashed \/ UNCHANGED vars
  BY <1>4 DEF ServeStep, NewClients, Spawn, CountWorker, WaitOver, SquasherDone, CloseQueue,
              Cancel, Join, Accept, Crashed, vars, SquasherStep
<1> QED BY <1>2, <1>3, <1>4 DEF Next, Running, SquasherRuns
-----------------------------------------------------------------------------
(* Types.                                                                  *)

LEMMA CountDownTypes ==
  ASSUME wg \in Nat, panicked \in BOOLEAN, CountDown
  PROVE  wg' \in Nat /\ panicked' \in BOOLEAN
<1>1. wg' \in Nat
  BY DEF CountDown
<1>2. panicked' = panicked \/ panicked' = TRUE
  BY DEF CountDown
<1> QED BY <1>1, <1>2

\* What a worker's step does to what is the worker's.
LEMMA WorkerTypes ==
  ASSUME TypeOK, NEW w \in Workers, WorkerStep(w) \/ GetErrs(w)
  PROVE  /\ pc' \in [Workers -> PCs]
         /\ current' \in [Workers -> Messages \cup {Nil}]
         /\ wg' \in Nat /\ panicked' \in BOOLEAN
         /\ UNCHANGED <<config, serve, sqCounted, main, ctxDone>>
<1>1. /\ pc \in [Workers -> PCs] /\ current \in [Workers -> Messages \cup {Nil}]
      /\ wg \in Nat /\ panicked \in BOOLEAN
  BY DEF TypeOK
<1>2. \E q \in PCs : pc' = [pc EXCEPT ![w] = q]
  BY DEF WorkerStep, EnterLoop, Get, GetFails, GetErrs, RemoveBad, PushDirectly,
         LeaveToSquasher, PushSettled, PushTempFail, RequeueFails, BackoffOver, Leave,
         Notify, Goto, PCs
<1>3. \/ UNCHANGED current
      \/ \E m \in Messages \cup {Nil} : current' = [current EXCEPT ![w] = m]
  BY DEF WorkerStep, EnterLoop, Get, GetFails, GetErrs, RemoveBad, PushDirectly,
         LeaveToSquasher, PushSettled, PushTempFail, RequeueFails, BackoffOver, Leave,
         Notify, LetGo
<1>4. \/ UNCHANGED lifeVars
      \/ CountDown /\ UNCHANGED <<config, serve, sqCounted, main, ctxDone>>
  BY DEF WorkerStep, EnterLoop, Get, GetFails, GetErrs, RemoveBad, PushDirectly,
         LeaveToSquasher, PushSettled, PushTempFail, RequeueFails, BackoffOver, Leave,
         Notify
<1>5. wg' \in Nat /\ panicked' \in BOOLEAN /\ UNCHANGED <<config, serve, sqCounted, main, ctxDone>>
  BY <1>1, <1>4, CountDownTypes DEF lifeVars
<1>6. pc' \in [Workers -> PCs]
  BY <1>1, <1>2
<1>7. current' \in [Workers -> Messages \cup {Nil}]
  BY <1>1, <1>3
<1> QED BY <1>5, <1>6, <1>7

LEMMA StepKeepsTypes ==
  ASSUME TypeOK, SquasherInv, Custody, Places, [Next]_vars
  PROVE  TypeOK' /\ SquasherInv' /\ Places'
<1>1. SquasherInv' /\ SquasherTypeOK'
  <2>1. SquasherInv'
    BY StepOfSquasher, SquasherInvStep
  <2> QED BY <2>1 DEF SquasherInv
<1>2. Q!QueueTypeOK' /\ Places'
  BY StepOfQueue, QueueKeepsPlaces DEF TypeOK
<1>3. /\ config \in Configs /\ pc \in [Workers -> PCs]
      /\ current \in [Workers -> Messages \cup {Nil}]
      /\ serve \in ServePCs /\ wg \in Nat /\ sqCounted \in BOOLEAN /\ main \in MainPCs
      /\ ctxDone \in BOOLEAN /\ panicked \in BOOLEAN
  BY DEF TypeOK
<1> DEFINE Rest == /\ config \in Configs /\ pc \in [Workers -> PCs]
                   /\ current \in [Workers -> Messages \cup {Nil}]
                   /\ serve \in ServePCs /\ wg \in Nat /\ sqCounted \in BOOLEAN
                   /\ main \in MainPCs /\ ctxDone \in BOOLEAN /\ panicked \in BOOLEAN
<1>4. Rest'
  <2>1. CASE \E w \in Workers : WorkerStep(w) \/ GetErrs(w)
    BY <1>3, <2>1, WorkerTypes
  <2>2. CASE \E w \in Workers : Spawn(w)
    <3>1. PICK w \in Workers : pc' = [pc EXCEPT ![w] = "loop"] /\ serve' = "add"
      BY <2>2 DEF Spawn, Goto
    <3>2. pc' \in [Workers -> PCs]
      BY <1>3, <3>1 DEF PCs
    <3> QED BY <1>3, <2>2, <3>1, <3>2 DEF Spawn, ServePCs
  <2>3. CASE NewClients \/ CountWorker \/ WaitOver
    BY <1>3, <2>3 DEF NewClients, CountWorker, WaitOver, workVars, ServePCs
  <2>4. CASE SquasherDone
    BY <1>3, <2>4, CountDownTypes DEF SquasherDone, workVars
  <2>5. CASE \/ BatchStep \/ BatchRemoval \/ Clock \/ Crashed \/ UNCHANGED vars
             \/ \E m \in Messages : Accept(m)
    BY <1>3, <2>5 DEF BatchStep, BatchRemoval, Clock, Crashed, Accept, vars, workVars, lifeVars
  <2>6. CASE CloseQueue \/ Cancel \/ Join
    BY <1>3, <2>6 DEF CloseQueue, Cancel, Join, workVars, MainPCs
  <2> QED BY <2>1, <2>2, <2>3, <2>4, <2>5, <2>6 DEF Next, Running, ServeStep, SquasherRuns
<1> QED BY <1>1, <1>2, <1>4 DEF TypeOK

-----------------------------------------------------------------------------
(* Who holds what.                                                         *)

Unshared == \A v, w \in Holding : current[v] = current[w] => v = w

\* A worker that moves, but neither gets a message nor gives one up.
LEMMA HandsKept ==
  ASSUME TypeOK, UNCHANGED current, NEW w \in Workers, NEW from, NEW to,
         Goto(w, from, to),
         from \in {"holding", "pushing"} <=> to \in {"holding", "pushing"}
  PROVE  Holding' = Holding /\ InHand' = InHand
<1>1. Holding' = Holding
  BY DEF TypeOK, Goto, Holding
<1> QED BY <1>1 DEF InHand

LEMMA HandsGet ==
  ASSUME TypeOK, Unshared, NEW w \in Workers, NEW m \in Messages \ InHand,
         Goto(w, "get", "holding"), current' = [current EXCEPT ![w] = m]
  PROVE  InHand' = InHand \cup {m} /\ Unshared'
<1>1. Holding' = Holding \cup {w} /\ w \notin Holding
  BY DEF TypeOK, Goto, Holding
<1>2. \A v \in Holding' : current'[v] = IF v = w THEN m ELSE current[v]
  BY DEF TypeOK, Holding
<1>3. InHand' = {current'[v] : v \in Holding'}
  BY DEF InHand
<1>4. InHand' = InHand \cup {m}
  BY <1>1, <1>2, <1>3 DEF InHand
<1>5. \A v \in Holding : current[v] \in InHand
  BY DEF InHand
<1> QED BY <1>1, <1>2, <1>4, <1>5 DEF Unshared

LEMMA HandsLetGo ==
  ASSUME TypeOK, Unshared, NEW w \in Workers, NEW from \in {"holding", "pushing"}, NEW to,
         to \notin {"holding", "pushing"}, Goto(w, from, to), LetGo(w)
  PROVE  InHand' = InHand \ {current[w]} /\ Unshared' /\ w \in Holding
<1>1. Holding' = Holding \ {w} /\ w \in Holding
  BY DEF TypeOK, Goto, Holding
<1>2. \A v \in Holding' : current'[v] = current[v]
  BY <1>1 DEF TypeOK, LetGo, Holding
<1>3. InHand' = {current'[v] : v \in Holding'}
  BY DEF InHand
<1>4. InHand' = InHand \ {current[w]}
  BY <1>1, <1>2, <1>3 DEF InHand, Unshared
<1> QED BY <1>1, <1>2, <1>4 DEF Unshared

LEMMA InSquasherIs == InSquasher = InBatches \cup ToSet(sending)
BY DEF InSquasher, InBatches, InBatch

\* Nobody gives a message up or takes one.
LEMMA CustodyKept ==
  ASSUME Custody, UNCHANGED <<taken, batches, sending, config>>,
         InHand' = InHand, Holding' = Holding, UNCHANGED current
  PROVE  Custody'
BY DEF Custody, InSquasher, InBatch, Redis

LEMMA GetKeepsCustody ==
  ASSUME TypeOK, Places, Custody, NEW w \in Workers, Get(w)
  PROVE  Custody'
<1>1. PICK m \in Messages : Q!Take(m) /\ current' = [current EXCEPT ![w] = m]
  BY DEF Get
<1>2. m \notin taken
  BY <1>1 DEF Q!Take, Places
<1>3. m \notin InHand /\ m \notin InSquasher /\ Unshared
  BY <1>2 DEF Custody, Unshared
<1>4. InHand' = InHand \cup {m} /\ Unshared'
  BY <1>1, <1>3, HandsGet DEF Get
<1>5. InSquasher' = InSquasher /\ Redis' = Redis
  BY DEF Get, sqVars, rateVars, lifeVars, InSquasher, InBatch, Redis
<1>6. taken' = taken \cup {m}
  BY <1>1 DEF Q!Take
<1> QED BY <1>3, <1>4, <1>5, <1>6 DEF Custody, Unshared

\* A worker gives its message up: to the queue, to the squasher, or to nobody.
LEMMA LetGoKeepsCustody ==
  ASSUME TypeOK, SquasherInv, Custody, NEW w \in Workers,
         RemoveBad(w) \/ PushSettled(w) \/ PushTempFail(w) \/ RequeueFails(w) \/ LeaveToSquasher(w)
  PROVE  /\ Custody'
         /\ w \in Holding /\ InHand' = InHand \ {current[w]}
<1>1. Unshared
  BY DEF Custody, Unshared
<1>2. InHand' = InHand \ {current[w]} /\ Unshared' /\ w \in Holding
  <2>1. /\ LetGo(w)
        /\ \E from \in {"holding", "pushing"} : \E to \in {"loop", "backoff"} : Goto(w, from, to)
    BY DEF RemoveBad, PushSettled, PushTempFail, RequeueFails, LeaveToSquasher
  <2>2. PICK from \in {"holding", "pushing"}, to \in {"loop", "backoff"} : Goto(w, from, to)
    BY <2>1
  <2> QED BY <1>1, <2>1, <2>2, HandsLetGo
<1>3. current[w] \in InHand /\ current[w] \in Messages /\ current[w] \notin InSquasher
  BY <1>2, HandsInQueue DEF Custody
<1>4. Redis' = Redis
  BY DEF RemoveBad, PushSettled, PushTempFail, RequeueFails, LeaveToSquasher, lifeVars, Redis
<1>5. CASE RemoveBad(w) \/ PushSettled(w) \/ PushTempFail(w)
  <2>1. InSquasher' = InSquasher
    BY <1>5 DEF RemoveBad, PushSettled, PushTempFail, sqVars, rateVars, InSquasher, InBatch
  <2>2. taken' = taken \ {current[w]}
    BY <1>5 DEF RemoveBad, PushSettled, PushTempFail, Q!Settle, Q!Release
  <2> QED BY <1>2, <1>3, <1>4, <2>1, <2>2 DEF Custody, Unshared
<1>6. CASE RequeueFails(w)
  <2>1. InSquasher' = InSquasher /\ taken' = taken /\ Redis
    BY <1>6 DEF RequeueFails, sqVars, rateVars, queueVars, InSquasher, InBatch
  <2> QED BY <1>2, <1>3, <1>4, <2>1 DEF Custody, Unshared
<1>7. CASE LeaveToSquasher(w)
  <2>1. Squash(current[w]) /\ taken' = taken
    BY <1>7 DEF LeaveToSquasher, queueVars
  <2>2. InBatches' = InBatches \cup {current[w]} /\ sending' = sending
    BY <1>3, <2>1, SquashMoves DEF SquasherInv, SquasherTypeOK, BatchTypes
  <2>3. InSquasher' = InSquasher \cup {current[w]}
    <3>1. InSquasher' = InBatches' \cup ToSet(sending')
      BY DEF InSquasher, InBatches, InBatch
    <3> QED BY <2>2, <3>1, InSquasherIs
  <2> QED BY <1>2, <1>3, <1>4, <2>1, <2>3 DEF Custody, Unshared
<1> QED BY <1>2, <1>5, <1>6, <1>7

\* The squasher takes a batch whole, and settles its messages one by one.
LEMMA TakeBatchKeepsCustody ==
  ASSUME TypeOK, SquasherInv, Custody, NEW k \in Keys, TakeBatch(k),
         UNCHANGED <<queueVars, workVars, lifeVars>>
  PROVE  Custody' /\ sending = <<>>
<1>1. sending = <<>>
  BY DEF TakeBatch, Choosing, SquasherInv, Loaded
<1>2. /\ ToSet(sending') = ToSet(batches[k]) /\ ToSet(batches[k]) \subseteq InBatches
      /\ InBatches' = InBatches \ ToSet(batches[k])
  BY TakeBatchMoves DEF SquasherInv, SquasherTypeOK, BatchTypes
<1>3. InSquasher' = InSquasher
  <2>1. InSquasher' = InBatches' \cup ToSet(sending')
    BY DEF InSquasher, InBatches, InBatch
  <2>2. ToSet(sending) = {}
    BY <1>1, ElementsOf, EmptySeq
  <2> QED BY <1>2, <2>1, <2>2, InSquasherIs
<1> QED BY <1>1, <1>3 DEF Custody, queueVars, workVars, lifeVars, InHand, Holding, Redis

LEMMA BatchRemovalKeepsCustody ==
  ASSUME TypeOK, SquasherInv, Custody, BatchRemoval
  PROVE  /\ Custody'
         /\ Head(sending) \in ToSet(sending)
         /\ ToSet(sending') = ToSet(sending) \ {Head(sending)}
         /\ InBatches' = InBatches
<1>1. sending # <<>> /\ RemoveSquashed
  BY DEF BatchRemoval, RemoveSquashed, SquasherInv, Loaded
<1>2. /\ Head(sending) \in ToSet(sending)
      /\ ToSet(sending') = ToSet(sending) \ {Head(sending)}
      /\ InBatches' = InBatches
      /\ InBatches \cap ToSet(sending) = {}
  BY <1>1, RemoveSquashedMoves DEF SquasherInv, SquasherTypeOK, BatchTypes, BatchesApart
<1>3. InSquasher' = InSquasher \ {Head(sending)}
  <2>1. InSquasher' = InBatches' \cup ToSet(sending')
    BY DEF InSquasher, InBatches, InBatch
  <2> QED BY <1>2, <2>1, InSquasherIs
<1>4. taken' = taken \ {Head(sending)} /\ InHand' = InHand /\ Redis' = Redis
  BY DEF BatchRemoval, Q!Settle, workVars, lifeVars, InHand, Holding, Redis
<1>5. Head(sending) \in InSquasher
  BY <1>2, InSquasherIs
<1>6. Unshared' /\ InHand \cap InSquasher = {}
  BY DEF BatchRemoval, workVars, Custody, Unshared, Holding
<1> QED BY <1>2, <1>3, <1>4, <1>5, <1>6 DEF Custody, Unshared

LEMMA StepKeepsCustody ==
  ASSUME TypeOK, SquasherInv, Places, Custody, [Next]_vars
  PROVE  Custody'
<1>1. ASSUME NEW w \in Workers, WorkerStep(w) \/ GetErrs(w)
      PROVE  Custody'
  <2>1. CASE Get(w)
    BY <2>1, GetKeepsCustody
  <2>2. CASE RemoveBad(w) \/ PushSettled(w) \/ PushTempFail(w) \/ RequeueFails(w)
             \/ LeaveToSquasher(w)
    BY <2>2, LetGoKeepsCustody
  <2>3. CASE \/ EnterLoop(w) \/ GetFails(w) \/ GetErrs(w) \/ PushDirectly(w)
             \/ BackoffOver(w) \/ Leave(w) \/ Notify(w)
    <3>1. UNCHANGED <<taken, batches, sending, config, current>>
      BY <2>3 DEF EnterLoop, GetFails, GetErrs, PushDirectly, BackoffOver, Leave, Notify,
                  PushNow, RequestShutdown, sqVars, rateVars, queueVars, lifeVars
    <3>2. \E from, to \in PCs :
            Goto(w, from, to) /\ (from \in {"holding", "pushing"} <=> to \in {"holding", "pushing"})
      BY <2>3 DEF EnterLoop, GetFails, GetErrs, PushDirectly, BackoffOver, Leave, Notify, PCs
    <3> QED BY <3>1, <3>2, HandsKept, CustodyKept
  <2> QED BY <1>1, <2>1, <2>2, <2>3 DEF WorkerStep
<1>2. CASE BatchStep
  <2>1. CASE \E k \in Keys : TakeBatch(k)
    BY <1>2, <2>1, TakeBatchKeepsCustody DEF BatchStep
  <2>2. CASE WaitForBatch \/ Stop \/ Nap \/ WakeUp \/ RecordBatch \/ SendBatch
    <3>1. UNCHANGED <<taken, batches, sending, config, pc, current>>
      BY <1>2, <2>2 DEF BatchStep, WaitForBatch, Stop, Nap, WakeUp, RecordBatch, SendBatch,
                        rateVars, queueVars, workVars, lifeVars
    <3> QED BY <3>1, CustodyKept DEF InHand, Holding
  <2> QED BY <1>2, <2>1, <2>2 DEF BatchStep
<1>3. CASE BatchRemoval
  BY <1>3, BatchRemovalKeepsCustody
<1>4. CASE \E w \in Workers : Spawn(w)
  <2>1. PICK w \in Workers : Spawn(w)
    BY <1>4
  <2>2. UNCHANGED <<taken, batches, sending, config, current>> /\ Goto(w, "unborn", "loop")
    BY <2>1 DEF Spawn, sqVars, rateVars, queueVars
  <2> QED BY <2>2, HandsKept, CustodyKept
<1>5. CASE \/ NewClients \/ CountWorker \/ WaitOver \/ SquasherDone \/ CloseQueue \/ Cancel
           \/ Join \/ (\E m \in Messages : Accept(m)) \/ Clock \/ Crashed \/ UNCHANGED vars
  <2>1. UNCHANGED <<taken, batches, sending, config, pc, current>>
    BY <1>5 DEF NewClients, CountWorker, WaitOver, SquasherDone, CloseQueue, Cancel, Join,
                Accept, Clock, Tick, Crashed, vars, sqVars, rateVars, queueVars, workVars,
                lifeVars, Q!Accept, Q!Close
  <2> QED BY <2>1, CustodyKept DEF InHand, Holding
<1> QED BY <1>1, <1>2, <1>3, <1>4, <1>5 DEF Next, Running, ServeStep, SquasherRuns

-----------------------------------------------------------------------------
(* The wait group.                                                         *)

Alive == {"loop", "get", "holding", "pushing", "backoff", "leaving"}

LEMMA LiveCounts ==
  /\ IsFiniteSet(Live) /\ Cardinality(Live) \in Nat
  /\ Live # {} => Cardinality(Live) > 0
<1>1. IsFiniteSet(Live)
  BY PumpAssumption, FS_Subset DEF Live
<1> QED BY <1>1, FS_CardinalityType, FS_EmptySet

LEMMA LiveMoves ==
  ASSUME TypeOK, NEW w \in Workers, NEW from, NEW to, Goto(w, from, to)
  PROVE  /\ (from \in Alive <=> to \in Alive) => Live' = Live
         /\ from \notin Alive /\ to \in Alive =>
              Live' # {} /\ Cardinality(Live') = Cardinality(Live) + 1
         /\ from \in Alive /\ to \notin Alive =>
              Live # {} /\ Cardinality(Live') = Cardinality(Live) - 1
<1>1. (from \in Alive <=> to \in Alive) => Live' = Live
  BY DEF TypeOK, Goto, Live, Alive
<1>2. from \notin Alive /\ to \in Alive => w \notin Live /\ Live' = Live \cup {w}
  BY DEF TypeOK, Goto, Live, Alive
<1>3. from \in Alive /\ to \notin Alive => w \in Live /\ Live' = Live \ {w}
  BY DEF TypeOK, Goto, Live, Alive
<1> QED BY <1>1, <1>2, <1>3, LiveCounts, FS_AddElement, FS_RemoveElement

\* Done panics only when the counter lacks a worker that was just started.
LEMMA CountDownCounts ==
  ASSUME NEW n \in Nat, NEW m \in Nat, n + m > 0, wg \in Nat, ~panicked, CountDown,
         wg = n + m - (IF serve = "add" THEN 1 ELSE 0)
  PROVE  /\ panicked' => serve = "add"
         /\ ~panicked' => wg' = n + m - 1 - (IF serve = "add" THEN 1 ELSE 0)
<1>1. CASE wg > 0
  BY <1>1 DEF CountDown
<1>2. CASE wg = 0
  <2>1. serve = "add" /\ panicked'
    BY <1>2 DEF CountDown
  <2> QED BY <2>1
<1> QED BY <1>1, <1>2

LEMMA StepKeepsCounting ==
  ASSUME TypeOK, Counting, [Next]_vars
  PROVE  Counting'
<1> DEFINE S == IF sqCounted THEN 1 ELSE 0
<1>0. Cardinality(Live) \in Nat /\ S \in Nat /\ wg \in Nat
  BY LiveCounts DEF TypeOK
<1>1. CASE Crashed \/ UNCHANGED vars
  BY <1>1 DEF Crashed, vars, workVars, lifeVars, Counting, Live
<1>2. CASE \E w \in Workers : Leave(w)
  <2>1. PICK w \in Workers : Leave(w)
    BY <1>2
  <2>2. /\ CountDown /\ UNCHANGED <<serve, sqCounted>>
        /\ \E to \in {"notify", "exited"} : Goto(w, "leaving", to)
    BY <2>1 DEF Leave
  <2>3. Live # {} /\ Cardinality(Live') = Cardinality(Live) - 1
    BY <2>2, LiveMoves DEF Alive
  <2>4. Cardinality(Live) + S > 0
    BY <1>0, <2>3, LiveCounts
  <2>5. CASE panicked
    BY <2>2, <2>5 DEF Counting, CountDown
  <2>6. CASE ~panicked
    <3>1. /\ panicked' => serve = "add"
          /\ ~panicked' => wg' = Cardinality(Live) + S - 1 - (IF serve = "add" THEN 1 ELSE 0)
      BY <1>0, <2>2, <2>4, <2>6, CountDownCounts DEF Counting
    <3> QED BY <1>0, <2>2, <2>3, <3>1 DEF Counting
  <2> QED BY <2>5, <2>6
<1>3. CASE SquasherDone
  <2>1. CountDown /\ UNCHANGED <<serve, pc>> /\ S = 1 /\ sqCounted' = FALSE
    BY <1>3 DEF SquasherDone, workVars
  <2>2. Live' = Live
    BY <2>1 DEF Live
  <2>3. CASE panicked
    BY <2>1, <2>3 DEF Counting, CountDown
  <2>4. CASE ~panicked
    <3>1. /\ panicked' => serve = "add"
          /\ ~panicked' => wg' = Cardinality(Live) + S - 1 - (IF serve = "add" THEN 1 ELSE 0)
      BY <1>0, <2>1, <2>4, CountDownCounts DEF Counting
    <3> QED BY <1>0, <2>1, <2>2, <3>1 DEF Counting
  <2> QED BY <2>3, <2>4
<1>4. CASE \E w \in Workers : ~panicked /\ (WorkerStep(w) \/ GetErrs(w)) /\ ~Leave(w)
  <2>1. PICK w \in Workers : ~panicked /\ (WorkerStep(w) \/ GetErrs(w)) /\ ~Leave(w)
    BY <1>4
  <2>2. \E from, to : Goto(w, from, to) /\ (from \in Alive <=> to \in Alive)
    BY <2>1 DEF WorkerStep, EnterLoop, Get, GetFails, GetErrs, RemoveBad, PushDirectly,
                LeaveToSquasher, PushSettled, PushTempFail, RequeueFails, BackoffOver,
                Notify, Alive
  <2>3. UNCHANGED lifeVars
    BY <2>1 DEF WorkerStep, EnterLoop, Get, GetFails, GetErrs, RemoveBad, PushDirectly,
                LeaveToSquasher, PushSettled, PushTempFail, RequeueFails, BackoffOver, Notify
  <2>4. Live' = Live
    BY <2>2, LiveMoves
  <2> QED BY <2>3, <2>4 DEF Counting, lifeVars
<1>5. CASE ~panicked /\ \E w \in Workers : Spawn(w)
  <2>1. PICK w \in Workers : Spawn(w)
    BY <1>5
  <2>2. Cardinality(Live') = Cardinality(Live) + 1
    BY <2>1, LiveMoves DEF Spawn, Alive
  <2>3. serve = "spawn" /\ serve' = "add" /\ UNCHANGED <<wg, sqCounted, panicked>>
    BY <2>1 DEF Spawn
  <2> QED BY <1>0, <1>5, <2>2, <2>3 DEF Counting
<1>6. CASE ~panicked /\ CountWorker
  <2>1. /\ serve = "add" /\ serve' # "add" /\ wg' = wg + 1
        /\ UNCHANGED <<pc, sqCounted, panicked>>
    BY <1>6 DEF CountWorker, workVars
  <2>2. Live' = Live
    BY <2>1 DEF Live
  <2> QED BY <1>0, <1>6, <2>1, <2>2 DEF Counting
<1>7. CASE ~panicked /\ (NewClients \/ WaitOver)
  <2>1. serve # "add" /\ serve' # "add" /\ UNCHANGED <<wg, pc, sqCounted, panicked>>
    BY <1>7 DEF NewClients, WaitOver, workVars
  <2>2. Live' = Live
    BY <2>1 DEF Live
  <2> QED BY <1>7, <2>1, <2>2 DEF Counting
<1>8. CASE \/ BatchStep \/ BatchRemoval \/ CloseQueue \/ Cancel \/ Join \/ Clock
           \/ \E m \in Messages : Accept(m)
  <2>1. UNCHANGED <<wg, serve, pc, sqCounted, panicked>>
    BY <1>8 DEF BatchStep, BatchRemoval, CloseQueue, Cancel, Join, Clock, Accept, workVars, lifeVars
  <2> QED BY <2>1 DEF Counting, Live
<1> QED BY <1>1, <1>2, <1>3, <1>4, <1>5, <1>6, <1>7, <1>8
    DEF Next, Running, ServeStep, SquasherRuns

-----------------------------------------------------------------------------
(* The beginning and the end.                                              *)

\* Serve waits only when all workers have been started, and it returns only when
\* all of them, and the squasher, have called Done.
LEMMA ReturnsLast ==
  ASSUME TypeOK, Counting, ~panicked, WaitOver
  PROVE  Live = {} /\ ~sqCounted
<1>1. Cardinality(Live) + (IF sqCounted THEN 1 ELSE 0) = 0
  BY LiveCounts DEF WaitOver, Counting
<1>2. Cardinality(Live) = 0 /\ ~sqCounted
  BY <1>1, LiveCounts
<1> QED BY <1>2, LiveCounts

LEMMA StoppedStays ==
  ASSUME SquasherStep, sq = "stopped"
  PROVE  sq' = "stopped"
BY DEF SquasherStep, PushNow, Squash, TakeBatch, RequestShutdown, WaitForBatch, Stop, Nap,
       WakeUp, RecordBatch, SendBatch, RemoveSquashed, Tick, Choosing, Signal, sqVars

\* A batch can be taken only where a message was squashed.
LEMMA NothingToTake ==
  ASSUME SquasherTypeOK, InBatches = {}, NEW k \in Keys
  PROVE  ~TakeBatch(k)
<1>1. batches[k] \in Seq(Messages) /\ \A m \in Messages : m \notin ToSet(batches[k])
  BY DEF SquasherTypeOK, InBatches
<1>2. batches[k] = <<>>
  BY <1>1, ElementsOf
<1> QED BY <1>2 DEF TakeBatch, DueFirst, Batched

LEMMA StepKeepsStarting ==
  ASSUME TypeOK, SquasherInv, Custody, Counting, Starting, [Next]_vars
  PROVE  Starting'
<1>0. sq = "stopped" => sq' = "stopped"
  BY StepOfSquasher, StoppedStays
<1>1. ASSUME NEW w \in Workers, WorkerStep(w) \/ GetErrs(w)
      PROVE  Starting'
  <2>1. /\ UNCHANGED <<serve, sqCounted>>
        /\ \E from, to \in PCs \ {"unborn"} :
             Goto(w, from, to) /\ (from \notin Alive => to \notin Alive)
    BY <1>1 DEF WorkerStep, EnterLoop, Get, GetFails, GetErrs, RemoveBad, PushDirectly,
                LeaveToSquasher, PushSettled, PushTempFail, RequeueFails, BackoffOver, Leave,
                Notify, PCs, Alive, lifeVars
  <2>2. PICK from \in PCs \ {"unborn"}, to \in PCs \ {"unborn"} :
          Goto(w, from, to) /\ (from \notin Alive => to \notin Alive)
    BY <2>1
  <2>3. serve \notin {"clients", "failed"}
    BY <2>2 DEF Starting, Goto
  <2>4. (\A v \in Workers : pc[v] # "unborn") => \A v \in Workers : pc'[v] # "unborn"
    BY <2>2 DEF TypeOK, Goto
  <2>5. Live = {} => Live' = {}
    BY <2>2 DEF TypeOK, Goto, Live, Alive
  <2> QED BY <1>0, <2>1, <2>3, <2>4, <2>5 DEF Starting
<1>2. CASE NewClients
  BY <1>2 DEF NewClients, Starting, sqVars, rateVars, workVars, InBatches
<1>3. CASE \E w \in Workers : Spawn(w)
  BY <1>0, <1>3 DEF Spawn, Starting
<1>4. CASE CountWorker
  BY <1>0, <1>4 DEF CountWorker, Starting, workVars
<1>5. CASE ~panicked /\ WaitOver
  <2>1. Live = {} /\ ~sqCounted
    BY <1>5, ReturnsLast
  <2> QED BY <1>0, <1>5, <2>1 DEF WaitOver, Starting, workVars, Live
<1>6. CASE BatchStep
  <2>1. UNCHANGED <<serve, pc, sqCounted>>
    BY <1>6 DEF BatchStep, workVars, lifeVars
  <2>2. CASE InBatches = {}
    <3>1. UNCHANGED <<batches, sending>>
      BY <1>6, <2>2, NothingToTake
      DEF BatchStep, SquasherInv, WaitForBatch, Stop, Nap, WakeUp, RecordBatch, SendBatch, rateVars
    <3> QED BY <1>0, <2>1, <3>1 DEF Starting, InBatches, Live
  <2>3. CASE InBatches # {}
    BY <1>0, <2>1, <2>3 DEF Starting, Live
  <2> QED BY <2>2, <2>3
<1>7. CASE BatchRemoval
  <2>1. sending # <<>> /\ UNCHANGED <<serve, pc, sqCounted>>
    BY <1>7 DEF BatchRemoval, RemoveSquashed, SquasherInv, Loaded, workVars, lifeVars
  <2> QED BY <1>0, <2>1 DEF Starting, Live
<1>8. CASE SquasherDone
  BY <1>8 DEF SquasherDone, Starting, sqVars, rateVars, workVars, InBatches, Live
<1>9. CASE \/ CloseQueue \/ Cancel \/ Join \/ Clock \/ Crashed \/ UNCHANGED vars
           \/ \E m \in Messages : Accept(m)
  <2>1. UNCHANGED <<serve, pc, sqCounted, batches, sending>>
    BY <1>9 DEF CloseQueue, Cancel, Join, Clock, Tick, Crashed, Accept, vars, sqVars, rateVars,
                workVars, lifeVars
  <2> QED BY <1>0, <2>1 DEF Starting, InBatches, Live
<1> QED BY <1>1, <1>2, <1>3, <1>4, <1>5, <1>6, <1>7, <1>8, <1>9
    DEF Next, Running, ServeStep, SquasherRuns

\* A worker leaves, and the squasher with it, only when the queue has been shut
\* down or the context is cancelled; and those are done in this order.
LEMMA StepKeepsStopping ==
  ASSUME TypeOK, Stopping, [Next]_vars
  PROVE  Stopping'
<1>1. ASSUME NEW w \in Workers, WorkerStep(w) \/ GetErrs(w)
      PROVE  Stopping'
  <2>1. UNCHANGED <<config, main, ctxDone, closed>>
    BY <1>1 DEF WorkerStep, EnterLoop, Get, GetFails, GetErrs, RemoveBad, PushDirectly,
                LeaveToSquasher, PushSettled, PushTempFail, RequeueFails, BackoffOver, Leave,
                Notify, lifeVars, queueVars, Q!Take, Q!Settle, Q!Release
  <2>2. ASSUME ~closed, ~Redis
        PROVE  Gone' = {} /\ ~stopReq' /\ (Squashing => sq' # "stopped")
    <3>1. Gone = {} /\ ~stopReq /\ (Squashing => sq # "stopped") /\ ~ctxDone
      BY <2>2 DEF Stopping
    <3>2. \E to \in PCs \ {"leaving", "notify", "exited"} : pc' = [pc EXCEPT ![w] = to]
      BY <1>1, <2>2, <3>1
      DEF WorkerStep, EnterLoop, Get, GetFails, GetErrs, RemoveBad, PushDirectly,
          LeaveToSquasher, PushSettled, PushTempFail, RequeueFails, BackoffOver, Leave,
          Notify, Goto, PCs, Gone
    <3>3. Gone' = {}
      BY <3>1, <3>2 DEF TypeOK, Gone
    <3>4. UNCHANGED stopReq /\ (sq' = sq \/ sq' = "woken")
      BY <1>1, <3>1
      DEF WorkerStep, EnterLoop, Get, GetFails, GetErrs, RemoveBad, PushDirectly,
          LeaveToSquasher, PushSettled, PushTempFail, RequeueFails, BackoffOver, Leave,
          Notify, Goto, Gone, sqVars, PushNow, Squash, Signal
    <3> QED BY <3>1, <3>3, <3>4
  <2> QED BY <2>1, <2>2 DEF Stopping, Redis, Squashing
<1>2. CASE BatchStep \/ BatchRemoval
  <2>1. UNCHANGED <<config, main, ctxDone, closed, pc, stopReq>>
    BY <1>2 DEF BatchStep, BatchRemoval, WaitForBatch, Stop, Nap, WakeUp, TakeBatch, RecordBatch,
                SendBatch, RemoveSquashed, Q!Settle, workVars, lifeVars, queueVars
  <2>2. sq' = "stopped" => stopReq
    BY <1>2 DEF BatchStep, BatchRemoval, WaitForBatch, Stop, Nap, WakeUp, TakeBatch, RecordBatch,
                SendBatch, RemoveSquashed
  <2> QED BY <2>1, <2>2 DEF Stopping, Redis, Squashing, Gone
<1>3. CASE CloseQueue
  <2>1. /\ main' = "closed" /\ UNCHANGED <<config, pc, ctxDone>>
        /\ UNCHANGED <<stopReq, sq>>
        /\ IF Redis THEN UNCHANGED closed ELSE closed' = TRUE
    BY <1>3 DEF CloseQueue, Q!Close, queueVars, workVars, sqVars
  <2> QED BY <2>1 DEF Stopping, Redis, Squashing, Gone
<1>4. CASE Cancel \/ Join
  <2>1. /\ main # "serving" /\ main' # "serving" /\ UNCHANGED <<config, pc, closed, stopReq, sq>>
    BY <1>4 DEF Cancel, Join, queueVars, workVars, sqVars
  <2> QED BY <2>1 DEF Stopping, Redis, Squashing, Gone
<1>5. CASE \E w \in Workers : Spawn(w)
  <2>1. PICK w \in Workers : pc' = [pc EXCEPT ![w] = "loop"]
    BY <1>5 DEF Spawn, Goto
  <2>2. UNCHANGED <<config, main, ctxDone, closed, stopReq, sq>>
    BY <1>5 DEF Spawn, queueVars, sqVars
  <2>3. Gone = {} => Gone' = {}
    BY <2>1 DEF TypeOK, Gone
  <2> QED BY <2>2, <2>3 DEF Stopping, Redis, Squashing
<1>6. CASE \/ NewClients \/ CountWorker \/ WaitOver \/ SquasherDone \/ Clock \/ Crashed
           \/ UNCHANGED vars \/ \E m \in Messages : Accept(m)
  <2>1. UNCHANGED <<config, main, ctxDone, closed, pc, stopReq, sq>>
    BY <1>6 DEF NewClients, CountWorker, WaitOver, SquasherDone, Clock, Tick, Crashed, Accept,
                Q!Accept, vars, queueVars, workVars, lifeVars, sqVars
  <2> QED BY <2>1 DEF Stopping, Redis, Squashing, Gone
<1> QED BY <1>1, <1>2, <1>3, <1>4, <1>5, <1>6 DEF Next, Running, ServeStep, SquasherRuns

-----------------------------------------------------------------------------
(* The theorems.                                                           *)

LEMMA InitHolds ==
  ASSUME Init
  PROVE  IInv
<1>1. SquasherInv
  BY SquasherInvInit DEF Init
<1>2. config \in [squashing : BOOLEAN, redis : BOOLEAN, bad : SUBSET Messages]
  BY PumpAssumption DEF Init
<1>3. TypeOK
  <2>1. pc \in [Workers -> PCs] /\ current \in [Workers -> Messages \cup {Nil}]
    BY DEF Init, PCs
  <2>2. wg \in Nat
    BY DEF Init
  <2>3. sqCounted \in BOOLEAN
    BY <1>2 DEF Init, Squashing
  <2>4. Q!QueueTypeOK
    BY DEF Init, Q!QueueInit, Q!QueueTypeOK
  <2> QED BY <1>1, <2>1, <2>2, <2>3, <2>4 DEF Init, TypeOK, SquasherInv, ServePCs, MainPCs
<1>4. InBatches = {} /\ sending = <<>> /\ ToSet(sending) = {}
  <2>1. ToSet(<<>>) = {}
    BY DEF ToSet
  <2> QED BY <2>1 DEF Init, SquasherInit, InBatches
<1>5. Holding = {} /\ Live = {} /\ Gone = {} /\ \A w \in Workers : pc[w] = "unborn"
  BY DEF Init, Holding, Live, Gone
<1>6. Custody
  <2>1. InSquasher = {} /\ InHand = {}
    BY <1>4, <1>5, InSquasherIs DEF InHand
  <2> QED BY <1>5, <2>1 DEF Init, Q!QueueInit, Custody
<1>7. Counting
  <2>1. Cardinality(Live) = 0
    BY <1>5, FS_EmptySet
  <2>2. wg = IF sqCounted THEN 1 ELSE 0
    BY DEF Init
  <2>3. serve # "add" /\ ~panicked
    BY DEF Init
  <2> QED BY <2>1, <2>2, <2>3 DEF Counting
<1>8. Starting
  BY <1>4, <1>5 DEF Init, Starting
<1>9. Stopping /\ Places
  BY <1>5 DEF Init, SquasherInit, Q!QueueInit, Stopping, Places
<1> QED BY <1>1, <1>3, <1>6, <1>7, <1>8, <1>9 DEF IInv

LEMMA StepHolds ==
  ASSUME IInv, [Next]_vars
  PROVE  IInv'
BY StepKeepsTypes, StepKeepsCustody, StepKeepsCounting, StepKeepsStarting, StepKeepsStopping
   DEF IInv

THEOREM IInvHolds == Spec => []IInv
BY InitHolds, StepHolds, PTL DEF Spec

\* Every variable keeps its type; the wait group's counter is never negative.
THEOREM TypeOKHolds == Spec => []TypeOK
<1>1. IInv => TypeOK
  BY DEF IInv
<1> QED BY <1>1, IInvHolds, PTL

\* Each message the queue has handed out is with exactly one worker, in exactly
\* one batch or on its way out with the squasher (Get, Remove and Requeue in
\* serveClient and sendBatch), however many workers there are.
THEOREM CustodyHolds == Spec => []Custody
<1>1. IInv => Custody
  BY DEF IInv
<1> QED BY <1>1, IInvHolds, PTL

\* wg.Done can panic only between the start of a worker's goroutine in Serve and
\* the wg.Add(1) that comes after it.
THEOREM PanicOnlyWhileStartingHolds == Spec => []PanicOnlyWhileStarting
<1>1. IInv => PanicOnlyWhileStarting
  BY DEF IInv, Counting, PanicOnlyWhileStarting
<1> QED BY <1>1, IInvHolds, PTL

\* With a queue in memory the squasher's serve does not return while the server
\* serves: its batches are not left unsent.
THEOREM UnsentOnlyAfterShutdownHolds == Spec => []UnsentOnlyAfterShutdown
<1>1. IInv => UnsentOnlyAfterShutdown
  BY DEF IInv, Stopping, UnsentOnlyAfterShutdown
<1> QED BY <1>1, IInvHolds, PTL

\* getNextBatch goes on after its one cond.Wait only to a batch or to a request
\* to stop, so that it never sends an empty batch.
THEOREM WokenForAReasonHolds == Spec => []WokenForAReason
<1>1. IInv => WokenForAReason
  BY DEF IInv, SquasherInv
<1> QED BY <1>1, IInvHolds, PTL

-----------------------------------------------------------------------------
(* The contract of the pump.                                               *)

\* The contract's variables, as Contract substitutes them.
Busy   == InHand \cup ToSet(sending)
Parked == {m \in Messages : InBatch(m)}
Lost   == taken \ (InHand \cup InSquasher)
State  == CASE serve = "clients" -> "starting"
            [] serve \in {"spawn", "add", "wait"} -> "running"
            [] serve \in {"returned", "failed"} -> "over"

LEMMA Abstraction ==
  /\ Parked = InBatches
  /\ InSquasher = InBatches \cup ToSet(sending)
  /\ serve = "clients" => State = "starting"
  /\ serve \in {"spawn", "add", "wait"} => State = "running"
  /\ serve \in {"returned", "failed"} => State = "over"
BY InSquasherIs DEF Parked, InBatches, InBatch, State

\* Nobody has a message before the clients are there nor after Serve returned.
LEMMA BusyWhileRunning ==
  ASSUME IInv
  PROVE  /\ Busy # {} => State = "running"
         /\ sq # "stopped" /\ InBatches # {} => State = "running"
<1>1. ASSUME serve \in {"clients", "failed"} PROVE Busy = {} /\ InBatches = {}
  <2>1. Holding = {} /\ InBatches = {} /\ sending = <<>>
    BY <1>1 DEF IInv, Starting, Holding
  <2>2. ToSet(<<>>) = {}
    BY DEF ToSet
  <2> QED BY <2>1, <2>2 DEF Busy, InHand
<1>2. ASSUME serve = "returned" PROVE Busy = {} /\ sq = "stopped"
  <2>1. Live = {} /\ sq = "stopped"
    BY <1>2 DEF IInv, Starting
  <2>2. Holding = {} /\ sending = <<>>
    BY <2>1 DEF IInv, SquasherInv, Loaded, Live, Holding
  <2>3. ToSet(<<>>) = {}
    BY DEF ToSet
  <2> QED BY <2>1, <2>2, <2>3 DEF Busy, InHand
<1>3. serve \in {"clients", "spawn", "add", "wait", "returned", "failed"}
  BY DEF IInv, TypeOK, ServePCs
<1> QED BY <1>1, <1>2, <1>3, Abstraction

\* A step that moves no message, and changes neither queue nor Serve.
LEMMA Stutters ==
  ASSUME UNCHANGED <<config, available, taken, settled, closed, serve, batches, sending>>,
         InHand' = InHand
  PROVE  UNCHANGED Contract!contractVars
<1>1. UNCHANGED <<Busy, Parked, Lost, State, Redis>>
  BY DEF Busy, Parked, Lost, State, Redis, InSquasher, InBatch
<1> QED BY <1>1 DEF Contract!contractVars, Contract!places, Busy, Parked, Lost, State

LEMMA GetTakes ==
  ASSUME IInv, NEW w \in Workers, Get(w)
  PROVE  Contract!ContractNext
<1>1. PICK m \in Messages : Q!Take(m) /\ current' = [current EXCEPT ![w] = m]
  BY DEF Get
<1>2. TypeOK /\ Unshared /\ m \notin taken /\ m \notin InHand /\ m \notin InSquasher
  BY <1>1 DEF IInv, Q!Take, Places, Custody, Unshared
<1>3. InHand' = InHand \cup {m} /\ taken' = taken \cup {m}
  BY <1>1, <1>2, HandsGet DEF Get, Q!Take
<1>4. UNCHANGED <<batches, sending, serve, config, settled, closed>>
  BY <1>1 DEF Get, sqVars, rateVars, lifeVars, Q!Take
<1>5. UNCHANGED <<InSquasher, Parked, State, Redis>>
  BY <1>4 DEF InSquasher, Parked, InBatch, State, Redis
<1>6. Busy' = Busy \cup {m} /\ Lost' = Lost
  BY <1>2, <1>3, <1>4, <1>5 DEF Busy, Lost
<1>7. State = "running"
  <2>1. Live # {}
    BY DEF Get, Goto, Live
  <2>2. serve \notin {"clients", "failed", "returned"}
    BY <2>1 DEF Get, Goto, IInv, Starting
  <2> QED BY <2>2, Abstraction DEF IInv, TypeOK, ServePCs
<1>8. Contract!Take(m)
  BY <1>1, <1>4, <1>5, <1>6, <1>7 DEF Q!Take, Contract!Take, Busy, Parked, Lost, State
<1> QED BY <1>8 DEF Contract!ContractNext

LEMMA LetGoIsAllowed ==
  ASSUME IInv, NEW w \in Workers,
         RemoveBad(w) \/ PushSettled(w) \/ PushTempFail(w) \/ RequeueFails(w) \/ LeaveToSquasher(w)
  PROVE  Contract!ContractNext
<1> DEFINE m == current[w]
<1>1. TypeOK /\ SquasherInv /\ Custody
  BY DEF IInv
<1>2. w \in Holding /\ InHand' = InHand \ {m}
  BY <1>1, LetGoKeepsCustody
<1>3. m \in Messages /\ m \in InHand /\ m \in taken /\ m \notin InSquasher
      /\ m \notin ToSet(sending)
  BY <1>1, <1>2, HandsInQueue DEF Custody
<1>4. UNCHANGED <<serve, config, closed, State, Redis, sending>> /\ State = "running"
  <2>1. UNCHANGED <<serve, config, closed, sending>>
    BY DEF RemoveBad, PushSettled, PushTempFail, RequeueFails, LeaveToSquasher, Squash, lifeVars,
           queueVars, sqVars, Q!Settle, Q!Release
  <2> QED BY <1>3, <2>1, BusyWhileRunning DEF Busy, State, Redis
<1>5. Busy' = Busy \ {m}
  BY <1>2, <1>3, <1>4 DEF Busy
<1>6. CASE RemoveBad(w) \/ PushSettled(w) \/ PushTempFail(w)
  <2>1. UNCHANGED <<Parked, InSquasher>>
    BY <1>6 DEF RemoveBad, PushSettled, PushTempFail, sqVars, rateVars, InSquasher, Parked, InBatch
  <2>2. Q!Settle(m) \/ Q!Release(m)
    BY <1>6 DEF RemoveBad, PushSettled, PushTempFail
  <2>3. Lost' = Lost
    BY <1>2, <1>3, <2>1, <2>2 DEF Lost, Q!Settle, Q!Release
  <2>4. Contract!Settle(m) \/ Contract!Release(m)
    BY <1>3, <1>4, <1>5, <2>1, <2>2, <2>3
    DEF Q!Settle, Q!Release, Contract!Settle, Contract!Release, Busy, Parked, Lost, State
  <2> QED BY <1>3, <2>4 DEF Contract!ContractNext
<1>7. CASE RequeueFails(w)
  <2>1. UNCHANGED <<Parked, InSquasher, taken, available, settled>> /\ Redis
    BY <1>7 DEF RequeueFails, sqVars, rateVars, queueVars, InSquasher, Parked, InBatch
  <2>2. Lost' = Lost \cup {m}
    BY <1>2, <1>3, <2>1 DEF Lost
  <2>3. Contract!Lose(m)
    BY <1>3, <1>4, <1>5, <2>1, <2>2 DEF Contract!Lose, Busy, Parked, Lost, State
  <2> QED BY <1>3, <2>3 DEF Contract!ContractNext
<1>8. CASE LeaveToSquasher(w)
  <2>1. Squash(m) /\ UNCHANGED <<taken, available, settled>>
    BY <1>8 DEF LeaveToSquasher, queueVars
  <2>2. InBatches' = InBatches \cup {m}
    BY <1>1, <1>3, <2>1, SquashMoves DEF SquasherInv, SquasherTypeOK, BatchTypes
  <2>3. Parked' = Parked \cup {m} /\ InSquasher' = InSquasher \cup {m}
    <3>1. InSquasher' = InBatches' \cup ToSet(sending') /\ Parked' = InBatches'
      BY DEF InSquasher, InBatches, InBatch, Parked
    <3> QED BY <1>4, <2>2, <3>1, Abstraction
  <2>4. Lost' = Lost
    BY <1>2, <1>3, <2>1, <2>3 DEF Lost
  <2>5. Contract!Park(m)
    BY <1>3, <1>4, <1>5, <2>1, <2>3, <2>4 DEF Contract!Park, Busy, Parked, Lost, State
  <2> QED BY <1>3, <2>5 DEF Contract!ContractNext
<1> QED BY <1>6, <1>7, <1>8

LEMMA TakeBatchUnparks ==
  ASSUME IInv, NEW k \in Keys, TakeBatch(k), UNCHANGED <<queueVars, workVars, lifeVars>>
  PROVE  Contract!ContractNext
<1> DEFINE batch == ToSet(batches[k])
<1>1. sending = <<>> /\ ToSet(sending) = {} /\ sq # "stopped"
  <2>1. ToSet(<<>>) = {}
    BY DEF ToSet
  <2> QED BY <2>1 DEF IInv, TakeBatch, Choosing, SquasherInv, Loaded
<1>2. ToSet(sending') = batch /\ batch \subseteq InBatches /\ InBatches' = InBatches \ batch
  BY TakeBatchMoves DEF IInv, SquasherInv, SquasherTypeOK, BatchTypes
<1>3. UNCHANGED <<InHand, taken, available, settled, closed, State, Redis>>
  BY DEF queueVars, workVars, lifeVars, InHand, Holding, State, Redis
<1>4. Parked' = Parked \ batch /\ Busy' = Busy \cup batch /\ Lost' = Lost
  <2>1. InSquasher' = InBatches' \cup ToSet(sending') /\ Parked' = InBatches'
    BY DEF InSquasher, InBatches, InBatch, Parked
  <2> QED BY <1>1, <1>2, <1>3, <2>1, Abstraction DEF Busy, Lost
<1>5. State = "running"
  <2>1. InBatches # {}
    BY NothingToTake DEF IInv, SquasherInv
  <2> QED BY <1>1, <2>1, BusyWhileRunning
<1>6. batch \in SUBSET Parked
  BY <1>2, Abstraction
<1>7. Contract!Unpark(batch)
  BY <1>3, <1>4, <1>5 DEF Contract!Unpark, Busy, Parked, Lost, State
<1> QED BY <1>6, <1>7 DEF Contract!ContractNext, Parked

LEMMA BatchRemovalSettles ==
  ASSUME IInv, BatchRemoval
  PROVE  Contract!ContractNext
<1> DEFINE m == Head(sending)
<1>1. /\ m \in ToSet(sending) /\ ToSet(sending') = ToSet(sending) \ {m}
      /\ InBatches' = InBatches
  BY BatchRemovalKeepsCustody DEF IInv
<1>2. m \in Messages /\ m \in taken /\ m \notin InHand /\ m \notin InBatches
  BY <1>1, HandsInQueue DEF IInv, SquasherInv, BatchesApart
<1>3. Q!Settle(m) /\ UNCHANGED <<InHand, State, Redis>>
  BY DEF BatchRemoval, workVars, lifeVars, InHand, Holding, State, Redis
<1>4. Busy' = Busy \ {m} /\ Parked' = Parked /\ Lost' = Lost
  <2>1. InSquasher' = InBatches' \cup ToSet(sending') /\ Parked' = InBatches'
    BY DEF InSquasher, InBatches, InBatch, Parked
  <2> QED BY <1>1, <1>2, <1>3, <2>1, Abstraction DEF Busy, Lost, Q!Settle
<1>5. State = "running" /\ m \in Busy
  BY <1>1, BusyWhileRunning DEF Busy
<1>6. Contract!Settle(m)
  BY <1>3, <1>4, <1>5 DEF Q!Settle, Contract!Settle, Busy, Parked, Lost, State
<1> QED BY <1>2, <1>6 DEF Contract!ContractNext

\* Serve returns when nobody is busy, and when a worker has left: after the queue
\* was shut down, or with Redis.
LEMMA WaitOverReturns ==
  ASSUME IInv, ~panicked, WaitOver
  PROVE  Contract!ContractNext
<1>1. Live = {} /\ ~sqCounted
  BY ReturnsLast DEF IInv
<1>2. Busy = {}
  <2>1. Holding = {} /\ sending = <<>>
    BY <1>1 DEF Live, Holding, IInv, Starting, SquasherInv, Loaded
  <2>2. ToSet(<<>>) = {}
    BY DEF ToSet
  <2> QED BY <2>1, <2>2 DEF Busy, InHand
<1>3. closed \/ Redis
  <2>1. PICK w \in Workers : TRUE
    BY PumpAssumption
  <2>2. pc[w] # "unborn" /\ w \notin Live
    BY <1>1 DEF WaitOver, IInv, Starting
  <2>3. w \in Gone
    BY <2>2 DEF IInv, TypeOK, PCs, Live, Gone
  <2> QED BY <2>3 DEF IInv, Stopping
<1>4. UNCHANGED <<Busy, Parked, Lost, Redis, available, settled, closed>>
  BY DEF WaitOver, sqVars, rateVars, queueVars, workVars, Busy, Parked, Lost, Redis, InHand,
         Holding, InSquasher, InBatch
<1>5. State = "running" /\ State' = "over"
  BY DEF WaitOver, State
<1>6. Contract!Return
  BY <1>2, <1>3, <1>4, <1>5 DEF Contract!Return, Contract!places, Busy, Parked, Lost, State
<1> QED BY <1>6 DEF Contract!ContractNext

LEMMA StepImplements ==
  ASSUME IInv, [Next]_vars
  PROVE  [Contract!ContractNext]_(Contract!contractVars)
<1>0. TypeOK
  BY DEF IInv
<1>1. ASSUME NEW w \in Workers, WorkerStep(w) \/ GetErrs(w)
      PROVE  [Contract!ContractNext]_(Contract!contractVars)
  <2>1. CASE Get(w)
    BY <2>1, GetTakes
  <2>2. CASE RemoveBad(w) \/ PushSettled(w) \/ PushTempFail(w) \/ RequeueFails(w)
             \/ LeaveToSquasher(w)
    BY <2>2, LetGoIsAllowed
  <2>3. CASE \/ EnterLoop(w) \/ GetFails(w) \/ GetErrs(w) \/ PushDirectly(w)
             \/ BackoffOver(w) \/ Leave(w) \/ Notify(w)
    <3>1. UNCHANGED <<config, available, taken, settled, closed, serve, batches, sending, current>>
      BY <2>3 DEF EnterLoop, GetFails, GetErrs, PushDirectly, BackoffOver, Leave, Notify,
                  PushNow, RequestShutdown, sqVars, rateVars, queueVars, lifeVars
    <3>2. \E from, to \in PCs :
            Goto(w, from, to) /\ (from \in {"holding", "pushing"} <=> to \in {"holding", "pushing"})
      BY <2>3 DEF EnterLoop, GetFails, GetErrs, PushDirectly, BackoffOver, Leave, Notify, PCs
    <3>3. InHand' = InHand
      BY <1>0, <3>1, <3>2, HandsKept
    <3> QED BY <3>1, <3>3, Stutters
  <2> QED BY <1>1, <2>1, <2>2, <2>3 DEF WorkerStep
<1>2. CASE \E w \in Workers : Spawn(w)
  <2>1. PICK w \in Workers : Spawn(w)
    BY <1>2
  <2>2. UNCHANGED <<config, available, taken, settled, closed, batches, sending, current>>
        /\ Goto(w, "unborn", "loop") /\ serve = "spawn" /\ serve' = "add"
    BY <2>1 DEF Spawn, sqVars, rateVars, queueVars
  <2>3. InHand' = InHand
    BY <1>0, <2>2, HandsKept
  <2>4. UNCHANGED <<Busy, Parked, Lost, State, Redis>>
    BY <2>2, <2>3 DEF Busy, Parked, Lost, State, Redis, InSquasher, InBatch
  <2> QED BY <2>2, <2>4 DEF Contract!contractVars, Contract!places, Busy, Parked, Lost, State
<1>3. CASE NewClients \/ CountWorker
  <2>1. UNCHANGED <<Busy, Parked, Lost, Redis, available, settled, closed>>
    BY <1>3 DEF NewClients, CountWorker, sqVars, rateVars, queueVars, workVars, Busy, Parked,
                Lost, Redis, InHand, Holding, InSquasher, InBatch
  <2>2. CASE NewClients
    <3>1. State = "starting" /\ State' \in {"running", "over"}
      BY <2>2 DEF NewClients, State
    <3>2. Contract!Start
      BY <2>1, <3>1 DEF Contract!Start, Contract!places, Busy, Parked, Lost, State
    <3> QED BY <3>2 DEF Contract!ContractNext
  <2>3. CASE CountWorker
    <3>1. State = "running" /\ State' = "running"
      BY <2>3 DEF CountWorker, State
    <3> QED BY <2>1, <3>1 DEF Contract!contractVars, Contract!places, Busy, Parked, Lost, State
  <2> QED BY <1>3, <2>2, <2>3
<1>4. CASE ~panicked /\ WaitOver
  BY <1>4, WaitOverReturns
<1>5. CASE BatchStep
  <2>1. CASE \E k \in Keys : TakeBatch(k)
    BY <1>5, <2>1, TakeBatchUnparks DEF BatchStep
  <2>2. CASE WaitForBatch \/ Stop \/ Nap \/ WakeUp \/ RecordBatch \/ SendBatch
    <3>1. UNCHANGED <<config, available, taken, settled, closed, serve, batches, sending, pc, current>>
      BY <1>5, <2>2 DEF BatchStep, WaitForBatch, Stop, Nap, WakeUp, RecordBatch, SendBatch,
                        rateVars, queueVars, workVars, lifeVars
    <3> QED BY <3>1, Stutters DEF InHand, Holding
  <2> QED BY <1>5, <2>1, <2>2 DEF BatchStep
<1>6. CASE BatchRemoval
  BY <1>6, BatchRemovalSettles
<1>7. CASE \E m \in Messages : Accept(m)
  <2>1. PICK m \in Messages : Accept(m)
    BY <1>7
  <2>2. Q!Accept(m) /\ UNCHANGED <<sqVars, workVars, lifeVars>>
    BY <2>1 DEF Accept
  <2>3. UNCHANGED <<Busy, Parked, Lost, State, Redis>>
    BY <2>2 DEF Q!Accept, sqVars, rateVars, workVars, lifeVars, Busy, Parked, Lost, State, Redis,
                InHand, Holding, InSquasher, InBatch
  <2>4. m \notin Busy \cup Parked \cup Lost
    BY <2>2, HandsInQueue, Abstraction DEF IInv, Q!Accept, Busy, Lost
  <2>5. Contract!Accept(m)
    BY <2>2, <2>3, <2>4 DEF Q!Accept, Contract!Accept, Contract!Anywhere, Busy, Parked, Lost, State
  <2> QED BY <2>5 DEF Contract!ContractNext
<1>8. CASE CloseQueue
  <2>1. UNCHANGED <<Busy, Parked, Lost, State, Redis, available, settled>>
    BY <1>8 DEF CloseQueue, Q!Close, sqVars, rateVars, queueVars, workVars, Busy, Parked, Lost,
                State, Redis, InHand, Holding, InSquasher, InBatch
  <2>2. closed' = closed \/ Contract!Close
    BY <1>8, <2>1 DEF CloseQueue, Q!Close, queueVars, Contract!Close, Contract!places,
                      Busy, Parked, Lost, State
  <2> QED BY <2>1, <2>2 DEF Contract!ContractNext, Contract!contractVars, Contract!places,
                            Busy, Parked, Lost, State
<1>9. CASE SquasherDone \/ Cancel \/ Join \/ Clock \/ Crashed \/ UNCHANGED vars
  <2>1. UNCHANGED <<config, available, taken, settled, closed, serve, batches, sending, pc, current>>
    BY <1>9 DEF SquasherDone, Cancel, Join, Clock, Tick, Crashed, vars, sqVars, rateVars,
                queueVars, workVars, lifeVars
  <2> QED BY <2>1, Stutters DEF InHand, Holding
<1> QED BY <1>1, <1>2, <1>3, <1>4, <1>5, <1>6, <1>7, <1>8, <1>9
    DEF Next, Running, ServeStep, SquasherRuns

\* Serve, the workers it starts and the squasher, however they are scheduled, are
\* a pump as PumpContract says: each message is in one place, and Serve returns
\* only when nobody is busy and, but for Redis, only after the queue was shut down.
THEOREM PumpImplementsPumpContract == Spec => ImplementsPumpContract
<1>1. Init => Contract!ContractInit
  <2>1. SUFFICES ASSUME Init PROVE Contract!ContractInit
    OBVIOUS
  <2>2. Redis \in BOOLEAN
    BY <2>1, PumpAssumption DEF Init, Redis
  <2>3. Holding = {} /\ InBatches = {} /\ ToSet(sending) = {}
    <3>1. ToSet(<<>>) = {}
      BY DEF ToSet
    <3> QED BY <2>1, <3>1 DEF Init, SquasherInit, Holding, InBatches
  <2>4. Busy = {} /\ Parked = {} /\ Lost = {}
    BY <2>1, <2>3, Abstraction DEF Busy, InHand, Lost, Init, Q!QueueInit
  <2> QED BY <2>1, <2>2, <2>4, Abstraction
      DEF Init, Q!QueueInit, Contract!ContractInit, Busy, Parked, Lost, State
<1>2. IInv /\ [Next]_vars => [Contract!ContractNext]_(Contract!contractVars)
  BY StepImplements
<1> QED BY <1>1, <1>2, IInvHolds, PTL DEF Spec, ImplementsPumpContract, Contract!ContractSpec
=============================================================================
