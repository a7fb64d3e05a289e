---------------------------- MODULE MemoryQueue ----------------------------
(***************************************************************************)
(* The in-memory queue of internal/queue/memory: a slice of slots guarded  *)
(* by a mutex, and a condition variable on which Get waits.  Its clients   *)
(* are the HTTP handlers, which call Queue once per message, and the       *)
(* goroutines of pump.serveClient, which Get a message and then Remove it, *)
(* Requeue it, or leave it to a squasher that Removes it later.            *)
(*                                                                         *)
(* Every critical section is one step.  Queue and Requeue call             *)
(* cond.Signal after they have released the mutex, so the signal is a step *)
(* of its own and other goroutines may run in between.                     *)
(***************************************************************************)
EXTENDS Naturals, Sequences, FiniteSets

CONSTANTS
  Messages,   (* one memoryQueuedMessage per call of Queue *)
  Consumers,  (* the goroutines running serveClient        *)
  Nil         (* an empty slot, no message                 *)

ASSUME ConsumersFinite == IsFiniteSet(Consumers)
ASSUME NilIsNoMessage  == Nil \notin Messages

VARIABLES
  buf,           (* the slots, each Nil or a message                       *)
  idx,           (* the slot a message was put in, 0 before Queue is called *)
  pending,       (* messages whose pending flag is set                     *)
  shuttingDown,
  ctxDone,       (* the context given to Get is cancelled                  *)
  signalling,    (* messages whose Queue call still has to signal          *)
  pc,            (* where a consumer is                                    *)
  current,       (* the message a consumer is handling                     *)
  parked         (* squashed messages: kept pending until a batch is sent  *)

queue  == <<buf, idx, pending, shuttingDown>>
vars   == <<queue, ctxDone, signalling, pc, current, parked>>

\* "loop"      outside the queue, no message in hand
\* "get"       in Get, about to look at the slots (on entry, or woken)
\* "waiting"   in cond.Wait
\* "handling"  outside the queue, holding current[c]
\* "signal"    in Requeue, about to signal
\* "exited"    serveClient has returned
PCs == {"loop", "get", "waiting", "handling", "signal", "exited"}

Goto(c, from, to) ==
  /\ pc[c] = from
  /\ pc'   = [pc EXCEPT ![c] = to]

Free    == {i \in DOMAIN buf : buf[i] = Nil}
\* Faults are variants of a definition, as a slip in the code would make it;
\* with the variant in its place a property of the runs fails.  The first: the
\* search for a message does not skip the empty slots.
ReadyOrEmpty   == {i \in DOMAIN buf : buf[i] \notin pending}

\* Fault: the search starts at the second slot.
ReadyButFirst  == {i \in DOMAIN buf : i > 1 /\ buf[i] # Nil /\ buf[i] \notin pending}

Ready   == {i \in DOMAIN buf : buf[i] # Nil /\ buf[i] \notin pending}
Waiting == {c \in Consumers : pc[c] = "waiting"}
Awake   == {c \in Consumers : pc[c] \in {"get", "signal"}}

Lowest(i, S) == i \in S /\ \A j \in S : i <= j

Init ==
  /\ buf          = <<>>
  /\ idx          = [m \in Messages |-> 0]
  /\ pending      = {}
  /\ shuttingDown = FALSE
  /\ ctxDone      = FALSE
  /\ signalling   = {}
  /\ pc           = [c \in Consumers |-> "loop"]
  /\ current      = [c \in Consumers |-> Nil]
  /\ parked       = {}

-----------------------------------------------------------------------------
(* Queue and the signal that ends it.                                      *)

\* Fault: the first slot is taken for empty.
PlaceOver(m) ==
  \/ /\ buf # <<>>
     /\ buf' = [buf EXCEPT ![1] = m]
     /\ idx' = [idx EXCEPT ![m] = 1]
  \/ /\ buf = <<>>
     /\ buf' = Append(buf, m)
     /\ idx' = [idx EXCEPT ![m] = Len(buf) + 1]

\* Fault: the index of a slot added at the end is one too small.
PlaceOffByOne(m) ==
  \/ \E i \in Free :
       /\ Lowest(i, Free)
       /\ buf' = [buf EXCEPT ![i] = m]
       /\ idx' = [idx EXCEPT ![m] = i]
  \/ /\ Free = {}
     /\ buf' = Append(buf, m)
     /\ idx' = [idx EXCEPT ![m] = IF buf = <<>> THEN 1 ELSE Len(buf)]

\* The first empty slot, or one more slot at the end.
Place(m) ==
  \/ \E i \in Free :
       /\ Lowest(i, Free)
       /\ buf' = [buf EXCEPT ![i] = m]
       /\ idx' = [idx EXCEPT ![m] = i]
  \/ /\ Free = {}
     /\ buf' = Append(buf, m)
     /\ idx' = [idx EXCEPT ![m] = Len(buf) + 1]

Queue(m) ==
  /\ idx[m] = 0
  /\ Place(m)
  /\ signalling' = signalling \cup {m}
  /\ UNCHANGED <<pending, shuttingDown, ctxDone, pc, current, parked>>

QueueSignal(m) ==
  /\ m \in signalling
  /\ signalling' = signalling \ {m}
  /\ \/ \E c \in Waiting : pc' = [pc EXCEPT ![c] = "get"]
     \/ Waiting = {} /\ UNCHANGED pc
  /\ UNCHANGED <<queue, ctxDone, current, parked>>

-----------------------------------------------------------------------------
(* Get.                                                                    *)

\* The consumer's loop: enter Get, or leave when the context is cancelled.
CallGet(c) ==
  /\ ~ctxDone
  /\ Goto(c, "loop", "get")
  /\ UNCHANGED <<queue, ctxDone, signalling, current, parked>>

LeaveLoop(c) ==
  /\ ctxDone
  /\ Goto(c, "loop", "exited")
  /\ UNCHANGED <<queue, ctxDone, signalling, current, parked>>

\* Fault: the message is not marked.
GetUnmarked(c) ==
  /\ ~ctxDone /\ ~shuttingDown
  /\ Goto(c, "get", "handling")
  /\ \E i \in Ready :
       /\ Lowest(i, Ready)
       /\ current' = [current EXCEPT ![c] = buf[i]]
  /\ UNCHANGED <<queue, ctxDone, signalling, parked>>

GetMessage(c) ==
  /\ ~ctxDone /\ ~shuttingDown
  /\ Goto(c, "get", "handling")
  /\ \E i \in Ready :
       /\ Lowest(i, Ready)
       /\ pending' = pending \cup {buf[i]}
       /\ current' = [current EXCEPT ![c] = buf[i]]
  /\ UNCHANGED <<buf, idx, shuttingDown, ctxDone, signalling, parked>>

GetWait(c) ==
  /\ ~ctxDone /\ ~shuttingDown
  /\ Ready = {}
  /\ Goto(c, "get", "waiting")
  /\ UNCHANGED <<queue, ctxDone, signalling, current, parked>>

\* Get returns an error, on which serveClient returns.
GetFail(c) ==
  /\ ctxDone \/ shuttingDown
  /\ Goto(c, "get", "exited")
  /\ UNCHANGED <<queue, ctxDone, signalling, current, parked>>

-----------------------------------------------------------------------------
(* Remove, Requeue, and a message left to the squasher.                    *)

Remove(m) == buf' = [buf EXCEPT ![idx[m]] = Nil]

RemoveCurrent(c) ==
  /\ Goto(c, "handling", "loop")
  /\ Remove(current[c])
  /\ current' = [current EXCEPT ![c] = Nil]
  /\ UNCHANGED <<idx, pending, shuttingDown, ctxDone, signalling, parked>>

\* Fault: the mark stays.
RequeueMarked(c) ==
  /\ Goto(c, "handling", "signal")
  /\ current' = [current EXCEPT ![c] = Nil]
  /\ UNCHANGED <<queue, ctxDone, signalling, parked>>

\* Fault: nobody is signalled.
RequeueSilent(c) ==
  /\ Goto(c, "handling", "loop")
  /\ pending' = pending \ {current[c]}
  /\ current' = [current EXCEPT ![c] = Nil]
  /\ UNCHANGED <<buf, idx, shuttingDown, ctxDone, signalling, parked>>

Requeue(c) ==
  /\ Goto(c, "handling", "signal")
  /\ pending' = pending \ {current[c]}
  /\ current' = [current EXCEPT ![c] = Nil]
  /\ UNCHANGED <<buf, idx, shuttingDown, ctxDone, signalling, parked>>

RequeueSignal(c) ==
  /\ pc[c] = "signal"
  /\ \/ \E w \in Waiting : pc' = [pc EXCEPT ![c] = "loop", ![w] = "get"]
     \/ Waiting = {} /\ pc' = [pc EXCEPT ![c] = "loop"]
  /\ UNCHANGED <<queue, ctxDone, signalling, current, parked>>

\* Squashed: the consumer goes on and the message stays pending in its slot.
Park(c) ==
  /\ Goto(c, "handling", "loop")
  /\ parked'  = parked \cup {current[c]}
  /\ current' = [current EXCEPT ![c] = Nil]
  /\ UNCHANGED <<queue, ctxDone, signalling>>

RemoveParked(m) ==
  /\ m \in parked
  /\ Remove(m)
  /\ parked' = parked \ {m}
  /\ UNCHANGED <<idx, pending, shuttingDown, ctxDone, signalling, pc, current>>

-----------------------------------------------------------------------------
(* worker.shutdown: Shutdown wakes every waiter, then the context ends.    *)

\* Fault: one waiter is woken, not all.
ShutdownSignal ==
  /\ ~shuttingDown
  /\ shuttingDown' = TRUE
  /\ \/ \E c \in Waiting : pc' = [pc EXCEPT ![c] = "get"]
     \/ Waiting = {} /\ UNCHANGED pc
  /\ UNCHANGED <<buf, idx, pending, ctxDone, signalling, current, parked>>

Shutdown ==
  /\ ~shuttingDown
  /\ shuttingDown' = TRUE
  /\ pc' = [c \in Consumers |-> IF c \in Waiting THEN "get" ELSE pc[c]]
  /\ UNCHANGED <<buf, idx, pending, ctxDone, signalling, current, parked>>

Cancel ==
  /\ shuttingDown /\ ~ctxDone
  /\ ctxDone' = TRUE
  /\ UNCHANGED <<queue, signalling, pc, current, parked>>

\* Every consumer has returned: the system may stop here.
Stopped ==
  /\ \A c \in Consumers : pc[c] = "exited"
  /\ UNCHANGED vars

Step(c) ==
  \/ CallGet(c) \/ LeaveLoop(c)
  \/ GetMessage(c) \/ GetWait(c) \/ GetFail(c)
  \/ RemoveCurrent(c) \/ Requeue(c) \/ RequeueSignal(c) \/ Park(c)

Next ==
  \/ \E m \in Messages : Queue(m) \/ QueueSignal(m) \/ RemoveParked(m)
  \/ \E c \in Consumers : Step(c)
  \/ Shutdown \/ Cancel \/ Stopped

\* Goroutines run on.  Clients need never call Queue, and nobody need ever
\* stop the server.
Fairness ==
  /\ \A m \in Messages : WF_vars(QueueSignal(m))
  /\ \A c \in Consumers : WF_vars(Step(c))
  /\ WF_vars(Cancel)

Spec     == Init /\ [][Next]_vars
FairSpec == Spec /\ Fairness

-----------------------------------------------------------------------------
(* Properties.                                                             *)

TypeOK ==
  /\ buf \in Seq(Messages \cup {Nil})
  /\ idx \in [Messages -> Nat]
  /\ pending \subseteq Messages
  /\ shuttingDown \in BOOLEAN
  /\ ctxDone \in BOOLEAN
  /\ signalling \subseteq Messages
  /\ pc \in [Consumers -> PCs]
  /\ current \in [Consumers -> Messages \cup {Nil}]
  /\ parked \subseteq Messages

InBuf(m) == \E i \in DOMAIN buf : buf[i] = m

\* A message is held by the consumer that handles it or by the squasher.
HeldBy(c, m) == pc[c] = "handling" /\ current[c] = m
Held(m)      == m \in parked \/ \E c \in Consumers : HeldBy(c, m)

\* Remove empties slot idx of a message without looking at what is there
\* (queue.go, Remove).  It empties the right one: a held message is in its
\* own slot, so no Remove can erase another client's message.
SlotOwnership == \A m \in Messages : Held(m) => idx[m] \in DOMAIN buf /\ buf[idx[m]] = m

\* No two holders have the same message, so that no message is pushed by two
\* workers at once or both pushed and squashed (queue.go, getNextMessage).
SoleHolder ==
  \A m \in Messages :
    /\ \A c, d \in Consumers : HeldBy(c, m) /\ HeldBy(d, m) => c = d
    /\ m \in parked => ~ \E c \in Consumers : HeldBy(c, m)

\* A message whose pending flag hides it from Get has a holder that will
\* remove or requeue it: no slot is stuck behind a stale flag.
PendingIsHeld == \A m \in Messages : InBuf(m) /\ m \in pending => Held(m)

\* Signals are sent after the mutex is released and are lost when nobody
\* waits.  Even so, whenever a message is ready while a consumer sleeps, a
\* signal is under way or another consumer is about to look at the slots.
NoLostWakeup == Waiting # {} /\ Ready # {} => signalling # {} \/ Awake # {}

\* Once Shutdown has run, no Get hands out a message.
NothingTakenAfterShutdown ==
  [][shuttingDown => \A m \in Messages : Held(m)' => Held(m)]_vars

\* After Shutdown every consumer returns, wherever it was: none sleeps on.
ShutdownReleasesAll == shuttingDown ~> \A c \in Consumers : pc[c] = "exited"

\* If messages stop being requeued, every message put in the queue is handed
\* out, or the queue is shut down.  (Get looks at the lowest slot first, so a
\* message that is requeued for ever can keep a later one waiting.)
EveryMessageTaken ==
  <>[][\A c \in Consumers : ~Requeue(c)]_vars
    => \A m \in Messages : (InBuf(m) /\ m \notin pending) ~> (m \in pending \/ shuttingDown)

-----------------------------------------------------------------------------
(* The queue keeps the promise of WorkQueue.                               *)

Slots   == {buf[i] : i \in DOMAIN buf} \ {Nil}
Work    == INSTANCE WorkQueue WITH
             available <- Slots \ pending,
             taken     <- Slots \cap pending,
             settled   <- {m \in Messages : idx[m] # 0} \ Slots,
             closed    <- shuttingDown
ImplementsWorkQueue == Work!QueueSpec
=============================================================================
