-------------------------------- MODULE Pump --------------------------------
(***************************************************************************)
(* The life of one service's pump (internal/services/pump.go) under the    *)
(* worker that starts and stops it (internal/server/worker.go): Serve makes *)
(* the clients and starts the worker goroutines, each of which takes        *)
(* messages from the queue and pushes them or leaves them to the squasher;  *)
(* shutdown closes the queue, cancels the context and waits for Serve to    *)
(* return, which waits for every goroutine it counts in its wait group.     *)
(*                                                                         *)
(* The queue is the abstract one of WorkQueue, which MemoryQueue            *)
(* implements, or a Redis queue, which differs from it in three things:     *)
(* its Shutdown does nothing, its Get may fail though nobody asked it to    *)
(* stop, and its Requeue may fail.  The squasher is that of Squasher.       *)
(* Which of these a service has, and which of its messages cannot be        *)
(* converted, is its configuration: a record that never changes.           *)
(***************************************************************************)
EXTENDS Squasher

CONSTANTS
  Workers,      (* the goroutines of serveClient                       *)
  Configs,      (* of the service: [squashing, redis, bad]             *)
  Nil

ASSUME PumpAssumption ==
  /\ IsFiniteSet(Workers) /\ Workers # {}
  /\ Configs \subseteq [squashing : BOOLEAN, redis : BOOLEAN, bad : SUBSET Messages]
  /\ Nil \notin Messages

VARIABLES
  config,
  available, taken, settled, closed,   (* the queue: see WorkQueue            *)
  pc,         (* where a worker is                                        *)
  current,    (* the message it holds                                     *)
  serve,      (* where Pump.Serve is                                      *)
  wg,         (* the counter of the wait group                            *)
  sqCounted,  (* the squasher's goroutine is counted in it                *)
  main,       (* where worker.shutdown is                                 *)
  ctxDone,    (* the context is cancelled                                 *)
  panicked    (* the counter went below zero: the process is gone         *)

Squashing == config.squashing  (* there is a rate, hence a squasher     *)
Redis     == config.redis      (* the queue is in Redis                 *)
Bad       == config.bad        (* messages that ConvertMessage refuses  *)

Q == INSTANCE WorkQueue

queueVars == <<available, taken, settled, closed>>
workVars  == <<pc, current>>
lifeVars  == <<config, serve, wg, sqCounted, main, ctxDone, panicked>>
vars      == <<sqVars, queueVars, workVars, lifeVars>>

\* "unborn"   no goroutine yet        "loop"     about to look at the context
\* "get"      in Get                  "holding"  got a message
\* "pushing"  in PushMessage          "backoff"  in backoff
\* "leaving"  about to call wg.Done   "notify"   about to call requestShutdown
\* "exited"
PCs == {"unborn", "loop", "get", "holding", "pushing", "backoff",
        "leaving", "notify", "exited"}

\* "clients"  the squasher is started, the clients are being made
\* "spawn"    about to start a worker   "add"     about to count it
\* "wait"     in wg.Wait                "returned", "failed"  Serve returned
ServePCs == {"clients", "spawn", "add", "wait", "returned", "failed"}

\* "serving" no shutdown yet; then Shutdown of the queue, cancel, <-finished
MainPCs == {"serving", "closed", "cancelled", "joined"}

Goto(w, from, to) ==
  /\ pc[w] = from
  /\ pc'   = [pc EXCEPT ![w] = to]

Holding == {w \in Workers : pc[w] \in {"holding", "pushing"}}

\* Fault: the squasher's goroutine is not counted in the wait group.
InitUncounted ==
  /\ config \in Configs
  /\ SquasherInit
  /\ sq = IF Squashing THEN "top" ELSE "stopped"
  /\ Q!QueueInit
  /\ pc        = [w \in Workers |-> "unborn"]
  /\ current   = [w \in Workers |-> Nil]
  /\ serve     = "clients"
  /\ wg        = 0
  /\ sqCounted = FALSE
  /\ main      = "serving"
  /\ ctxDone   = FALSE
  /\ panicked  = FALSE

Init ==
  /\ config \in Configs
  /\ SquasherInit
  /\ sq = IF Squashing THEN "top" ELSE "stopped"
  /\ Q!QueueInit
  /\ pc        = [w \in Workers |-> "unborn"]
  /\ current   = [w \in Workers |-> Nil]
  /\ serve     = "clients"
  /\ wg        = IF Squashing THEN 1 ELSE 0
  /\ sqCounted = Squashing
  /\ main      = "serving"
  /\ ctxDone   = FALSE
  /\ panicked  = FALSE

\* Fault: the counter goes below zero.
CountDownBelowZero == wg' = wg - 1 /\ UNCHANGED panicked

\* wg.Done, which panics rather than go below zero.
CountDown ==
  \/ wg > 0 /\ wg' = wg - 1 /\ UNCHANGED panicked
  \/ wg = 0 /\ panicked' = TRUE /\ UNCHANGED wg

-----------------------------------------------------------------------------
(* Pump.Serve.                                                             *)

NewClients ==
  /\ serve = "clients"
  /\ serve' \in {"spawn", "failed"}
  /\ UNCHANGED <<config, sqVars, queueVars, workVars, wg, sqCounted, main, ctxDone, panicked>>

Spawn(w) ==
  /\ serve = "spawn"
  /\ Goto(w, "unborn", "loop")
  /\ serve' = "add"
  /\ UNCHANGED <<config, sqVars, queueVars, current, wg, sqCounted, main, ctxDone, panicked>>

\* The worker is counted after it has been started.
CountWorker ==
  /\ serve = "add"
  /\ wg' = wg + 1
  /\ serve' = IF \E w \in Workers : pc[w] = "unborn" THEN "spawn" ELSE "wait"
  /\ UNCHANGED <<config, sqVars, queueVars, workVars, sqCounted, main, ctxDone, panicked>>

WaitOver ==
  /\ serve = "wait" /\ wg = 0
  /\ serve' = "returned"
  /\ UNCHANGED <<config, sqVars, queueVars, workVars, wg, sqCounted, main, ctxDone, panicked>>

ServeStep == NewClients \/ (\E w \in Workers : Spawn(w)) \/ CountWorker \/ WaitOver

-----------------------------------------------------------------------------
(* A worker: serveClient, and what Serve's goroutine does after it.        *)

EnterLoop(w) ==
  /\ \/ ~ctxDone /\ Goto(w, "loop", "get")
     \/ ctxDone  /\ Goto(w, "loop", "leaving")
  /\ UNCHANGED <<sqVars, queueVars, current, lifeVars>>

Get(w) ==
  /\ Goto(w, "get", "holding")
  /\ \E m \in Messages :
       /\ Q!Take(m)
       /\ current' = [current EXCEPT ![w] = m]
  /\ UNCHANGED <<sqVars, lifeVars>>

\* Fault: Get gives up when it has nothing to return.
GetFailsAnyTime(w) ==
  /\ Goto(w, "get", "leaving")
  /\ UNCHANGED <<sqVars, queueVars, current, lifeVars>>

\* Fault: wg.Done is called on the error path as well as on the way out.
GetFailsDoneTwice(w) ==
  /\ closed \/ ctxDone
  /\ Goto(w, "get", "leaving")
  /\ CountDown
  /\ UNCHANGED <<config, sqVars, queueVars, current, serve, sqCounted, main, ctxDone>>

GetFails(w) ==
  /\ closed \/ ctxDone
  /\ Goto(w, "get", "leaving")
  /\ UNCHANGED <<sqVars, queueVars, current, lifeVars>>

\* Redis answers with an error that is not one of the connection.
GetErrs(w) ==
  /\ Redis
  /\ Goto(w, "get", "leaving")
  /\ UNCHANGED <<sqVars, queueVars, current, lifeVars>>

LetGo(w) == current' = [current EXCEPT ![w] = Nil]

RemoveBad(w) ==
  /\ current[w] \in Bad
  /\ Goto(w, "holding", "loop")
  /\ Q!Settle(current[w])
  /\ LetGo(w)
  /\ UNCHANGED <<sqVars, lifeVars>>

PushDirectly(w) ==
  /\ current[w] \notin Bad
  /\ Goto(w, "holding", "pushing")
  /\ IF Squashing THEN PushNow(current[w]) ELSE UNCHANGED sqVars
  /\ UNCHANGED <<queueVars, current, lifeVars>>

\* Fault: the loop does not continue, and goes on to remove the message.
LeaveAndRemove(w) ==
  /\ Squashing /\ current[w] \notin Bad
  /\ Goto(w, "holding", "loop")
  /\ Squash(current[w])
  /\ Q!Settle(current[w])
  /\ LetGo(w)
  /\ UNCHANGED lifeVars

\* The message stays taken; the squasher will remove it.
LeaveToSquasher(w) ==
  /\ Squashing /\ current[w] \notin Bad
  /\ Goto(w, "holding", "loop")
  /\ Squash(current[w])
  /\ LetGo(w)
  /\ UNCHANGED <<queueVars, lifeVars>>

\* PushMessage succeeds, or fails for good.
PushSettled(w) ==
  /\ Goto(w, "pushing", "loop")
  /\ Q!Settle(current[w])
  /\ LetGo(w)
  /\ UNCHANGED <<sqVars, lifeVars>>

\* Fault: the message is not requeued.
PushTempFailForgets(w) ==
  /\ Goto(w, "pushing", "backoff")
  /\ LetGo(w)
  /\ UNCHANGED <<sqVars, queueVars, lifeVars>>

PushTempFail(w) ==
  /\ Goto(w, "pushing", "backoff")
  /\ Q!Release(current[w])
  /\ LetGo(w)
  /\ UNCHANGED <<sqVars, lifeVars>>

\* Requeue fails, which is only logged: nobody has the message any more.
RequeueFails(w) ==
  /\ Redis
  /\ Goto(w, "pushing", "backoff")
  /\ LetGo(w)
  /\ UNCHANGED <<sqVars, queueVars, lifeVars>>

\* The time-out, or the context.
BackoffOver(w) ==
  /\ Goto(w, "backoff", "loop")
  /\ UNCHANGED <<sqVars, queueVars, current, lifeVars>>

\* Fault: wg.Done is not called.
LeaveSilently(w) ==
  /\ Goto(w, "leaving", IF Squashing THEN "notify" ELSE "exited")
  /\ UNCHANGED <<sqVars, queueVars, current, lifeVars>>

Leave(w) ==
  /\ Goto(w, "leaving", IF Squashing THEN "notify" ELSE "exited")
  /\ CountDown
  /\ UNCHANGED <<config, sqVars, queueVars, current, serve, sqCounted, main, ctxDone>>

Notify(w) ==
  /\ Goto(w, "notify", "exited")
  /\ RequestShutdown
  /\ UNCHANGED <<queueVars, current, lifeVars>>

WorkerStep(w) ==
  \/ EnterLoop(w) \/ Get(w) \/ GetFails(w)
  \/ RemoveBad(w) \/ PushDirectly(w) \/ LeaveToSquasher(w)
  \/ PushSettled(w) \/ PushTempFail(w) \/ RequeueFails(w) \/ BackoffOver(w)
  \/ Leave(w) \/ Notify(w)

-----------------------------------------------------------------------------
(* The squasher's goroutine.                                               *)

BatchStep ==
  /\ \/ WaitForBatch \/ Stop \/ Nap \/ WakeUp
     \/ \E k \in Keys : TakeBatch(k)
     \/ RecordBatch \/ SendBatch
  /\ UNCHANGED <<queueVars, workVars, lifeVars>>

BatchRemoval ==
  /\ RemoveSquashed
  /\ Q!Settle(Head(sending))
  /\ UNCHANGED <<workVars, lifeVars>>

SquasherDone ==
  /\ sq = "stopped" /\ sqCounted
  /\ sqCounted' = FALSE
  /\ CountDown
  /\ UNCHANGED <<config, sqVars, queueVars, workVars, serve, main, ctxDone>>

SquasherRuns == BatchStep \/ BatchRemoval \/ SquasherDone

-----------------------------------------------------------------------------
(* The server: messages come in until it shuts the worker down.            *)

Accept(m) ==
  /\ main = "serving"
  /\ Q!Accept(m)
  /\ UNCHANGED <<sqVars, workVars, lifeVars>>

CloseQueue ==
  /\ main = "serving"
  /\ main' = "closed"
  /\ IF Redis THEN UNCHANGED queueVars ELSE Q!Close
  /\ UNCHANGED <<config, sqVars, workVars, serve, wg, sqCounted, ctxDone, panicked>>

Cancel ==
  /\ main = "closed"
  /\ main' = "cancelled" /\ ctxDone' = TRUE
  /\ UNCHANGED <<config, sqVars, queueVars, workVars, serve, wg, sqCounted, panicked>>

Join ==
  /\ main = "cancelled" /\ serve \in {"returned", "failed"}
  /\ main' = "joined"
  /\ UNCHANGED <<config, sqVars, queueVars, workVars, serve, wg, sqCounted, ctxDone, panicked>>

Clock == Tick /\ UNCHANGED <<queueVars, workVars, lifeVars>>

Running ==
  /\ ~panicked
  /\ \/ ServeStep
     \/ \E w \in Workers : WorkerStep(w) \/ GetErrs(w)
     \/ SquasherRuns
     \/ \E m \in Messages : Accept(m)
     \/ CloseQueue \/ Cancel \/ Join
     \/ Clock

\* A panic in a goroutine ends the process.
Crashed == panicked /\ UNCHANGED vars

Next == Running \/ Crashed

\* Goroutines run on and time passes.  A push takes as long as it likes but
\* ends, as it does where the client has a time-out (see Timed in Delivery: for
\* FCM and email this is an assumption).  Nobody need send a message or shut the
\* server down, and Redis need not fail.
Fairness ==
  /\ WF_vars(~panicked /\ ServeStep)
  /\ \A w \in Workers : WF_vars(~panicked /\ WorkerStep(w))
  /\ WF_vars(~panicked /\ SquasherRuns)
  /\ WF_vars(~panicked /\ (Cancel \/ Join))
  /\ WF_vars(~panicked /\ Clock)

Spec     == Init /\ [][Next]_vars
FairSpec == Spec /\ Fairness

-----------------------------------------------------------------------------
(* Properties.                                                             *)

TypeOK ==
  /\ config \in Configs
  /\ SquasherTypeOK
  /\ Q!QueueTypeOK
  /\ pc \in [Workers -> PCs]
  /\ current \in [Workers -> Messages \cup {Nil}]
  /\ serve \in ServePCs
  /\ wg \in Nat
  /\ sqCounted \in BOOLEAN
  /\ main \in MainPCs
  /\ ctxDone \in BOOLEAN
  /\ panicked \in BOOLEAN

InBatch(m)  == \E k \in Keys : m \in ToSet(batches[k])
InSquasher  == {m \in Messages : InBatch(m)} \cup ToSet(sending)
InHand      == {current[w] : w \in Holding}

\* Every message the queue has handed out is with one worker, in a batch or
\* being sent by the squasher, and nothing else is: so that each is removed or
\* requeued by exactly one of them, and none while still in a batch.  (In Redis
\* nobody has a message whose Requeue failed.)
Custody ==
  /\ InHand \cup InSquasher \subseteq taken
  /\ Redis \/ taken = InHand \cup InSquasher
  /\ InHand \cap InSquasher = {}
  /\ \A v, w \in Holding : current[v] = current[w] => v = w

\* The wait group can panic only while Serve is still starting workers (each
\* is counted after it was started); once all are counted it cannot.
PanicOnlyWhileStarting == panicked => serve \in {"spawn", "add"}

\* While the server serves, the squasher is there for the batches it is given.
\* It stops, and batches are left unsent, only when shutdown was asked for.
\* (Or, with Redis, when one worker's Get has failed: see SquashedIsSent.)
UnsentOnlyAfterShutdown == Squashing /\ ~Redis /\ sq = "stopped" => main # "serving"

\* Squashed messages are sent "at a later time" (README, Email) while the
\* server serves.  Not with Redis: there one worker's failed Get stops the
\* squasher for all, and the other workers go on handing it messages.
SquashedIsSent ==
  \A m \in Messages : InBatch(m) ~> m \in settled \/ main # "serving" \/ panicked

\* A message that was accepted is pushed, refused for good or sent in a batch,
\* if pushes stop failing for the time being, the clients could be made, and
\* the server goes on.  (With Redis it may be lost, or all workers have left.)
AcceptedIsSettled ==
  <>[][\A w \in Workers : ~PushTempFail(w)]_vars
    => \A m \in Messages :
         m \in available /\ ~Redis ~>
           m \in settled \/ main # "serving" \/ panicked \/ serve = "failed"

\* Once shutdown has been asked for, it comes to an end: Serve returns and the
\* server can go on to exit.  (main.go gives Shutdown five seconds after a
\* SIGTERM and then prints "Exiting".)
ShutdownCompletes == main = "closed" ~> main = "joined" \/ panicked

\* Without a squasher it does.
PlainShutdownCompletes ==
  main = "closed" /\ ~Squashing ~> main = "joined" \/ panicked

-----------------------------------------------------------------------------
(* To the worker this is a pump as PumpContract says: above all, Serve does *)
(* not return while a push is in progress, a worker's or the squasher's,    *)
(* nor before the queue was shut down.                                     *)

Contract == INSTANCE PumpContract WITH
              redis  <- Redis,
              busy   <- InHand \cup ToSet(sending),
              parked <- {m \in Messages : InBatch(m)},
              lost   <- taken \ (InHand \cup InSquasher),
              state  <- CASE serve = "clients" -> "starting"
                          [] serve \in {"spawn", "add", "wait"} -> "running"
                          [] serve \in {"returned", "failed"} -> "over"
ImplementsPumpContract == Contract!ContractSpec
=============================================================================
