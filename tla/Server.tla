------------------------------- MODULE Server -------------------------------
(***************************************************************************)
(* One Shove process (cmd/shove/main.go, internal/server): main adds the   *)
(* services, each with a queue and a pump, then serves HTTP until it is    *)
(* told to stop.  Handlers put messages into queues (handlePush) and take  *)
(* feedback out of the store (handleFeedback); pumps take messages and put  *)
(* feedback in.  Shutdown stops HTTP, then one pump after another, then     *)
(* closes the store.                                                        *)
(*                                                                         *)
(* Queues and store are those in memory.  A pump is reduced to what the    *)
(* server sees of it, PumpContract with the tokens it reports; that is what *)
(* the detailed module Pump implements.  Whether a pump returns once its   *)
(* queue was shut down is Pump's matter (with a squasher it may not).       *)
(***************************************************************************)
EXTENDS Naturals, Sequences, FiniteSets, SequencesExt

CONSTANTS
  Services,
  Squashing,    (* those that squash messages                         *)
  Requests,     (* calls of /api/push/, and the messages they carry   *)
  Target,       (* the service a request names; Nil: there is no such *)
  Collectors,   (* calls of /api/feedback that may be served at a time *)
  Limit,        (* how many entries they ask for                      *)
  Nil

ASSUME ServerAssumption ==
  /\ Target \in [Requests -> Services \cup {Nil}]
  /\ Nil \notin Services
  /\ Squashing \subseteq Services
  /\ Limit \in Nat \ {0}

VARIABLES
  main,        (* where main is, with the Shutdown it calls             *)
  http,        (* where the goroutine is that calls Server.Serve         *)
  shuttingDown,
  workerOnly,  (* there is no HTTP server                               *)
  stopping,    (* the service whose worker.shutdown is running          *)
  req,         (* where a request is                                    *)
  queue,       (* per service, the messages waiting                     *)
  working,     (* per service, the messages its pump is busy with       *)
  parked,      (* per service, the messages that wait in a batch         *)
  settled,     (* the messages removed from their queue                 *)
  closed,      (* the services whose queue is shut down                 *)
  pump,        (* per service, where worker.serve is                    *)
  reported,    (* the messages whose token was reported, in that order  *)
  feedback,    (* the store, oldest entry first                         *)
  storeClosed,
  reply,       (* per collector, the entries popped and to be answered  *)
  collected    (* entries that left the process, received or not        *)

pumpVars  == <<queue, working, parked, settled, pump>>
storeVars == <<reported, feedback, reply, collected>>
stopVars  == <<workerOnly, stopping, closed, storeClosed>>
httpVars  == <<http, shuttingDown>>
mainVars  == <<main, httpVars, stopVars>>
vars      == <<mainVars, req, pumpVars, storeVars>>

\* "flagged"  shuttingDown is set        "draining" in http.Server.Shutdown
\* "workers"  in the loop over workers   "exited"   all was shut down
\* "gaveUp"   five seconds had passed    "failed"   os.Exit(1)
MainPCs == {"setup", "serving", "flagged", "draining", "workers",
            "exited", "gaveUp", "failed"}
Alive   == main \notin {"exited", "gaveUp", "failed"}

\* "off"    not started, or there is no HTTP server
\* "up"     in ListenAndServe, which has not failed
\* "broken" ListenAndServe failed       "closed" it was told to return
\* "over"   Serve has returned no error
HttpPCs == {"off", "up", "broken", "closed", "over"}

\* Requests come in.
Serving == http = "up" /\ main \in {"serving", "flagged"}

\* "checked": the service was found and the message is valid
ReqPCs  == {"none", "checked", "accepted", "refused"}

\* "over": waits for somebody to receive from finished
PumpPCs == {"absent", "starting", "running", "over", "joined"}

InFlight == {r \in Requests : req[r] = "checked"}
Idle     == \A c \in Collectors : reply[c] = <<>>

Init ==
  /\ main = "setup" /\ workerOnly \in BOOLEAN /\ stopping = Nil
  /\ http = "off" /\ shuttingDown = FALSE
  /\ req = [r \in Requests |-> "none"]
  /\ queue = [s \in Services |-> {}] /\ working = [s \in Services |-> {}]
  /\ parked = [s \in Services |-> {}]
  /\ settled = {} /\ closed = {}
  /\ pump = [s \in Services |-> "absent"]
  /\ reported = <<>> /\ feedback = <<>> /\ storeClosed = FALSE
  /\ reply = [c \in Collectors |-> <<>>] /\ collected = {}

-----------------------------------------------------------------------------
(* main, up to the signal.                                                 *)

AddService(s) ==
  /\ main = "setup" /\ pump[s] = "absent"
  /\ pump' = [pump EXCEPT ![s] = "starting"]
  /\ UNCHANGED <<mainVars, req, queue, working, parked, settled, storeVars>>

\* main starts the goroutine and waits for the signal.
Serve ==
  /\ main = "setup" /\ \A s \in Services : pump[s] # "absent"
  /\ main' = "serving"
  /\ http' = IF workerOnly THEN "off" ELSE "up"
  /\ UNCHANGED <<shuttingDown, stopVars, req, pumpVars, storeVars>>

\* A service cannot be set up.
SetupFails ==
  /\ main = "setup"
  /\ main' = "failed"
  /\ UNCHANGED <<httpVars, stopVars, req, pumpVars, storeVars>>

ListenFails ==
  /\ Alive /\ http = "up"
  /\ http' = "broken"
  /\ UNCHANGED <<main, shuttingDown, stopVars, req, pumpVars, storeVars>>

\* ErrServerClosed, as soon as http.Server.Shutdown has been called.
ListenClosed ==
  /\ http = "up" /\ main \in {"draining", "workers"}
  /\ http' = "closed"
  /\ UNCHANGED <<main, shuttingDown, stopVars, req, pumpVars, storeVars>>

\* Server.Serve passes the error on unless shuttingDown; then it is os.Exit(1).
ServeReturns ==
  /\ Alive /\ http \in {"broken", "closed"}
  /\ IF shuttingDown THEN http' = "over" /\ UNCHANGED main
                     ELSE main' = "failed" /\ UNCHANGED http
  /\ UNCHANGED <<shuttingDown, stopVars, req, pumpVars, storeVars>>

-----------------------------------------------------------------------------
(* handlePush, a request at a time.                                        *)

\* 404, 405, 400, or 500 for a message that is not valid.
Refuse(r) ==
  /\ Serving /\ req[r] = "none"
  /\ req' = [req EXCEPT ![r] = "refused"]
  /\ UNCHANGED <<mainVars, pumpVars, storeVars>>

Check(r) ==
  /\ Serving /\ req[r] = "none"
  /\ Target[r] \in Services
  /\ req' = [req EXCEPT ![r] = "checked"]
  /\ UNCHANGED <<mainVars, pumpVars, storeVars>>

\* queue.Queue, and the answer 202.
Enqueue(r) ==
  /\ Alive /\ r \in InFlight
  /\ queue' = [queue EXCEPT ![Target[r]] = @ \cup {r}]
  /\ req' = [req EXCEPT ![r] = "accepted"]
  /\ UNCHANGED <<mainVars, working, parked, settled, pump, storeVars>>

-----------------------------------------------------------------------------
(* A pump, under worker.serve.                                             *)

StartPump(s) ==
  /\ Alive /\ pump[s] = "starting"
  /\ pump' = [pump EXCEPT ![s] = "running"]
  /\ UNCHANGED <<mainVars, req, queue, working, parked, settled, storeVars>>

\* Faults are variants of a definition, as a slip in the code would make it;
\* with the variant in its place a property of the run fails.  The first:
\* worker.serve returns on the error and does not send on finished.
StartFailsSilently(s) ==
  /\ Alive /\ pump[s] = "starting"
  /\ pump' = [pump EXCEPT ![s] = "absent"]
  /\ UNCHANGED <<mainVars, req, queue, working, parked, settled, storeVars>>

\* NewClient fails.  The queue goes on taking messages that nobody reads.
StartFails(s) ==
  /\ Alive /\ pump[s] = "starting"
  /\ pump' = [pump EXCEPT ![s] = "over"]
  /\ UNCHANGED <<mainVars, req, queue, working, parked, settled, storeVars>>

Take(s, r) ==
  /\ Alive /\ pump[s] = "running" /\ s \notin closed
  /\ r \in queue[s]
  /\ queue'   = [queue EXCEPT ![s] = @ \ {r}]
  /\ working' = [working EXCEPT ![s] = @ \cup {r}]
  /\ UNCHANGED <<mainVars, req, parked, settled, pump, storeVars>>

\* PushMessage learns that the token is not valid, or was replaced.
Report(s, r) ==
  /\ Alive /\ r \in working[s] /\ r \notin ToSet(reported)
  /\ reported' = Append(reported, r)
  /\ feedback' = Append(feedback, r)
  /\ UNCHANGED <<mainVars, req, pumpVars, reply, collected>>

Settle(s, r) ==
  /\ Alive /\ r \in working[s]
  /\ working' = [working EXCEPT ![s] = @ \ {r}]
  /\ settled' = settled \cup {r}
  /\ UNCHANGED <<mainVars, req, queue, parked, pump, storeVars>>

Requeue(s, r) ==
  /\ Alive /\ r \in working[s] /\ r \notin ToSet(reported)
  /\ working' = [working EXCEPT ![s] = @ \ {r}]
  /\ queue'   = [queue EXCEPT ![s] = @ \cup {r}]
  /\ UNCHANGED <<mainVars, req, parked, settled, pump, storeVars>>

\* The message waits in a batch.
Park(s, r) ==
  /\ Alive /\ s \in Squashing
  /\ r \in working[s] /\ r \notin ToSet(reported)
  /\ working' = [working EXCEPT ![s] = @ \ {r}]
  /\ parked'  = [parked EXCEPT ![s] = @ \cup {r}]
  /\ UNCHANGED <<mainVars, req, queue, settled, pump, storeVars>>

\* A batch is sent, to one of the destinations.
SendBatch(s) ==
  /\ Alive /\ pump[s] = "running"
  /\ \E batch \in SUBSET parked[s] \ {{}} :
       /\ working' = [working EXCEPT ![s] = @ \cup batch]
       /\ parked'  = [parked EXCEPT ![s] = @ \ batch]
  /\ UNCHANGED <<mainVars, req, queue, settled, pump, storeVars>>

\* Fault: the pump does not wait for its squasher.
PumpReturnsBusy(s) ==
  /\ Alive /\ pump[s] = "running"
  /\ s \in closed /\ (working[s] = {} \/ s \in Squashing)
  /\ pump' = [pump EXCEPT ![s] = "over"]
  /\ UNCHANGED <<mainVars, req, queue, working, parked, settled, storeVars>>

\* Its goroutines have found the queue shut down.  What is parked stays there.
PumpReturns(s) ==
  /\ Alive /\ pump[s] = "running"
  /\ s \in closed /\ working[s] = {}
  /\ pump' = [pump EXCEPT ![s] = "over"]
  /\ UNCHANGED <<mainVars, req, queue, working, parked, settled, storeVars>>

PumpStep(s) ==
  \/ StartPump(s) \/ StartFails(s)
  \/ \E r \in Requests : Settle(s, r) \/ Requeue(s, r)

-----------------------------------------------------------------------------
(* The feedback store in memory, and handleFeedback.                       *)

Taken(n) == IF n < Len(feedback) THEN n ELSE Len(feedback)

\* Fault: one entry too many is copied.
PopOneMore(c) ==
  /\ Serving /\ reply[c] = <<>> /\ feedback # <<>>
  /\ reply'    = [reply EXCEPT ![c] = SubSeq(feedback, 1, Taken(Limit + 1))]
  /\ feedback' = SubSeq(feedback, Taken(Limit + 1) + 1, Len(feedback))
  /\ UNCHANGED <<mainVars, req, pumpVars, reported, collected>>

\* Fault: the newest entries are popped.
PopNewest(c) ==
  /\ Serving /\ reply[c] = <<>> /\ feedback # <<>>
  /\ reply'    = [reply EXCEPT ![c] =
                    SubSeq(feedback, Len(feedback) - Taken(Limit) + 1, Len(feedback))]
  /\ feedback' = SubSeq(feedback, 1, Len(feedback) - Taken(Limit))
  /\ UNCHANGED <<mainVars, req, pumpVars, reported, collected>>

Pop(c) ==
  /\ Serving /\ reply[c] = <<>> /\ feedback # <<>>
  /\ reply'    = [reply EXCEPT ![c] = SubSeq(feedback, 1, Taken(Limit))]
  /\ feedback' = SubSeq(feedback, Taken(Limit) + 1, Len(feedback))
  /\ UNCHANGED <<mainVars, req, pumpVars, reported, collected>>

\* Whether or not the client is still there.
Answer(c) ==
  /\ Alive /\ reply[c] # <<>>
  /\ collected' = collected \cup ToSet(reply[c])
  /\ reply'     = [reply EXCEPT ![c] = <<>>]
  /\ UNCHANGED <<mainVars, req, pumpVars, reported, feedback>>

-----------------------------------------------------------------------------
(* The signal, and Server.Shutdown.                                        *)

\* Fault: the flag is set when http.Server.Shutdown has returned.
InterruptUnflagged ==
  /\ main = "serving"
  /\ main' = IF workerOnly THEN "workers" ELSE "flagged"
  /\ UNCHANGED <<httpVars, stopVars, req, pumpVars, storeVars>>

Interrupt ==
  /\ main = "serving"
  /\ main' = IF workerOnly THEN "workers" ELSE "flagged"
  /\ shuttingDown' = TRUE
  /\ UNCHANGED <<http, stopVars, req, pumpVars, storeVars>>

CloseHttp ==
  /\ main = "flagged"
  /\ main' = "draining"
  /\ UNCHANGED <<httpVars, stopVars, req, pumpVars, storeVars>>

\* Fault: the connections are closed; their handlers run on.
HttpDrainedNot ==
  /\ main = "draining"
  /\ main' = "workers"
  /\ UNCHANGED <<httpVars, stopVars, req, pumpVars, storeVars>>

HttpDrained ==
  /\ main = "draining" /\ InFlight = {} /\ Idle
  /\ main' = "workers"
  /\ UNCHANGED <<httpVars, stopVars, req, pumpVars, storeVars>>

\* Shutdown returns the error, and main exits: pumps and store are left as
\* they are.  The five seconds may be over though the last handler has just
\* returned.
DrainTimesOut ==
  /\ main = "draining"
  /\ main' = "gaveUp"
  /\ UNCHANGED <<httpVars, stopVars, req, pumpVars, storeVars>>

\* worker.shutdown shuts the queue down and cancels the context.
StopWorker(s) ==
  /\ main = "workers" /\ stopping = Nil /\ pump[s] # "joined"
  /\ stopping' = s
  /\ closed'   = closed \cup {s}
  /\ UNCHANGED <<main, httpVars, workerOnly, storeClosed, req, pumpVars, storeVars>>

\* Fault: finished is not waited for.
JoinWorkerAtOnce(s) ==
  /\ main = "workers" /\ stopping = s
  /\ pump'     = [pump EXCEPT ![s] = "joined"]
  /\ stopping' = Nil
  /\ UNCHANGED <<main, httpVars, workerOnly, closed, storeClosed, req,
                 queue, working, parked, settled, storeVars>>

JoinWorker(s) ==
  /\ main = "workers" /\ stopping = s /\ pump[s] = "over"
  /\ pump'     = [pump EXCEPT ![s] = "joined"]
  /\ stopping' = Nil
  /\ UNCHANGED <<main, httpVars, workerOnly, closed, storeClosed, req,
                 queue, working, parked, settled, storeVars>>

CloseStore ==
  /\ main = "workers" /\ \A s \in Services : pump[s] = "joined"
  /\ storeClosed' = TRUE
  /\ main' = "exited"
  /\ UNCHANGED <<httpVars, workerOnly, stopping, closed, req, pumpVars, storeVars>>

ShutdownStep ==
  \/ CloseHttp \/ HttpDrained \/ DrainTimesOut \/ CloseStore
  \/ \E s \in Services : StopWorker(s) \/ JoinWorker(s)

\* The process is gone.
Gone == ~Alive /\ UNCHANGED vars

Next ==
  \/ Serve \/ SetupFails \/ ListenFails \/ ListenClosed \/ ServeReturns
  \/ Interrupt \/ ShutdownStep \/ Gone
  \/ \E s \in Services :
       \/ AddService(s) \/ PumpStep(s) \/ SendBatch(s) \/ PumpReturns(s)
       \/ \E r \in Requests : Take(s, r) \/ Report(s, r) \/ Park(s, r)
  \/ \E r \in Requests : Refuse(r) \/ Check(r) \/ Enqueue(r)
  \/ \E c \in Collectors : Pop(c) \/ Answer(c)

\* Goroutines run on, and a push ends (as in Pump).  Nobody need send a
\* request or a signal, and a handler may hang: Shutdown has its five seconds.
\* That a pump returns is not assumed here (see ShutdownEnds).
Fairness == WF_vars(ShutdownStep) /\ \A s \in Services : WF_vars(PumpStep(s))

Spec     == Init /\ [][Next]_vars
FairSpec == Spec /\ Fairness

-----------------------------------------------------------------------------
(* Properties.                                                             *)

TypeOK ==
  /\ main \in MainPCs
  /\ http \in HttpPCs /\ shuttingDown \in BOOLEAN
  /\ workerOnly \in BOOLEAN
  /\ stopping \in Services \cup {Nil}
  /\ req \in [Requests -> ReqPCs]
  /\ queue \in [Services -> SUBSET Requests]
  /\ working \in [Services -> SUBSET Requests]
  /\ parked \in [Services -> SUBSET Requests]
  /\ settled \subseteq Requests
  /\ closed \subseteq Services
  /\ pump \in [Services -> PumpPCs]
  /\ reported \in Seq(Requests)
  /\ feedback \in Seq(Requests)
  /\ storeClosed \in BOOLEAN
  /\ reply \in [Collectors -> Seq(Requests)]
  /\ \A c \in Collectors : Len(reply[c]) <= Limit
  /\ collected \subseteq Requests

\* A queue in memory takes messages even when it has been shut down, and then
\* nobody reads them.  No handler comes to do that: the queues are shut down
\* only after the HTTP server has waited for every handler.
NoPushIntoClosedQueue == \A r \in InFlight : Target[r] \notin closed

\* Server.Shutdown closes the store only when no pump is left that might report
\* to it, and nobody is busy with a message.  Every message that a handler has
\* answered for is accounted for: it was settled, it is in the queue of its
\* service, or it was squashed and is left in a batch that nobody will send.
\* (Nothing is said of an exit after the five seconds, of which main prints the
\* same: the store is then never closed.)
CleanExit ==
  storeClosed =>
    /\ \A s \in Services : pump[s] = "joined" /\ working[s] = {}
    /\ InFlight = {} /\ Idle
    /\ \A r \in Requests : req[r] = "accepted" =>
         r \in settled \cup queue[Target[r]] \cup parked[Target[r]]

\* Entries of feedback leave the store in the order they were reported, and
\* each is handed out by one Pop: none is lost, repeated or overtaken, however
\* many collectors there are.
FeedbackOnce ==
  LET popped == Len(reported) - Len(feedback)
      Out(r) == {c \in Collectors : r \in ToSet(reply[c])}
  IN  /\ feedback = SubSeq(reported, popped + 1, Len(reported))
      /\ \A i \in DOMAIN reported :
           Cardinality(Out(reported[i])) + Cardinality(collected \cap {reported[i]})
             = IF i <= popped THEN 1 ELSE 0

\* That the HTTP server was closed is never taken for a failure, which would
\* end the process in the middle of its shutdown.
NoFailureAfterInterrupt ==
  [][main' = "failed" /\ main # "failed" => http # "closed"]_vars

\* Shutdown comes to an end, though a handler may hang, a pump's Serve may
\* have failed or the HTTP server may be broken: provided each pump that runs
\* returns once its queue is shut down.
ShutdownEnds ==
  (\A s \in Services :
     s \in closed /\ pump[s] = "running" ~> pump[s] \in {"over", "joined"} \/ ~Alive)
  => (main \in {"flagged", "draining", "workers"} ~> ~Alive)

-----------------------------------------------------------------------------
(* Each service has a pump as PumpContract says, whatever the others do.    *)

Contract(s) ==
  INSTANCE PumpContract WITH
    Messages  <- Requests,
    redis     <- FALSE,
    available <- queue[s],
    busy      <- working[s],
    parked    <- parked[s],
    settled   <- {r \in settled : Target[r] = s},
    lost      <- {},
    closed    <- s \in closed,
    state     <- CASE pump[s] \in {"absent", "starting"} -> "starting"
                   [] pump[s] = "running" -> "running"
                   [] pump[s] \in {"over", "joined"} -> "over"
ImplementsPumpContract ==
  /\ \A s \in Services : Contract(s)!ContractInit
  /\ [][\A s \in Services : [Contract(s)!ContractNext]_(Contract(s)!contractVars)]_vars
=============================================================================
