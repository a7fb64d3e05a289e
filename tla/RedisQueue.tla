----------------------------- MODULE RedisQueue -----------------------------
(***************************************************************************)
(* The queue of internal/queue/redis/redis.go: a Redis list per service,   *)
(* pushed at its head and popped at its tail, shared by every Shove process *)
(* and by clients that push to it themselves (README, Redis Queues).       *)
(*                                                                         *)
(* A consumer is a goroutine of serveClient, here each in a process of its *)
(* own, so that one may be stopped or crash while others go on.  Get loops *)
(* over BRPOP and waits longer and longer after errors of the connection.  *)
(* Redis itself is outside the repository: a command is one step.  The       *)
(* reply to a command may be lost with its connection.  The client library's *)
(* own retries are not modelled.                                           *)
(***************************************************************************)
EXTENDS Naturals, Sequences, FiniteSets, SequencesExt

CONSTANTS
  Messages,
  Consumers,
  Nil,
  MaxDelay,   (* the growth of retryDelay is capped: steps from 100 ms to 30 s *)
  MaxCrashes  (* how often a process may crash: bounds the model only *)

ASSUME RedisAssumption ==
  /\ Nil \notin Messages
  /\ MaxDelay \in Nat
  /\ MaxCrashes \in Nat

VARIABLES
  list,          (* the Redis list, head first                        *)
  asked,         (* per message, what the caller of Queue was told    *)
  pc, current,   (* where a consumer is, and the message it holds     *)
  wasRetrying,   (* locals of Get                                     *)
  delay,         (* retryDelay, as the number of times it has grown   *)
  ctxDone,       (* per consumer: its context is cancelled            *)
  done,          (* messages their consumer has called Remove for     *)
  lost,          (* messages that are nowhere any more                *)
  crashes,       (* how often a process has crashed                   *)
  breaks         (* how often a connection broke under a message      *)

getVars == <<wasRetrying, delay>>
faults  == <<crashes, breaks>>
vars    == <<list, asked, pc, current, getVars, ctxDone, done, lost, faults>>

\* "loop"     outside the queue      "head"     at the top of Get's loop
\* "pop"      in BRPOP               "backoff"  waiting before a retry
\* "holding"  has a message          "exited"   serveClient has returned
\* "down"     the process crashed
PCs == {"loop", "head", "pop", "backoff", "holding", "exited", "down"}

Goto(c, from, to) ==
  /\ pc[c] = from
  /\ pc'   = [pc EXCEPT ![c] = to]

Init ==
  /\ list        = <<>>
  /\ asked       = [m \in Messages |-> "no"]
  /\ pc          = [c \in Consumers |-> "loop"]
  /\ current     = [c \in Consumers |-> Nil]
  /\ wasRetrying = [c \in Consumers |-> FALSE]
  /\ delay       = [c \in Consumers |-> 0]
  /\ ctxDone     = [c \in Consumers |-> FALSE]
  /\ done        = {}
  /\ lost        = {}
  /\ crashes     = 0
  /\ breaks      = 0

\* LPUSH
PushHead(m) == list' = <<m>> \o list

-----------------------------------------------------------------------------
(* Queue.                                                                  *)

Queue(m) ==
  /\ asked[m] = "no"
  /\ PushHead(m)
  /\ asked' = [asked EXCEPT ![m] = "accepted"]
  /\ UNCHANGED <<pc, current, getVars, ctxDone, done, lost, faults>>

\* The caller gets an error: Redis may have taken the message all the same.
QueueFails(m) ==
  /\ asked[m] = "no"
  /\ PushHead(m) \/ UNCHANGED list
  /\ asked' = [asked EXCEPT ![m] = "refused"]
  /\ UNCHANGED <<pc, current, getVars, ctxDone, done, lost, faults>>

-----------------------------------------------------------------------------
(* Get, and the loop of serveClient around it.                             *)

CallGet(c) ==
  /\ \/ ~ctxDone[c] /\ Goto(c, "loop", "head")
     \/ ctxDone[c]  /\ Goto(c, "loop", "exited")
  /\ wasRetrying' = [wasRetrying EXCEPT ![c] = FALSE]
  /\ delay'       = [delay EXCEPT ![c] = 0]
  /\ UNCHANGED <<list, asked, current, ctxDone, done, lost, faults>>

\* Fault: a PING that fails starts the back-off anew as well.
TopOfLoopAnew(c) ==
  /\ ~ctxDone[c]
  /\ Goto(c, "head", "pop")
  /\ \/ UNCHANGED wasRetrying
     \/ wasRetrying[c] /\ wasRetrying' = [wasRetrying EXCEPT ![c] = FALSE]
  /\ delay' = [delay EXCEPT ![c] = 0]
  /\ UNCHANGED <<list, asked, current, ctxDone, done, lost, faults>>

\* While retrying, a PING that succeeds starts the back-off anew.
TopOfLoop(c) ==
  /\ ~ctxDone[c]
  /\ Goto(c, "head", "pop")
  /\ \/ UNCHANGED getVars
     \/ /\ wasRetrying[c]
        /\ wasRetrying' = [wasRetrying EXCEPT ![c] = FALSE]
        /\ delay'       = [delay EXCEPT ![c] = 0]
  /\ UNCHANGED <<list, asked, current, ctxDone, done, lost, faults>>

\* Fault: the message is read and left in the list.
PopKept(c) ==
  /\ list # <<>>
  /\ Goto(c, "pop", "holding")
  /\ current' = [current EXCEPT ![c] = Last(list)]
  /\ UNCHANGED <<list, asked, getVars, ctxDone, done, lost, faults>>

\* A message that Redis has popped is returned even if the context is done.
Pop(c) ==
  /\ list # <<>>
  /\ Goto(c, "pop", "holding")
  /\ list'    = Front(list)
  /\ current' = [current EXCEPT ![c] = Last(list)]
  /\ UNCHANGED <<asked, getVars, ctxDone, done, lost, faults>>

\* redis.Nil after brPopTimeout.
PopTimesOut(c) ==
  /\ list = <<>> /\ ~ctxDone[c]
  /\ Goto(c, "pop", "head")
  /\ UNCHANGED <<list, asked, current, getVars, ctxDone, done, lost, faults>>

PopFails(c) ==
  /\ ~ctxDone[c]
  /\ Goto(c, "pop", "backoff")
  /\ wasRetrying' = [wasRetrying EXCEPT ![c] = TRUE]
  /\ UNCHANGED <<list, asked, current, delay, ctxDone, done, lost, faults>>

Lose(m) ==
  /\ lost'   = lost \cup {m}
  /\ breaks' = breaks + 1

\* Redis has popped a message and the connection breaks under the reply: Get
\* tries again, or returns if its context is done by then.
PopReplyLost(c) ==
  /\ list # <<>>
  /\ list' = Front(list)
  /\ Lose(Last(list))
  /\ \/ /\ ctxDone[c]
        /\ Goto(c, "pop", "exited")
        /\ UNCHANGED wasRetrying
     \/ /\ ~ctxDone[c]
        /\ Goto(c, "pop", "backoff")
        /\ wasRetrying' = [wasRetrying EXCEPT ![c] = TRUE]
  /\ UNCHANGED <<asked, current, delay, ctxDone, done, crashes>>

\* Fault: the delay grows without bound.
BackoffUnbounded(c) ==
  /\ ~ctxDone[c]
  /\ Goto(c, "backoff", "head")
  /\ delay' = [delay EXCEPT ![c] = @ + 1]
  /\ UNCHANGED <<list, asked, current, wasRetrying, ctxDone, done, lost, faults>>

BackoffOver(c) ==
  /\ Goto(c, "backoff", "head")
  /\ delay' = [delay EXCEPT ![c] = IF @ < MaxDelay THEN @ + 1 ELSE @]
  /\ UNCHANGED <<list, asked, current, wasRetrying, ctxDone, done, lost, faults>>

\* An error that is not of the connection.
PopErrs(c) ==
  /\ Goto(c, "pop", "exited")
  /\ UNCHANGED <<list, asked, current, getVars, ctxDone, done, lost, faults>>

\* Fault: BRPOP is not given the context.
GetCancelledOutsidePop(c) ==
  /\ ctxDone[c]
  /\ \E from \in {"head", "backoff"} : Goto(c, from, "exited")
  /\ UNCHANGED <<list, asked, current, getVars, ctxDone, done, lost, faults>>

GetCancelled(c) ==
  /\ ctxDone[c]
  /\ \E from \in {"head", "pop", "backoff"} : Goto(c, from, "exited")
  /\ UNCHANGED <<list, asked, current, getVars, ctxDone, done, lost, faults>>

-----------------------------------------------------------------------------
(* Remove and Requeue.                                                     *)

LetGo(c) ==
  /\ Goto(c, "holding", "loop")
  /\ current' = [current EXCEPT ![c] = Nil]

\* Remove has nothing to do: BRPOP removed the message.
RemoveMessage(c) ==
  /\ LetGo(c)
  /\ done' = done \cup {current[c]}
  /\ UNCHANGED <<list, asked, getVars, ctxDone, lost, faults>>

\* Fault: the message goes back to where BRPOP takes the next one.
RequeueAtTail(c) ==
  /\ LetGo(c)
  /\ list' = Append(list, current[c])
  /\ UNCHANGED <<asked, getVars, ctxDone, done, lost, faults>>

Requeue(c) ==
  /\ LetGo(c)
  /\ PushHead(current[c])
  /\ UNCHANGED <<asked, getVars, ctxDone, done, lost, faults>>

\* Fault: the message is forgotten although Redis has it back.
RequeueForgets(c) ==
  /\ LetGo(c)
  /\ PushHead(current[c])
  /\ Lose(current[c])
  /\ UNCHANGED <<asked, getVars, ctxDone, done, crashes>>

\* The error is logged and the message forgotten (pump.go, serveClient): it is
\* gone, unless Redis has taken it and only the reply is lost (Requeue).
RequeueFails(c) ==
  /\ LetGo(c)
  /\ Lose(current[c])
  /\ UNCHANGED <<list, asked, getVars, ctxDone, done, crashes>>

-----------------------------------------------------------------------------
(* Stopping.  Shutdown does nothing; worker.shutdown cancels the context.  *)

Cancel(c) ==
  /\ ~ctxDone[c] /\ pc[c] # "down"
  /\ ctxDone' = [ctxDone EXCEPT ![c] = TRUE]
  /\ UNCHANGED <<list, asked, pc, current, getVars, done, lost, faults>>

Crash(c) ==
  /\ crashes < MaxCrashes
  /\ crashes' = crashes + 1
  /\ pc[c] \notin {"exited", "down"}
  /\ pc'      = [pc EXCEPT ![c] = "down"]
  /\ lost'    = lost \cup ({current[c]} \ {Nil})
  /\ current' = [current EXCEPT ![c] = Nil]
  /\ UNCHANGED <<list, asked, getVars, ctxDone, done, breaks>>

Restart(c) ==
  /\ Goto(c, "down", "loop")
  /\ ctxDone' = [ctxDone EXCEPT ![c] = FALSE]
  /\ UNCHANGED <<list, asked, current, getVars, done, lost, faults>>

\* Every consumer has returned: the system may stop here.
Stopped ==
  /\ \A c \in Consumers : pc[c] = "exited"
  /\ UNCHANGED vars

GetStep(c) ==
  \/ CallGet(c) \/ TopOfLoop(c) \/ PopTimesOut(c) \/ BackoffOver(c) \/ GetCancelled(c)

Handle(c) == RemoveMessage(c) \/ Requeue(c) \/ RequeueFails(c)

Next ==
  \/ \E m \in Messages : Queue(m) \/ QueueFails(m)
  \/ \E c \in Consumers :
       \/ GetStep(c) \/ Pop(c) \/ PopFails(c) \/ PopReplyLost(c) \/ PopErrs(c)
       \/ Handle(c)
       \/ Cancel(c) \/ Crash(c) \/ Restart(c)
  \/ Stopped

\* Goroutines run on, a push ends, and however often Redis fails to answer it
\* answers again and again.
Fairness ==
  \A c \in Consumers :
    /\ WF_vars(GetStep(c))
    /\ WF_vars(Handle(c))
    /\ SF_vars(Pop(c))

Spec     == Init /\ [][Next]_vars
FairSpec == Spec /\ Fairness

-----------------------------------------------------------------------------
(* Properties.                                                             *)

TypeOK ==
  /\ list \in Seq(Messages)
  /\ asked \in [Messages -> {"no", "accepted", "refused"}]
  /\ pc \in [Consumers -> PCs]
  /\ current \in [Consumers -> Messages \cup {Nil}]
  /\ wasRetrying \in [Consumers -> BOOLEAN]
  /\ delay \in [Consumers -> 0..MaxDelay]
  /\ ctxDone \in [Consumers -> BOOLEAN]
  /\ done \subseteq Messages
  /\ lost \subseteq Messages
  /\ crashes \in 0..MaxCrashes
  /\ breaks \in Nat

Held == {current[c] : c \in {d \in Consumers : pc[d] = "holding"}}

\* How often a message is anywhere.
Copies(m) ==
  Cardinality({i \in DOMAIN list : list[i] = m})
  + Cardinality({c \in Consumers : current[c] = m})
  + Cardinality({s \in {<<"done", done>>, <<"lost", lost>>} : m \in s[2]})

\* A message is in one place however often it is requeued and whoever crashes:
\* two processes never push it both.  What was accepted is still there, done or
\* lost, and it takes a crash or a broken connection to lose one message: what
\* is in the list survives, "persistent via Redis" (README).
Custody ==
  /\ \A m \in Messages :
       /\ Copies(m) <= (IF asked[m] = "no" THEN 0 ELSE 1)
       /\ asked[m] = "accepted" => Copies(m) = 1
  /\ Cardinality(lost) <= crashes + breaks

\* Within one call of Get the wait before a retry gets no shorter until Redis
\* has answered a PING, so that a Redis that is down is left in peace.
BackoffGrows ==
  [][\A c \in Consumers :
       delay'[c] < delay[c] => pc[c] = "loop" \/ (wasRetrying[c] /\ ~wasRetrying'[c])]_vars

\* Every message in the list is handed out, however often others are requeued
\* and however often the connection fails, while some consumer goes on.
EveryMessageTaken ==
  \A m \in Messages :
    m \in ToSet(list) ~> m \notin ToSet(list) \/ \A c \in Consumers : pc[c] \in {"exited", "down"}

\* Get returns when the context is cancelled, even while it waits or retries;
\* it may still return a message, but then serveClient looks at the context.
CancelEndsConsumer ==
  \A c \in Consumers : ctxDone[c] ~> pc[c] \in {"exited", "down"}

-----------------------------------------------------------------------------
(* This is a WorkQueue that is never closed: Shutdown does not give a message *)
(* back.  A lost message counts as taken for ever.                         *)

Work == INSTANCE WorkQueue WITH
          available <- ToSet(list),
          taken     <- Held \cup lost,
          settled   <- done,
          closed    <- FALSE
ImplementsWorkQueue == Work!QueueSpec
=============================================================================
