---------------------------- MODULE PumpContract ----------------------------
(***************************************************************************)
(* What the worker of a service, and with it the server, may rely on while *)
(* a pump serves its queue (Pump.Serve as internal/server/worker.go calls  *)
(* it): whatever goroutines there are within, each message is waiting, with *)
(* somebody who is busy with it, parked in a batch, or settled; and Serve   *)
(* returns only when nobody is busy and, unless the queue is in Redis, only *)
(* after the queue was shut down.  Module Pump implements it in detail,     *)
(* Server puts several of them side by side.                               *)
(***************************************************************************)
CONSTANT Messages

VARIABLES
  redis,      (* the queue is in Redis: Get and Requeue may fail at any time *)
  available,  (* messages in the queue                                       *)
  busy,       (* messages that are being handled                             *)
  parked,     (* messages that wait in a batch                               *)
  settled,    (* messages removed for good                                   *)
  lost,       (* messages that could not be put back                         *)
  closed,     (* the queue was shut down                                     *)
  state       (* "starting", "running", or "over": Serve has returned        *)

places       == <<available, busy, parked, settled, lost>>
contractVars == <<redis, places, closed, state>>

ContractInit ==
  /\ redis \in BOOLEAN
  /\ available = {} /\ busy = {} /\ parked = {} /\ settled = {} /\ lost = {}
  /\ closed = FALSE
  /\ state = "starting"

Anywhere == available \cup busy \cup parked \cup settled \cup lost

\* Messages are accepted whether or not there is anybody to handle them.
Accept(m) ==
  /\ m \notin Anywhere
  /\ available' = available \cup {m}
  /\ UNCHANGED <<redis, busy, parked, settled, lost, closed, state>>

Take(m) ==
  /\ state = "running" /\ ~closed /\ m \in available
  /\ available' = available \ {m} /\ busy' = busy \cup {m}
  /\ UNCHANGED <<redis, parked, settled, lost, closed, state>>

Settle(m) ==
  /\ state = "running" /\ m \in busy
  /\ busy' = busy \ {m} /\ settled' = settled \cup {m}
  /\ UNCHANGED <<redis, available, parked, lost, closed, state>>

Release(m) ==
  /\ state = "running" /\ m \in busy
  /\ busy' = busy \ {m} /\ available' = available \cup {m}
  /\ UNCHANGED <<redis, parked, settled, lost, closed, state>>

Lose(m) ==
  /\ redis
  /\ state = "running" /\ m \in busy
  /\ busy' = busy \ {m} /\ lost' = lost \cup {m}
  /\ UNCHANGED <<redis, available, parked, settled, closed, state>>

Park(m) ==
  /\ state = "running" /\ m \in busy
  /\ busy' = busy \ {m} /\ parked' = parked \cup {m}
  /\ UNCHANGED <<redis, available, settled, lost, closed, state>>

\* A whole batch is sent.
Unpark(batch) ==
  /\ state = "running"
  /\ parked' = parked \ batch /\ busy' = busy \cup batch
  /\ UNCHANGED <<redis, available, settled, lost, closed, state>>

Close ==
  /\ closed' = TRUE
  /\ UNCHANGED <<redis, places, state>>

\* The clients are made, or NewClient fails.
Start ==
  /\ state = "starting"
  /\ state' \in {"running", "over"}
  /\ UNCHANGED <<redis, places, closed>>

\* What is parked is left behind.
Return ==
  /\ state = "running"
  /\ closed \/ redis
  /\ busy = {}
  /\ state' = "over"
  /\ UNCHANGED <<redis, places, closed>>

ContractNext ==
  \/ \E m \in Messages :
       Accept(m) \/ Take(m) \/ Settle(m) \/ Release(m) \/ Lose(m) \/ Park(m)
  \/ \E batch \in SUBSET parked : Unpark(batch)
  \/ Close \/ Start \/ Return

ContractSpec == ContractInit /\ [][ContractNext]_contractVars
=============================================================================
