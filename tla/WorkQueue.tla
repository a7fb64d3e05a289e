----------------------------- MODULE WorkQueue -----------------------------
(***************************************************************************)
(* What a queue.Queue promises to the pump that serves it, whatever keeps  *)
(* the messages (internal/queue/queue.go, the interface and its uses in    *)
(* internal/services/pump.go).  A message is accepted once, handed out to  *)
(* at most one holder at a time, and then either removed for good or put   *)
(* back.  Nothing is said of the order in which messages are handed out.   *)
(***************************************************************************)

CONSTANT Messages  (* one element per accepted message *)

VARIABLES
  available,  (* messages that Get may hand out                *)
  taken,      (* messages handed out, neither removed nor back *)
  settled,    (* messages removed for good                     *)
  closed      (* Shutdown was called                           *)

queueVars == <<available, taken, settled, closed>>

QueueTypeOK ==
  /\ available \subseteq Messages
  /\ taken     \subseteq Messages
  /\ settled   \subseteq Messages
  /\ closed    \in BOOLEAN

QueueInit ==
  /\ available = {}
  /\ taken     = {}
  /\ settled   = {}
  /\ closed    = FALSE

-----------------------------------------------------------------------------

\* Queue(msg)
Accept(m) ==
  /\ m \notin available \cup taken \cup settled
  /\ available' = available \cup {m}
  /\ UNCHANGED <<taken, settled, closed>>

\* Get(ctx) returning a message
Take(m) ==
  /\ ~closed
  /\ m \in available
  /\ available' = available \ {m}
  /\ taken'     = taken \cup {m}
  /\ UNCHANGED <<settled, closed>>

\* Remove(msg)
Settle(m) ==
  /\ m \in taken
  /\ taken'   = taken \ {m}
  /\ settled' = settled \cup {m}
  /\ UNCHANGED <<available, closed>>

\* Requeue(msg)
Release(m) ==
  /\ m \in taken
  /\ taken'     = taken \ {m}
  /\ available' = available \cup {m}
  /\ UNCHANGED <<settled, closed>>

\* Shutdown()
Close ==
  /\ closed' = TRUE
  /\ UNCHANGED <<available, taken, settled>>

QueueNext ==
  \/ \E m \in Messages : Accept(m) \/ Take(m) \/ Settle(m) \/ Release(m)
  \/ Close

QueueSpec == QueueInit /\ [][QueueNext]_queueVars
=============================================================================
