---------------------------- MODULE RateLimiter ----------------------------
(***************************************************************************)
(* The squasher at work: workers take messages from the queue, ask         *)
(* prepareToPush, and push what it leaves to them (push and serveClient of *)
(* internal/services/pump.go).  A direct push may fail for the time being, *)
(* upon which the message goes back to the queue and is asked about again. *)
(* Nobody stops the pump here; the module Pump is about that.              *)
(***************************************************************************)
EXTENDS Squasher

VARIABLES
  queued,    (* messages in the queue                  *)
  pushing,   (* messages a worker is pushing by itself *)
  done       (* messages removed from the queue        *)

vars == <<sqVars, queued, pushing, done>>

Init ==
  /\ SquasherInit
  /\ sq      = "top"
  /\ queued  = Messages
  /\ pushing = {}
  /\ done    = {}

PushDirectly(m) ==
  /\ m \in queued
  /\ PushNow(m)
  /\ queued'  = queued \ {m}
  /\ pushing' = pushing \cup {m}
  /\ UNCHANGED done

Squashed(m) ==
  /\ m \in queued
  /\ Squash(m)
  /\ queued' = queued \ {m}
  /\ UNCHANGED <<pushing, done>>

PushSettled(m) ==
  /\ m \in pushing
  /\ pushing' = pushing \ {m}
  /\ done'    = done \cup {m}
  /\ UNCHANGED <<sqVars, queued>>

PushTempFail(m) ==
  /\ m \in pushing
  /\ pushing' = pushing \ {m}
  /\ queued'  = queued \cup {m}
  /\ UNCHANGED <<sqVars, done>>

BatchRemoval ==
  /\ RemoveSquashed
  /\ done' = done \cup {Head(sending)}
  /\ UNCHANGED <<queued, pushing>>

BatchStep ==
  /\ \/ WaitForBatch \/ Nap \/ WakeUp
     \/ \E k \in Keys : TakeBatch(k)
     \/ RecordBatch \/ SendBatch
  /\ UNCHANGED <<queued, pushing, done>>

Clock == Tick /\ UNCHANGED <<queued, pushing, done>>

Next ==
  \/ \E m \in Messages :
       PushDirectly(m) \/ Squashed(m) \/ PushSettled(m) \/ PushTempFail(m)
  \/ BatchRemoval \/ BatchStep \/ Clock

\* Time passes and the squasher's goroutine runs.
Fairness == WF_vars(Clock) /\ WF_vars(BatchStep \/ BatchRemoval)

Spec     == Init /\ [][Next]_vars
FairSpec == Spec /\ Fairness

-----------------------------------------------------------------------------
(* Properties.                                                             *)

TypeOK ==
  /\ SquasherTypeOK
  /\ queued \subseteq Messages
  /\ pushing \subseteq Messages
  /\ done \subseteq Messages

InBatch(m) == \E k \in Keys : m \in ToSet(batches[k])

\* The rate the operator asks for (main.go: "Email max. rate (amount)"): at
\* most RateMax pushes to a key within RatePer.
RateKept == \A k \in Keys : Len(InWindow(k)) <= RateMax

\* What the squasher does keep, however its goroutine and the workers are
\* scheduled: at most two pushes more.  One is that of a batch sent while the
\* workers have refilled the window; another, of a batch that became due while
\* the squasher was between taking the batch before it and recording its push.
RateBound == \A k \in Keys : Len(InWindow(k)) <= RateMax + 2

\* A message is in one place only: with the queue, with a worker, in a batch,
\* on its way out with the squasher, or done.  So none is pushed both by a
\* worker and in a batch, and none is in two batches.
OnePlace ==
  LET place == <<queued, pushing, done, {m \in Messages : InBatch(m)}, ToSet(sending)>>
  IN  \A m \in Messages : Cardinality({i \in DOMAIN place : m \in place[i]}) = 1

\* A squashed message is sent: its batch becomes due and is taken.  (Each
\* message that joins the batch sets its due time anew, and may put it off; the
\* messages are finitely many.)
SquashedIsSent == \A m \in Messages : InBatch(m) ~> m \in done
=============================================================================
