------------------------------ MODULE Squasher ------------------------------
(***************************************************************************)
(* The squasher of internal/services/squasher.go.  Workers ask it before   *)
(* each push (prepareToPush): while fewer than RateMax pushes to a key were *)
(* recorded in the last RatePer, the worker pushes the message itself;     *)
(* otherwise the message joins the batch of its key.  One goroutine waits  *)
(* for the batch that is due first and sends it as a single push.          *)
(*                                                                         *)
(* This module holds the squasher's state and its steps.  RateLimiter      *)
(* closes it with workers that keep offering messages; Pump composes it    *)
(* with the real life cycle of the workers.                                *)
(*                                                                         *)
(* Time is counted in units of maxZzz (half a second), and a moment is     *)
(* kept as its distance from now, so that the clock can run for ever: the  *)
(* age of a recorded push, the time left until a batch is due.  Ages past  *)
(* RatePer are all alike, and so are the due times that have passed.  All  *)
(* readings of the clock in one critical section are the same.             *)
(***************************************************************************)
EXTENDS Integers, Sequences, FiniteSets, SequencesExt

CONSTANTS
  Messages,
  Keys,       (* squash keys: chat ids, mail addresses *)
  KeyOf,      (* GetSquashKey of each message          *)
  RateMax,
  RatePer

ASSUME SquasherAssumption ==
  /\ KeyOf \in [Messages -> Keys]
  /\ RateMax \in Nat \ {0}  (* NewPump makes no squasher for a RateMax of 0 *)
  /\ RatePer \in Nat

VARIABLES
  pushedAt,    (* per key, the ages of the recorded pushes         *)
  batches,     (* per key, the squashed messages; <<>> if no batch *)
  due,         (* per key, the time left until its batch is due    *)
  stopReq,     (* shuttingDown                                     *)
  sq,          (* where the squasher's goroutine is                *)
  wakeIn,      (* the time left of its time.Sleep                  *)
  sending      (* the batch it took, less the messages removed     *)

rateVars  == <<pushedAt, batches, due>>
sqVars    == <<rateVars, stopReq, sq, wakeIn, sending>>

\* "top"      in getNextBatch, before the lock
\* "waiting"  in cond.Wait          "woken"  signalled, to go on after Wait
\* "asleep"   in time.Sleep
\* "record"   has a batch, to record its push
\* "send"     in SquashAndPushMessage
\* "remove"   removing the batch's messages from the queue
\* "stopped"  serve has returned, or no squasher was made
SqPCs == {"top", "waiting", "woken", "asleep",
          "record", "send", "remove", "stopped"}

TooOld == RatePer + 1
Passed == -1

Batched == {k \in Keys : batches[k] # <<>>}

\* What flushAndGetRate leaves of the pushes recorded for k.
InWindow(k) ==
  LET times == pushedAt[k]
      flushed[i \in 0..Len(times)] ==
        IF i = 0 THEN <<>>
        ELSE IF times[i] > RatePer THEN flushed[i - 1]
        ELSE Append(flushed[i - 1], times[i])
  IN  flushed[Len(times)]

SquasherInit ==
  /\ pushedAt = [k \in Keys |-> <<>>]
  /\ batches  = [k \in Keys |-> <<>>]
  /\ due      = [k \in Keys |-> 0]
  /\ stopReq  = FALSE
  /\ wakeIn   = 0
  /\ sending  = <<>>

Older(age)    == IF age < TooOld THEN age + 1 ELSE age
Sooner(k)     == IF k \in Batched /\ due[k] > Passed THEN due[k] - 1 ELSE due[k]

\* Half a second goes by.
Tick ==
  /\ pushedAt' = [k \in Keys |-> [i \in DOMAIN pushedAt[k] |-> Older(pushedAt[k][i])]]
  /\ due'      = [k \in Keys |-> Sooner(k)]
  /\ wakeIn'   = 0
  /\ UNCHANGED <<batches, stopReq, sq, sending>>

Signal == sq' = IF sq = "waiting" THEN "woken" ELSE sq

-----------------------------------------------------------------------------
(* prepareToPush, called by a worker that holds message m.                 *)

\* Faults are variants of a definition, as a slip in the code would make it;
\* with the variant in its place a property of the runs fails.  The first: the
\* comparison with RateMax is off by one.
PushNowOffByOne(m) ==
  LET k == KeyOf[m] IN
  /\ Len(InWindow(k)) <= RateMax
  /\ pushedAt' = [pushedAt EXCEPT ![k] = Append(InWindow(k), 0)]
  /\ UNCHANGED <<batches, due, stopReq, sq, wakeIn, sending>>

\* Fault: the squasher is not signalled.
SquashSilent(m) ==
  LET k == KeyOf[m] IN
  /\ Len(InWindow(k)) >= RateMax
  /\ pushedAt' = [pushedAt EXCEPT ![k] = InWindow(k)]
  /\ batches'  = [batches EXCEPT ![k] = Append(@, m)]
  /\ due'      = [due EXCEPT ![k] = RatePer - Head(InWindow(k))]
  /\ UNCHANGED <<stopReq, sq, wakeIn, sending>>

\* Not squashed: the push is recorded before it is made.
PushNow(m) ==
  LET k == KeyOf[m] IN
  /\ Len(InWindow(k)) < RateMax
  /\ pushedAt' = [pushedAt EXCEPT ![k] = Append(InWindow(k), 0)]
  /\ UNCHANGED <<batches, due, stopReq, sq, wakeIn, sending>>

\* Squashed: the batch falls due when the oldest push leaves the window.
Squash(m) ==
  LET k == KeyOf[m] IN
  /\ Len(InWindow(k)) >= RateMax
  /\ pushedAt' = [pushedAt EXCEPT ![k] = InWindow(k)]
  /\ batches'  = [batches EXCEPT ![k] = Append(@, m)]
  /\ due'      = [due EXCEPT ![k] = RatePer - Head(InWindow(k))]
  /\ Signal
  /\ UNCHANGED <<stopReq, wakeIn, sending>>

\* Fault: the flag is not set.
RequestShutdownForgets ==
  /\ Signal
  /\ UNCHANGED <<rateVars, stopReq, wakeIn, sending>>

\* requestShutdown, called by each worker that leaves its loop.
RequestShutdown ==
  /\ stopReq' = TRUE
  /\ Signal
  /\ UNCHANGED <<rateVars, wakeIn, sending>>

-----------------------------------------------------------------------------
(* The goroutine: getNextBatch, then sendBatch.                            *)

\* len(d.batches) is looked at, shuttingDown is not.
WaitForBatch ==
  /\ sq = "top" /\ Batched = {}
  /\ sq' = "waiting"
  /\ UNCHANGED <<rateVars, stopReq, wakeIn, sending>>

\* Past the wait, with the lock.
Choosing == sq = "woken" \/ (sq = "top" /\ Batched # {})

Stop ==
  /\ Choosing /\ stopReq
  /\ sq' = "stopped"
  /\ UNCHANGED <<rateVars, stopReq, wakeIn, sending>>

DueFirst(k) == k \in Batched /\ \A l \in Batched : due[k] <= due[l]

\* Fault: the batch stays in the map.
TakeBatchKept(k) ==
  /\ Choosing /\ ~stopReq
  /\ DueFirst(k) /\ due[k] = Passed
  /\ sending' = batches[k]
  /\ sq' = "record"
  /\ UNCHANGED <<rateVars, stopReq, wakeIn>>

TakeBatch(k) ==
  /\ Choosing /\ ~stopReq
  /\ DueFirst(k) /\ due[k] = Passed
  /\ sending' = batches[k]
  /\ batches' = [batches EXCEPT ![k] = <<>>]
  /\ due'     = [due EXCEPT ![k] = 0]
  /\ sq' = "record"
  /\ UNCHANGED <<pushedAt, stopReq, wakeIn>>

\* Nothing is due: sleep until then, one unit (half a second) at most.
Nap ==
  /\ Choosing /\ ~stopReq
  /\ \E k \in Keys :
       /\ DueFirst(k) /\ due[k] # Passed
       /\ wakeIn' = Min({due[k], 1})
  /\ sq' = "asleep"
  /\ UNCHANGED <<rateVars, stopReq, sending>>

WakeUp ==
  /\ sq = "asleep" /\ wakeIn = 0
  /\ sq' = "top"
  /\ UNCHANGED <<rateVars, stopReq, wakeIn, sending>>

\* The window is not looked at again.
RecordBatch ==
  LET k == KeyOf[Head(sending)] IN
  /\ sq = "record"
  /\ pushedAt' = [pushedAt EXCEPT ![k] = Append(@, 0)]
  /\ sq' = "send"
  /\ UNCHANGED <<batches, due, stopReq, wakeIn, sending>>

\* Whatever the outcome, the messages are removed.
SendBatch ==
  /\ sq = "send"
  /\ sq' = "remove"
  /\ UNCHANGED <<rateVars, stopReq, wakeIn, sending>>

RemoveSquashed ==
  /\ sq = "remove"
  /\ sending' = Tail(sending)
  /\ sq' = IF Len(sending) = 1 THEN "top" ELSE "remove"
  /\ UNCHANGED <<rateVars, stopReq, wakeIn>>

-----------------------------------------------------------------------------

SquasherTypeOK ==
  /\ pushedAt \in [Keys -> Seq(0..TooOld)]
  /\ batches \in [Keys -> Seq(Messages)]
  /\ due \in [Keys -> Passed..RatePer]
  /\ stopReq \in BOOLEAN
  /\ sq \in SqPCs
  /\ wakeIn \in 0..1
  /\ sending \in Seq(Messages)

\* getNextBatch waits once, not in a loop: when it goes on after the wait it
\* assumes that there is a batch or a request to stop.  Were there neither,
\* it would send an empty batch.
WokenForAReason == sq = "woken" => Batched # {} \/ stopReq
=============================================================================
