------------------------------ MODULE Delivery ------------------------------
(***************************************************************************)
(* What becomes of the messages of one service, end to end: they are taken *)
(* from the queue, converted, pushed by the service's adapter or squashed, *)
(* tried again after a failure for the time being (services/pump.go), while *)
(* the push service may answer or not, and may have taken a message though  *)
(* its answer says otherwise or is lost.  Adapters has the adapters; when a *)
(* message is squashed, and how long a back-off takes, is left open here   *)
(* (see Squasher): any message of a service with a rate may be.            *)
(*                                                                         *)
(* The push service is outside the repository.                             *)
(***************************************************************************)
EXTENDS Adapters, FiniteSets, SequencesExt

CONSTANTS
  Messages,   (* messages to one destination                               *)
  Contents,   (* per service, what they may contain                        *)
  MaxFaults   (* how often the push service is out of order: a bound on    *)
              (* the model, and the end of every outage                    *)

ASSUME DeliveryAssumption ==
  /\ IsFiniteSet(Messages)
  /\ DOMAIN Contents \subseteq Services
  /\ MaxFaults \in Nat

VARIABLES
  service,     (* the one whose pump this is                               *)
  content,     (* per message, its fields                                  *)
  place,       (* where a message is                                       *)
  batch,       (* the messages squashed, in that order                     *)
  successes,   (* the counter shove_push_success_total                     *)
  reported,    (* per message, how often its token was put into feedback   *)
  \* history
  arrived,     (* per message, how often the push service took it          *)
  unsure,      (* messages it took without a proper answer                 *)
  last,        (* per message, the last reply to a push that carried it    *)
  spoilt,      (* messages whose batch could not be squashed               *)
  squashed,    (* messages that were in a batch                            *)
  acked, took, (* how many pushes it answered as "accepted", and took      *)
  faults

shoveVars   == <<place, batch, successes, reported>>
historyVars == <<arrived, unsure, last, spoilt, squashed, acked, took, faults>>
vars        == <<service, content, shoveVars, historyVars>>

Places == {"unsent", "queued", "pushing", "batched", "settled"}

Outages == {"silence", "garbled", "throttled", "failing", "forbidden"}

\* With these replies the push service has taken the message, has told so
\* properly, or may have taken it.
Taken     == {"accepted", "unusual", "garbled"}
Confirmed == {"accepted", "unusual"}
MayTake   == {"silence", "failing"}

Init ==
  /\ service \in DOMAIN Contents
  /\ content \in [Messages -> Contents[service]]
  /\ place    = [m \in Messages |-> "unsent"]
  /\ batch    = <<>>
  /\ successes = 0
  /\ reported = [m \in Messages |-> 0]
  /\ arrived  = [m \in Messages |-> 0]
  /\ last     = [m \in Messages |-> "none"]
  /\ unsure = {} /\ spoilt = {} /\ squashed = {}
  /\ acked = 0 /\ took = 0 /\ faults = 0

One(happens) == IF happens THEN 1 ELSE 0

Move(m, from, to) ==
  /\ place[m] = from
  /\ place'   = [place EXCEPT ![m] = to]

\* By a client of Redis, whom nobody checks, or by a handler, which has called
\* Validate.
Enqueue(m) ==
  /\ Move(m, "unsent", "queued")
  /\ UNCHANGED <<service, content, batch, successes, reported, historyVars>>

RemoveBad(m) ==
  /\ ~Converts(service, content[m])
  /\ Move(m, "queued", "settled")
  /\ UNCHANGED <<service, content, batch, successes, reported, historyVars>>

PushDirectly(m) ==
  /\ Converts(service, content[m])
  /\ Move(m, "queued", "pushing")
  /\ UNCHANGED <<service, content, batch, successes, reported, historyVars>>

Squash(m) ==
  /\ service \in Squashing /\ Converts(service, content[m])
  /\ Move(m, "queued", "batched")
  /\ batch'    = Append(batch, m)
  /\ squashed' = squashed \cup {m}
  /\ UNCHANGED <<service, content, successes, reported,
                 arrived, unsure, last, spoilt, acked, took, faults>>

\* The push service replies to a push of the messages ms, in the name of m:
\* what it does with them, and what the adapter makes of it.
Reply(m, ms, reply, taken) ==
  /\ taken = (reply \in Taken) \/ reply \in MayTake
  /\ IF reply \in Outages
     THEN faults < MaxFaults /\ faults' = faults + 1
     ELSE UNCHANGED faults
  /\ successes' = successes + One(reply \in Adapter[service].counted)
  /\ reported'  = [reported EXCEPT ![m] = @ + One(reply \in Adapter[service].reports)]
  /\ arrived'   = [n \in Messages |-> arrived[n] + One(taken /\ n \in ms)]
  /\ last'      = [n \in Messages |-> IF n \in ms THEN reply ELSE last[n]]
  /\ unsure'    = IF taken /\ reply \notin Confirmed THEN unsure \cup ms ELSE unsure
  /\ acked'     = acked + One(reply = "accepted")
  /\ took'      = took + One(taken)

\* Fault: a failure for good is not told from one for the time being.
PushAgain(m) ==
  \E reply \in RepliesTo(service, content[m]), taken \in BOOLEAN :
    /\ Reply(m, {m}, reply, taken)
    /\ Move(m, "pushing",
            IF reply \in Adapter[service].success THEN "settled" ELSE "queued")
    /\ UNCHANGED <<service, content, batch, spoilt, squashed>>

\* Removed, or requeued and tried again after the back-off.
Push(m) ==
  \E reply \in RepliesTo(service, content[m]), taken \in BOOLEAN :
    /\ Reply(m, {m}, reply, taken)
    /\ Move(m, "pushing",
            IF reply \in Adapter[service].retry THEN "queued" ELSE "settled")
    /\ UNCHANGED <<service, content, batch, spoilt, squashed>>

BatchContents == [i \in DOMAIN batch |-> content[batch[i]]]

BatchOver ==
  /\ batch' = <<>>
  /\ place' = [m \in Messages |-> IF m \in ToSet(batch) THEN "settled" ELSE place[m]]

\* A batch that fails for the time being is given up as well.
SendBatch ==
  /\ batch # <<>> /\ ~SquashFails(service, BatchContents)
  /\ \E reply \in RepliesTo(service, content[Head(batch)]), taken \in BOOLEAN :
       Reply(Head(batch), {batch[i] : i \in Digested(service, BatchContents)}, reply, taken)
  /\ BatchOver
  /\ UNCHANGED <<service, content, spoilt, squashed>>

\* Nothing is sent, and nothing counted.
SpoiltBatch ==
  /\ batch # <<>> /\ SquashFails(service, BatchContents)
  /\ BatchOver
  /\ spoilt' = spoilt \cup ToSet(batch)
  /\ UNCHANGED <<service, content, successes, reported,
                 arrived, unsure, last, squashed, acked, took, faults>>

Quiet ==
  /\ \A m \in Messages : place[m] = "settled"
  /\ UNCHANGED vars

Handle(m) == RemoveBad(m) \/ PushDirectly(m) \/ Squash(m)

Next ==
  \/ \E m \in Messages : Enqueue(m) \/ Handle(m) \/ Push(m)
  \/ SendBatch \/ SpoiltBatch
  \/ Quiet

\* The clients of these adapters have a time-out.  FCM's NewClient makes one as
\* well, which is not used, and the SMTP client is given none.
Timed == {"apns", "telegram", "webhook", "webpush"}

\* Workers and the squasher run on, and a push that has a time-out ends.
Fairness ==
  /\ \A m \in Messages :
       WF_vars(Handle(m)) /\ WF_vars(service \in Timed /\ Push(m))
  /\ WF_vars(SpoiltBatch \/ (service \in Timed /\ SendBatch))

Spec     == Init /\ [][Next]_vars
FairSpec == Spec /\ Fairness

-----------------------------------------------------------------------------
(* Properties.                                                             *)

TypeOK ==
  /\ service \in DOMAIN Contents
  /\ content \in [Messages -> Contents[service]]
  /\ place \in [Messages -> Places]
  /\ batch \in Seq(Messages)
  /\ successes \in Nat /\ acked \in Nat /\ took \in Nat
  /\ reported \in [Messages -> Nat]
  /\ arrived \in [Messages -> Nat]
  /\ last \in [Messages -> Replies \cup {"none"}]
  /\ unsure \subseteq Messages /\ spoilt \subseteq Messages /\ squashed \subseteq Messages
  /\ faults \in 0..MaxFaults

\* The adapters that try again when the push service cannot be reached or is
\* failing; to the others that is a failure for good.
Patient == {"apns", "fcm", "telegram"}

\* Nobody is notified twice of one message, but for the adapters that try again
\* and after a push that the service took without a proper answer.
TwiceOnlyIfUnsure ==
  \A m \in Messages : arrived[m] > 1 => m \in unsure /\ service \in Patient

\* Of a message that is gone from the queue and was never taken by the push
\* service, one of these is true: it could not be converted; the service had
\* something against it; the service was out of order, which the adapter takes
\* for good or which hit a batch; its batch could not be squashed; or it was
\* squashed and had no text.  Nothing else loses a message.
LossExplained ==
  \A m \in Messages : place[m] = "settled" /\ arrived[m] = 0 =>
    \/ ~Converts(service, content[m])
    \/ last[m] \in {"gone", "refused", "unsendable"}
    \/ last[m] \in {"denied", "forbidden"} /\ service # "fcm"
    \/ last[m] \in {"silence", "garbled", "muddled", "failing"}
         /\ (m \in squashed \/ service \notin Patient)
    \/ last[m] = "throttled" /\ (m \in squashed \/ service \notin {"fcm", "telegram", "webpush"})
    \/ m \in spoilt
    \/ m \in squashed /\ service = "telegram" /\ content[m] \cap {"text", "caption"} = {}

\* A token is put into feedback once for a message, and the message is not
\* pushed to it again: the application is told once, and can act on it.
ReportedOnce ==
  \A m \in Messages : reported[m] > 0 => reported[m] = 1 /\ place[m] = "settled"

\* The counter of successes counts every push that the service acknowledged as
\* it should (but for Telegram: see SuccessesCounted), and none that it did not
\* take.  Of another 2xx nothing is said: APNS and Web Push do not count it.
SuccessesTrue ==
  /\ successes <= took
  /\ acked <= successes \/ service = "telegram"

\* "The total number of successful push notifications sent" (metrics.go).
SuccessesCounted == acked <= successes

\* No push hangs, nor the squasher on its way to one.
PushesEnd ==
  \A m \in Messages :
    place[m] \in {"pushing", "batched"} ~> place[m] \notin {"pushing", "batched"}

\* The replies that are not of an outage, need not end, and are taken for a
\* failure for the time being: an answer that the adapter cannot decode, and an
\* error that a client library or FCM has with this one message.
Endless ==
  [apns |-> {"unsendable", "muddled"}, fcm |-> {"objected", "denied"},
   webhook |-> {}, telegram |-> {"muddled"}, webpush |-> {}, email |-> {}]

\* Once the push service works again every message is dealt with, if pushes
\* without a time-out end by themselves, or else is pushed once more after a
\* reply in Endless: these alone make an adapter try for ever.
SettledInTheEnd ==
  service \in Timed \/ PushesEnd =>
    \A m \in Messages :
      place[m] = "queued" ~>
        \/ place[m] = "settled"
        \/ place[m] = "pushing" /\ last[m] \in Endless[service]
=============================================================================
