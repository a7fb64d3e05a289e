--------------------------- MODULE DeliveryProofs ---------------------------
(***************************************************************************)
(* What the adapters and the pump make of the replies of a push service:   *)
(* the safety properties of Delivery, for any messages, contents and number *)
(* of faults.                                                              *)
(*                                                                         *)
(* None of them is inductive by itself.  That a second copy may reach the  *)
(* service only in doubt needs to know of the first one (Unsettled); that   *)
(* the messages of a batch are accounted for needs to know which they are  *)
(* (Batching), and that none of them is pushed or settled otherwise.       *)
(***************************************************************************)
EXTENDS Delivery, TLAPS

\* A batch has the messages that wait for the squasher, of a service that has
\* a rate.
Batching ==
  /\ ToSet(batch) = {m \in Messages : place[m] = "batched"}
  /\ ToSet(batch) \subseteq squashed
  /\ batch # <<>> => service \in Squashing

\* What is still to be pushed, and may have been taken, was in doubt.
Doubt(m) ==
  /\ arrived[m] > 0 => place[m] = "settled" \/ (m \in unsure /\ service \in Patient)
  /\ arrived[m] > 1 => m \in unsure /\ service \in Patient

\* Why a message is gone that was not taken.
Reason(m) ==
  \/ ~Converts(service, content[m])
  \/ last[m] \in {"gone", "refused", "unsendable"}
  \/ last[m] \in {"denied", "forbidden"} /\ service # "fcm"
  \/ last[m] \in {"silence", "garbled", "muddled", "failing"}
       /\ (m \in squashed \/ service \notin Patient)
  \/ last[m] = "throttled" /\ (m \in squashed \/ service \notin {"fcm", "telegram", "webpush"})
  \/ m \in spoilt
  \/ m \in squashed /\ service = "telegram" /\ content[m] \cap {"text", "caption"} = {}

Account(m) ==
  /\ Doubt(m)
  /\ place[m] = "settled" /\ arrived[m] = 0 => Reason(m)
  /\ reported[m] > 0 => reported[m] = 1 /\ place[m] = "settled"

IInv ==
  /\ TypeOK /\ Batching /\ SuccessesTrue
  /\ \A m \in Messages : Account(m)

-----------------------------------------------------------------------------
(* The six adapters.                                                       *)

\* What is tried again was not confirmed, and neither is a token that is gone;
\* it may have been taken only if the adapter is patient.  A success is counted
\* for what was taken alone, and for all that was accepted, but by Telegram's.
LEMMA WhatAdaptersMakeOfReplies ==
  ASSUME NEW s \in Services
  PROVE  /\ Adapter[s].retry \cap (Confirmed \cup {"gone"}) = {}
         /\ Adapter[s].retry \cap (Taken \cup MayTake) # {} => s \in Patient
         /\ Adapter[s].counted \subseteq Taken
         /\ s # "telegram" => "accepted" \in Adapter[s].counted
         /\ Adapter[s].reports \subseteq {"gone"}
<1>1. s \in {"apns", "fcm", "telegram", "webhook", "webpush", "email"}
  BY DEF Services, Adapter
<1>2. CASE s = "apns"
  BY <1>2 DEF Adapter, Apns, Taken, Confirmed, MayTake, Patient
<1>3. CASE s = "fcm"
  BY <1>3 DEF Adapter, Fcm, Taken, Confirmed, MayTake, Patient, Replies, Unsent
<1>4. CASE s = "telegram"
  BY <1>4 DEF Adapter, Telegram, Taken, Confirmed, MayTake, Patient
<1>5. CASE s = "webhook"
  BY <1>5 DEF Adapter, Webhook, Taken, Confirmed, MayTake, Patient
<1>6. CASE s = "webpush"
  BY <1>6 DEF Adapter, Webpush, Taken, Confirmed, MayTake, Patient
<1>7. CASE s = "email"
  BY <1>7 DEF Adapter, Email, Taken, Confirmed, MayTake, Patient
<1> QED BY <1>1, <1>2, <1>3, <1>4, <1>5, <1>6, <1>7

\* A reply is one of Replies; the libraries' own checks are FCM's alone, and
\* only the services whose answers are decoded first have a muddled one.
LEMMA WhatServicesReply ==
  ASSUME NEW s, NEW f, NEW reply \in RepliesTo(s, f)
  PROVE  /\ reply \in Replies
         /\ reply = "objected" => s = "fcm"
         /\ reply = "muddled" => s \in {"apns", "telegram"}
<1>1. CASE "malformed" \in f
  BY <1>1 DEF RepliesTo, Replies, Unsent
<1>2. CASE "malformed" \notin f /\ s = "fcm" /\ FcmObjects(f)
  BY <1>2 DEF RepliesTo, Replies, Unsent
<1>3. CASE "malformed" \notin f /\ ~(s = "fcm" /\ FcmObjects(f))
  BY <1>3 DEF RepliesTo, Unsent, Decoding
<1> QED BY <1>1, <1>2, <1>3

\* The replies after which a message that was not taken is given up.
LEMMA WhatAdaptersGiveUp ==
  ASSUME NEW s \in Services, NEW f, NEW reply \in RepliesTo(s, f),
         reply \notin Adapter[s].retry, reply \notin Taken
  PROVE  \/ reply \in {"gone", "refused", "unsendable"}
         \/ reply \in {"denied", "forbidden"} /\ s # "fcm"
         \/ reply \in {"silence", "failing"} /\ s \notin Patient
         \/ reply = "throttled" /\ s \notin {"fcm", "telegram", "webpush"}
<1>1. s \in {"apns", "fcm", "telegram", "webhook", "webpush", "email"}
  BY DEF Services, Adapter
<1>2. reply \in {"silence", "failing", "throttled", "gone", "refused", "forbidden", "denied",
                 "muddled", "unsendable", "objected"}
  BY WhatServicesReply DEF Replies, Unsent, Taken
<1>3. /\ reply = "objected" => s = "fcm"
      /\ reply = "muddled" => s \in {"apns", "telegram"}
  BY WhatServicesReply
<1>4. CASE s = "apns"
  BY <1>2, <1>3, <1>4 DEF Adapter, Apns, Patient
<1>5. CASE s = "fcm"
  BY <1>2, <1>5 DEF Adapter, Fcm, Replies, Unsent
<1>6. CASE s = "telegram"
  BY <1>2, <1>3, <1>6 DEF Adapter, Telegram, Patient
<1>7. CASE s = "webhook" \/ s = "webpush" \/ s = "email"
  <2>1. s \notin Patient
    BY <1>7 DEF Patient
  <2>2. s = "webpush" => reply # "throttled"
    BY DEF Adapter, Webpush
  <2> QED BY <1>2, <1>3, <1>7, <2>1, <2>2
<1> QED BY <1>1, <1>4, <1>5, <1>6, <1>7

\* Only Telegram's adapter leaves messages out of a digest.
LEMMA WhatSquashingLoses ==
  ASSUME NEW s \in Squashing, NEW fs
  PROVE  /\ \A i \in DOMAIN fs : i \notin Digested(s, fs) =>
              s = "telegram" /\ fs[i] \cap {"text", "caption"} = {}
         /\ Digested(s, fs) \subseteq DOMAIN fs
  BY DEF Squashing, Digested

-----------------------------------------------------------------------------
(* A reply.                                                                *)

LEMMA ReplyKeepsTypes ==
  ASSUME TypeOK, service' = service, content' = content,
         NEW m \in Messages, NEW ms \in SUBSET Messages, NEW reply \in Replies,
         NEW taken \in BOOLEAN, Reply(m, ms, reply, taken)
  PROVE  /\ successes' \in Nat /\ acked' \in Nat /\ took' \in Nat
         /\ reported' \in [Messages -> Nat]
         /\ arrived' \in [Messages -> Nat]
         /\ last' \in [Messages -> Replies \cup {"none"}]
         /\ unsure' \subseteq Messages
         /\ faults' \in 0..MaxFaults
<1>2. \A n \in Nat : n + 0 \in Nat /\ n + 1 \in Nat
  OBVIOUS
<1>3. successes' \in Nat /\ acked' \in Nat /\ took' \in Nat
  <2>1. successes \in Nat /\ acked \in Nat /\ took \in Nat
    BY DEF TypeOK
  <2>2. /\ successes' = successes + 0 \/ successes' = successes + 1
        /\ acked' = acked + 0 \/ acked' = acked + 1
        /\ took' = took + 0 \/ took' = took + 1
    BY DEF Reply, One
  <2> QED BY <1>2, <2>1, <2>2
<1>4. reported' \in [Messages -> Nat]
  <2>1. reported[m] + 0 \in Nat /\ reported[m] + 1 \in Nat
    BY <1>2 DEF TypeOK
  <2>2. \/ reported' = [reported EXCEPT ![m] = @ + 0]
        \/ reported' = [reported EXCEPT ![m] = @ + 1]
    BY DEF Reply, One
  <2> QED BY <2>1, <2>2 DEF TypeOK
<1>5. arrived' \in [Messages -> Nat]
  <2>1. \A n \in Messages : arrived[n] + 0 \in Nat /\ arrived[n] + 1 \in Nat
    BY <1>2 DEF TypeOK
  <2>2. /\ arrived' = [n \in Messages |-> arrived'[n]]
        /\ \A n \in Messages : arrived'[n] = arrived[n] + 0 \/ arrived'[n] = arrived[n] + 1
    BY DEF Reply, One
  <2> QED BY <2>1, <2>2
<1>6. last' \in [Messages -> Replies \cup {"none"}]
  BY DEF Reply, TypeOK
<1>7. unsure' \subseteq Messages
  BY DEF Reply, TypeOK
<1>8. faults' \in 0..MaxFaults
  <2>1. faults \in Nat /\ MaxFaults \in Nat /\ faults <= MaxFaults
    BY DeliveryAssumption DEF TypeOK
  <2>2. faults' = faults \/ (faults < MaxFaults /\ faults' = faults + 1)
    BY DEF Reply
  <2> QED BY <2>1, <2>2
<1> QED BY <1>3, <1>4, <1>5, <1>6, <1>7, <1>8

\* Who is counted, taken, or told of, when the service replies.
LEMMA ReplyCounts ==
  ASSUME TypeOK, SuccessesTrue, service' = service,
         NEW m \in Messages, NEW ms \in SUBSET Messages, NEW reply, NEW taken \in BOOLEAN,
         Reply(m, ms, reply, taken)
  PROVE  SuccessesTrue'
<1>0. service \in Services
  BY DeliveryAssumption DEF TypeOK
<1>1. successes \in Nat /\ acked \in Nat /\ took \in Nat
  BY DEF TypeOK
<1>2. reply \in Adapter[service].counted => taken
  BY <1>0, WhatAdaptersMakeOfReplies DEF Reply, Taken, MayTake
<1>3. reply = "accepted" => reply \in Adapter[service].counted \/ service = "telegram"
  BY <1>0, WhatAdaptersMakeOfReplies
<1>4. One(reply \in Adapter[service].counted) \in {0, 1} /\ One(taken) \in {0, 1}
      /\ One(reply = "accepted") \in {0, 1}
  BY DEF One
<1>5. One(reply \in Adapter[service].counted) <= One(taken)
  BY <1>2 DEF One
<1>6. One(reply = "accepted") <= One(reply \in Adapter[service].counted) \/ service = "telegram"
  BY <1>3 DEF One
<1>7. /\ successes' = successes + One(reply \in Adapter[service].counted)
      /\ acked' = acked + One(reply = "accepted")
      /\ took' = took + One(taken)
  BY DEF Reply
<1>8. successes' <= took'
  BY <1>1, <1>4, <1>5, <1>7 DEF SuccessesTrue
<1>9. acked' <= successes' \/ service' = "telegram"
  BY <1>1, <1>4, <1>6, <1>7 DEF SuccessesTrue
<1> QED BY <1>8, <1>9 DEF SuccessesTrue

\* A message of which nothing changes keeps its account.
LEMMA AccountsKept ==
  ASSUME NEW n \in Messages, Account(n), service' = service, content' = content,
         place'[n] = place[n], arrived'[n] = arrived[n], reported'[n] = reported[n],
         last'[n] = last[n],
         n \in unsure => n \in unsure', n \in spoilt => n \in spoilt',
         n \in squashed => n \in squashed'
  PROVE  Account(n)'
<1>1. Reason(n) => Reason(n)'
  BY DEF Reason
<1>2. Doubt(n)'
  BY DEF Account, Doubt
<1> QED BY <1>1, <1>2 DEF Account

\* A message that waits, and then waits elsewhere, keeps its account.
LEMMA AccountsMoved ==
  ASSUME NEW n \in Messages, Account(n), service' = service,
         place[n] # "settled", place'[n] # "settled",
         UNCHANGED <<arrived, reported, unsure>>
  PROVE  Account(n)'
  BY DEF Account, Doubt

\* A message that is not one of those carried by a push is not affected by the
\* reply, unless it is the one in whose name they are pushed.
LEMMA RepliesElsewhere ==
  ASSUME TypeOK, service' = service, content' = content,
         NEW m \in Messages, NEW ms \in SUBSET Messages, NEW reply, NEW taken \in BOOLEAN,
         Reply(m, ms, reply, taken),
         NEW n \in Messages, n \notin ms
  PROVE  /\ arrived'[n] = arrived[n] /\ last'[n] = last[n]
         /\ n # m => reported'[n] = reported[n]
         /\ n \in unsure => n \in unsure'
<1>1. arrived'[n] = arrived[n] + 0
  BY DEF Reply, One
<1>2. arrived[n] \in Nat
  BY DEF TypeOK
<1>3. n # m => reported'[n] = reported[n]
  BY DEF Reply, TypeOK
<1> QED BY <1>1, <1>2, <1>3 DEF Reply

\* A message that a push carries.
LEMMA RepliesHere ==
  ASSUME TypeOK, NEW m \in Messages, NEW ms \in SUBSET Messages, NEW reply, NEW taken \in BOOLEAN,
         Reply(m, ms, reply, taken),
         NEW n \in ms
  PROVE  /\ last'[n] = reply
         /\ \/ taken /\ arrived'[n] = arrived[n] + 1
            \/ ~taken /\ reply \notin Taken /\ arrived'[n] = arrived[n]
         /\ taken => reply \in Taken \cup MayTake
         /\ taken /\ reply \notin Confirmed => n \in unsure'
         /\ n \in unsure => n \in unsure'
         /\ n # m => reported'[n] = reported[n]
         /\ reported'[n] = reported[n] \/ (reported'[n] = reported[n] + 1
                                           /\ reply \in Adapter[service].reports)
<1>1. arrived[n] \in Nat /\ reported[n] \in Nat
  BY DEF TypeOK
<1>2. /\ taken => arrived'[n] = arrived[n] + 1
      /\ ~taken => arrived'[n] = arrived[n] + 0
  BY DEF Reply, One
<1>3. /\ taken => reply \in Taken \cup MayTake
      /\ ~taken => reply \notin Taken
  <2>1. taken = (reply \in Taken) \/ reply \in MayTake
    BY DEF Reply
  <2>2. reply \notin Taken \/ reply \notin MayTake
    BY DEF Taken, MayTake
  <2> QED BY <2>1, <2>2, Zenon DEF Taken
<1>4. /\ last'[n] = reply
      /\ n \in unsure => n \in unsure'
      /\ taken /\ reply \notin Confirmed => n \in unsure'
  BY DEF Reply
<1>5. n # m => reported'[n] = reported[n]
  BY DEF Reply, TypeOK
<1>6. n = m => \/ reported'[n] = reported[n] + 0
               \/ reported'[n] = reported[n] + 1 /\ reply \in Adapter[service].reports
  BY DEF Reply, One, TypeOK
<1>7. arrived[n] + 0 = arrived[n] /\ reported[n] + 0 = reported[n]
  BY <1>1
<1> QED BY <1>2, <1>3, <1>4, <1>5, <1>6, <1>7

-----------------------------------------------------------------------------
(* The steps.                                                              *)

\* The message of a push: what is tried again is in doubt at worst, and what is
\* given up has a reason.
LEMMA PushedAccounts ==
  ASSUME IInv, NEW m \in Messages, Push(m)
  PROVE  Account(m)'
<1>0. TypeOK /\ Account(m) /\ service \in Services /\ arrived[m] \in Nat /\ reported[m] \in Nat
  BY DeliveryAssumption DEF IInv, TypeOK
<1>1. PICK reply \in RepliesTo(service, content[m]), taken \in BOOLEAN :
        /\ Reply(m, {m}, reply, taken)
        /\ Move(m, "pushing",
                IF reply \in Adapter[service].retry THEN "queued" ELSE "settled")
        /\ UNCHANGED <<service, content, batch, spoilt, squashed>>
  BY DEF Push
<1>2. /\ last'[m] = reply
      /\ \/ taken /\ arrived'[m] = arrived[m] + 1
         \/ ~taken /\ reply \notin Taken /\ arrived'[m] = arrived[m]
      /\ taken => reply \in Taken \cup MayTake
      /\ taken /\ reply \notin Confirmed => m \in unsure'
      /\ m \in unsure => m \in unsure'
      /\ reported'[m] = reported[m] \/ (reported'[m] = reported[m] + 1
                                        /\ reply \in Adapter[service].reports)
  BY <1>0, <1>1, RepliesHere
<1>3. /\ place[m] = "pushing"
      /\ place'[m] = IF reply \in Adapter[service].retry THEN "queued" ELSE "settled"
  BY <1>0, <1>1 DEF Move, TypeOK
<1>4. reported[m] = 0 /\ (arrived[m] > 0 => m \in unsure /\ service \in Patient)
  BY <1>0, <1>3 DEF Account, Doubt
<1>5. Doubt(m)'
  <2>1. ASSUME arrived'[m] > 0, place'[m] # "settled" PROVE m \in unsure' /\ service \in Patient
    <3>1. reply \in Adapter[service].retry
      BY <1>3, <2>1
    <3>2. CASE taken
      <4>1. reply \notin Confirmed /\ service \in Patient
        BY <1>0, <1>2, <3>1, <3>2, WhatAdaptersMakeOfReplies
      <4> QED BY <1>2, <3>2, <4>1
    <3>3. CASE ~taken
      <4>1. arrived'[m] = arrived[m]
        BY <1>2, <3>3
      <4> QED BY <1>2, <1>4, <2>1, <4>1
    <3> QED BY <3>2, <3>3
  <2>2. ASSUME arrived'[m] > 1 PROVE m \in unsure' /\ service \in Patient
    <3>1. arrived'[m] = arrived[m] + 1 \/ arrived'[m] = arrived[m]
      BY <1>2
    <3>2. arrived[m] > 0
      BY <1>0, <2>2, <3>1
    <3> QED BY <1>2, <1>4, <3>2
  <2> QED BY <1>1, <2>1, <2>2 DEF Doubt
<1>6. ASSUME place'[m] = "settled", arrived'[m] = 0 PROVE Reason(m)'
  <2>1. reply \notin Adapter[service].retry
    BY <1>3, <1>6
  <2>2. arrived[m] + 1 # 0
    BY <1>0
  <2>3. reply \notin Taken
    BY <1>2, <1>6, <2>2
  <2>4. reply \in RepliesTo(service, content[m])
    BY <1>1
  <2>5. \/ reply \in {"gone", "refused", "unsendable"}
        \/ reply \in {"denied", "forbidden"} /\ service # "fcm"
        \/ reply \in {"silence", "failing"} /\ service \notin Patient
        \/ reply = "throttled" /\ service \notin {"fcm", "telegram", "webpush"}
    BY <1>0, <2>1, <2>3, <2>4, WhatAdaptersGiveUp
  <2> QED BY <1>1, <1>2, <2>5 DEF Reason
<1>7. ASSUME reported'[m] > 0 PROVE reported'[m] = 1 /\ place'[m] = "settled"
  <2>1. reported'[m] = 1
    BY <1>2, <1>4, <1>7
  <2>2. reply \in Adapter[service].reports
    BY <1>2, <1>4, <2>1
  <2>3. reply \notin Adapter[service].retry
    BY <1>0, <2>2, WhatAdaptersMakeOfReplies
  <2> QED BY <1>3, <2>1, <2>3
<1> QED BY <1>5, <1>6, <1>7 DEF Account

\* The messages of a batch, sent: each of them is settled, whatever the reply.
LEMMA SentBatchAccounts ==
  ASSUME IInv, SendBatch, NEW n \in Messages, n \in ToSet(batch)
  PROVE  Account(n)'
<1> DEFINE ms == {batch[i] : i \in Digested(service, BatchContents)}
<1>0. /\ TypeOK /\ Account(n) /\ service \in Services /\ service \in Squashing
      /\ arrived[n] \in Nat /\ reported[n] \in Nat
      /\ place[n] = "batched" /\ n \in squashed /\ squashed' = squashed
      /\ service' = service /\ content' = content
  BY DeliveryAssumption DEF IInv, TypeOK, Batching, SendBatch
<1>1. PICK reply \in RepliesTo(service, content[Head(batch)]), taken \in BOOLEAN :
        Reply(Head(batch), ms, reply, taken)
  BY DEF SendBatch
<1>2. /\ place'[n] = "settled"
      /\ DOMAIN BatchContents = DOMAIN batch
      /\ Head(batch) \in Messages /\ batch[1] = Head(batch)
  BY <1>0 DEF SendBatch, BatchOver, BatchContents, TypeOK
<1>3. ms \in SUBSET Messages
  <2>1. Digested(service, BatchContents) \subseteq DOMAIN batch
    BY <1>0, <1>2, WhatSquashingLoses
  <2> QED BY <1>0, <2>1 DEF TypeOK
<1>4. /\ reported[n] = 0
      /\ arrived[n] > 0 => n \in unsure /\ service \in Patient
  BY <1>0 DEF Account, Doubt
<1> HIDE DEF ms
<1>5. CASE n \in ms
  <2>1. /\ last'[n] = reply
        /\ \/ taken /\ arrived'[n] = arrived[n] + 1
           \/ ~taken /\ reply \notin Taken /\ arrived'[n] = arrived[n]
        /\ n \in unsure => n \in unsure'
        /\ reported'[n] = reported[n] \/ reported'[n] = reported[n] + 1
    BY <1>0, <1>1, <1>2, <1>3, <1>5, RepliesHere
  <2>2. Doubt(n)'
    <3>1. ASSUME arrived'[n] > 1 PROVE arrived[n] > 0
      BY <1>0, <2>1, <3>1
    <3> QED BY <1>0, <1>2, <1>4, <2>1, <3>1 DEF Doubt
  <2>3. ASSUME arrived'[n] = 0 PROVE Reason(n)'
    <3>1. arrived[n] + 1 # 0
      BY <1>0
    <3>2. reply \notin Taken
      BY <2>1, <2>3, <3>1
    <3>3. service # "fcm"
      BY <1>0 DEF Squashing
    <3>4. reply \in {"silence", "failing", "throttled", "gone", "refused", "forbidden", "denied",
                     "muddled", "unsendable"}
      BY <1>1, <3>2, <3>3, WhatServicesReply DEF Replies, Unsent, Taken
    <3> QED BY <1>0, <2>1, <3>3, <3>4 DEF Reason
  <2>4. reported'[n] > 0 => reported'[n] = 1
    BY <1>4, <2>1
  <2> QED BY <1>2, <2>2, <2>3, <2>4 DEF Account
<1>6. CASE n \notin ms
  <2>1. /\ arrived'[n] = arrived[n]
        /\ n \in unsure => n \in unsure'
    BY <1>0, <1>1, <1>2, <1>3, <1>6, RepliesElsewhere
  <2>2. reported'[n] = reported[n] \/ reported'[n] = reported[n] + 1
    <3>1. \/ reported'[n] = reported[n] + 0
          \/ reported'[n] = reported[n] + 1
      BY <1>0, <1>1, <1>2 DEF Reply, One, TypeOK
    <3> QED BY <1>0, <3>1
  <2>3. Reason(n)'
    <3>1. PICK i \in DOMAIN batch : n = batch[i]
      BY DEF ToSet
    <3>2. i \notin Digested(service, BatchContents) /\ BatchContents[i] = content[n]
      BY <1>6, <3>1 DEF ms, BatchContents
    <3>3. service = "telegram" /\ content[n] \cap {"text", "caption"} = {}
      BY <1>0, <1>2, <3>1, <3>2, WhatSquashingLoses
    <3> QED BY <1>0, <3>3 DEF Reason
  <2>4. Doubt(n)'
    BY <1>0, <1>2, <2>1, <1>4 DEF Account, Doubt
  <2>5. reported'[n] > 0 => reported'[n] = 1
    BY <1>4, <2>2
  <2> QED BY <1>2, <2>3, <2>4, <2>5 DEF Account
<1> QED BY <1>5, <1>6

LEMMA StepKeepsAccounts ==
  ASSUME IInv, [Next]_vars, NEW n \in Messages
  PROVE  Account(n)'
<1>0. TypeOK /\ Account(n) /\ place \in [Messages -> Places] /\ batch \in Seq(Messages)
      /\ (n \in ToSet(batch) <=> place[n] = "batched")
  BY DEF IInv, TypeOK, Batching
<1>1. ASSUME NEW m \in Messages, Enqueue(m) \/ PushDirectly(m) \/ Squash(m)
      PROVE  Account(n)'
  <2>1. /\ UNCHANGED <<service, content, arrived, reported, unsure, last, spoilt>>
        /\ n \in squashed => n \in squashed'
        /\ place[m] # "settled" /\ place'[m] # "settled"
        /\ n # m => place'[n] = place[n]
    BY <1>0, <1>1 DEF Enqueue, PushDirectly, Squash, Move, historyVars
  <2> QED BY <1>0, <2>1, AccountsKept, AccountsMoved
<1>2. ASSUME NEW m \in Messages, RemoveBad(m) PROVE Account(n)'
  <2>1. /\ UNCHANGED <<service, content, arrived, reported, unsure, last, spoilt, squashed>>
        /\ place[m] = "queued" /\ place'[m] = "settled" /\ ~Converts(service, content[m])
        /\ n # m => place'[n] = place[n]
    BY <1>0, <1>2 DEF RemoveBad, Move, historyVars
  <2>2. CASE n = m
    <3>1. Reason(n)'
      BY <2>1, <2>2 DEF Reason
    <3>2. Doubt(n)' /\ (reported'[n] > 0 => reported'[n] = 1 /\ place'[n] = "settled")
      BY <1>0, <2>1, <2>2 DEF Account, Doubt
    <3> QED BY <3>1, <3>2 DEF Account
  <2> QED BY <1>0, <2>1, <2>2, AccountsKept
<1>3. ASSUME NEW m \in Messages, Push(m) PROVE Account(n)'
  <2>1. CASE n = m
    BY <1>3, <2>1, PushedAccounts
  <2>2. CASE n # m
    <3>1. PICK reply \in RepliesTo(service, content[m]), taken \in BOOLEAN :
            /\ Reply(m, {m}, reply, taken)
            /\ Move(m, "pushing",
                    IF reply \in Adapter[service].retry THEN "queued" ELSE "settled")
            /\ UNCHANGED <<service, content, batch, spoilt, squashed>>
      BY <1>3 DEF Push
    <3>2. place'[n] = place[n]
      BY <1>0, <2>2, <3>1 DEF Move
    <3>3. /\ arrived'[n] = arrived[n] /\ last'[n] = last[n] /\ reported'[n] = reported[n]
          /\ n \in unsure => n \in unsure'
      <4>1. service' = service /\ content' = content
        BY <3>1
      <4> DEFINE ms == {m}
      <4>2. ms \in SUBSET Messages /\ n \notin ms /\ Reply(m, ms, reply, taken)
        BY <2>2, <3>1
      <4> HIDE DEF ms
      <4> QED BY <1>0, <2>2, <4>1, <4>2, RepliesElsewhere
    <3> QED BY <1>0, <3>1, <3>2, <3>3, AccountsKept
  <2> QED BY <2>1, <2>2
<1>4. CASE SendBatch
  <2>1. CASE n \in ToSet(batch)
    BY <1>4, <2>1, SentBatchAccounts
  <2>2. CASE n \notin ToSet(batch)
    <3> DEFINE ms == {batch[i] : i \in Digested(service, BatchContents)}
    <3>1. PICK reply \in RepliesTo(service, content[Head(batch)]), taken \in BOOLEAN :
            Reply(Head(batch), ms, reply, taken)
      BY <1>4 DEF SendBatch
    <3>2. /\ UNCHANGED <<service, content, spoilt, squashed>>
          /\ place'[n] = place[n] /\ Head(batch) \in ToSet(batch) /\ Head(batch) \in Messages
          /\ service \in Squashing
      BY <1>0, <1>4, <2>2 DEF SendBatch, BatchOver, ToSet, IInv, Batching
    <3>3. ms \subseteq ToSet(batch) /\ ms \in SUBSET Messages
      <4>1. Digested(service, BatchContents) \subseteq DOMAIN batch
        BY <3>2, WhatSquashingLoses DEF BatchContents
      <4> QED BY <1>0, <4>1 DEF ToSet
    <3>4. /\ arrived'[n] = arrived[n] /\ last'[n] = last[n] /\ reported'[n] = reported[n]
          /\ n \in unsure => n \in unsure'
      <4> HIDE DEF ms
      <4>1. n \notin ms /\ n # Head(batch)
        BY <2>2, <3>2, <3>3
      <4>2. service' = service /\ content' = content
        BY <3>2
      <4>3. Head(batch) \in Messages /\ ms \in SUBSET Messages
        BY <3>2, <3>3
      <4> QED BY <1>0, <3>1, <4>1, <4>2, <4>3, RepliesElsewhere
    <3> QED BY <1>0, <3>2, <3>4, AccountsKept
  <2> QED BY <2>1, <2>2
<1>5. CASE SpoiltBatch
  <2>1. UNCHANGED <<service, content, arrived, reported, unsure, last, squashed>>
        /\ spoilt' = spoilt \cup ToSet(batch)
        /\ place'[n] = IF n \in ToSet(batch) THEN "settled" ELSE place[n]
    BY <1>5 DEF SpoiltBatch, BatchOver
  <2>2. CASE n \in ToSet(batch)
    <3>1. Reason(n)'
      BY <2>1, <2>2 DEF Reason
    <3>2. Doubt(n)' /\ (reported'[n] > 0 => reported'[n] = 1 /\ place'[n] = "settled")
      BY <1>0, <2>1, <2>2 DEF Account, Doubt
    <3> QED BY <3>1, <3>2 DEF Account
  <2> QED BY <1>0, <2>1, <2>2, AccountsKept
<1>6. CASE UNCHANGED vars
  BY <1>0, <1>6, AccountsKept DEF vars, shoveVars, historyVars
<1> QED BY <1>1, <1>2, <1>3, <1>4, <1>5, <1>6 DEF Next, Handle, Quiet

\* The batch grows at its end, with a message that is then batched, and ends
\* with all of its messages.
LEMMA StepKeepsBatching ==
  ASSUME TypeOK, Batching, [Next]_vars
  PROVE  Batching'
<1>0. place \in [Messages -> Places] /\ batch \in Seq(Messages)
  BY DEF TypeOK
<1>1. ASSUME UNCHANGED <<service, batch, squashed>>,
             NEW m \in Messages, NEW from \in Places \ {"batched"}, NEW to \in Places \ {"batched"},
             Move(m, from, to)
      PROVE  Batching'
  <2>1. \A n \in Messages : place'[n] = "batched" <=> place[n] = "batched"
    BY <1>0, <1>1 DEF Move
  <2> QED BY <1>1, <2>1 DEF Batching
<1>2. ASSUME NEW m \in Messages, Squash(m) PROVE Batching'
  <2>1. ToSet(batch') = ToSet(batch) \cup {m}
    BY <1>0, <1>2 DEF Squash, ToSet
  <2>2. {n \in Messages : place'[n] = "batched"} = {n \in Messages : place[n] = "batched"} \cup {m}
    BY <1>0, <1>2 DEF Squash, Move
  <2>3. squashed' = squashed \cup {m} /\ service' = service /\ service \in Squashing
    BY <1>2 DEF Squash
  <2> QED BY <2>1, <2>2, <2>3 DEF Batching
<1>3. CASE BatchOver /\ UNCHANGED service /\ squashed' = squashed
  <2>1. ToSet(batch') = {}
    BY <1>3 DEF BatchOver, ToSet
  <2>2. \A n \in Messages : place'[n] # "batched"
    BY <1>3 DEF BatchOver, Batching
  <2> QED BY <1>3, <2>1, <2>2 DEF Batching, BatchOver
<1>4. CASE UNCHANGED vars
  BY <1>4 DEF Batching, vars, shoveVars, historyVars
<1>5. ASSUME NEW m \in Messages, Enqueue(m) \/ RemoveBad(m) \/ PushDirectly(m) \/ Push(m)
      PROVE  Batching'
  <2>1. UNCHANGED <<service, batch, squashed>>
    BY <1>5 DEF Enqueue, RemoveBad, PushDirectly, Push, historyVars
  <2>2. \E from, to \in Places \ {"batched"} : Move(m, from, to)
    <3>1. CASE Push(m)
      <4>1. PICK reply \in RepliesTo(service, content[m]) :
              Move(m, "pushing", IF reply \in Adapter[service].retry THEN "queued" ELSE "settled")
        BY <3>1 DEF Push
      <4> QED BY <4>1 DEF Places
    <3> QED BY <1>5, <3>1 DEF Enqueue, RemoveBad, PushDirectly, Places
  <2> QED BY <1>1, <2>1, <2>2
<1> QED BY <1>2, <1>3, <1>4, <1>5 DEF Next, Handle, Quiet, SendBatch, SpoiltBatch

LEMMA StepKeepsTypes ==
  ASSUME TypeOK, [Next]_vars
  PROVE  TypeOK'
<1>0. /\ place \in [Messages -> Places] /\ batch \in Seq(Messages)
      /\ squashed \subseteq Messages /\ spoilt \subseteq Messages
  BY DEF TypeOK
<1>1. service' = service /\ content' = content
  BY DEF Next, Handle, Enqueue, RemoveBad, PushDirectly, Squash, Push, SendBatch, SpoiltBatch,
         Quiet, vars
<1>2. place' \in [Messages -> Places]
  <2>1. ASSUME NEW m, NEW from, NEW to \in Places, Move(m, from, to)
        PROVE  place' \in [Messages -> Places]
    BY <1>0, <2>1 DEF Move
  <2>2. CASE BatchOver
    BY <1>0, <2>2 DEF BatchOver, Places
  <2>3. ASSUME NEW m \in Messages, Push(m) PROVE place' \in [Messages -> Places]
    <3>1. PICK reply \in RepliesTo(service, content[m]) :
            Move(m, "pushing", IF reply \in Adapter[service].retry THEN "queued" ELSE "settled")
      BY <2>3 DEF Push
    <3> QED BY <2>1, <3>1 DEF Places
  <2>4. ASSUME NEW m \in Messages, Enqueue(m) \/ Handle(m) PROVE place' \in [Messages -> Places]
    BY <2>1, <2>4 DEF Enqueue, Handle, RemoveBad, PushDirectly, Squash, Places
  <2>5. CASE UNCHANGED vars
    BY <1>0, <2>5 DEF vars, shoveVars
  <2> QED BY <2>2, <2>3, <2>4, <2>5 DEF Next, SendBatch, SpoiltBatch, Quiet
<1>3. batch' \in Seq(Messages) /\ squashed' \subseteq Messages /\ spoilt' \subseteq Messages
  <2>1. ASSUME NEW m \in Messages, Squash(m)
        PROVE  batch' \in Seq(Messages) /\ squashed' \subseteq Messages /\ spoilt' = spoilt
    BY <1>0, <2>1 DEF Squash
  <2>2. CASE BatchOver /\ squashed' = squashed /\ spoilt' \in {spoilt, spoilt \cup ToSet(batch)}
    BY <1>0, <2>2 DEF BatchOver, ToSet
  <2>3. CASE UNCHANGED <<batch, squashed, spoilt>>
    BY <1>0, <2>3
  <2> QED BY <1>0, <2>1, <2>2, <2>3
          DEF Next, Handle, Enqueue, RemoveBad, PushDirectly, Push, SendBatch, SpoiltBatch,
              Quiet, vars, shoveVars, historyVars
<1>4. /\ successes' \in Nat /\ acked' \in Nat /\ took' \in Nat
      /\ reported' \in [Messages -> Nat]
      /\ arrived' \in [Messages -> Nat]
      /\ last' \in [Messages -> Replies \cup {"none"}]
      /\ unsure' \subseteq Messages
      /\ faults' \in 0..MaxFaults
  <2>1. CASE UNCHANGED <<successes, acked, took, reported, arrived, last, unsure, faults>>
    BY <2>1 DEF TypeOK
  <2>2. ASSUME NEW m \in Messages, NEW ms \in SUBSET Messages,
               NEW reply \in RepliesTo(service, content[m]), NEW taken \in BOOLEAN,
               Reply(m, ms, reply, taken)
        PROVE  <1>4!:
    BY <1>1, <2>2, ReplyKeepsTypes, WhatServicesReply
  <2>3. ASSUME NEW m \in Messages, Push(m) PROVE <1>4!:
    <3>1. PICK reply \in RepliesTo(service, content[m]), taken \in BOOLEAN :
            Reply(m, {m}, reply, taken)
      BY <2>3 DEF Push
    <3> QED BY <2>2, <3>1
  <2>4. CASE SendBatch
    <3> DEFINE ms == {batch[i] : i \in Digested(service, BatchContents)}
    <3>1. PICK reply \in RepliesTo(service, content[Head(batch)]), taken \in BOOLEAN :
            Reply(Head(batch), ms, reply, taken)
      BY <2>4 DEF SendBatch
    <3>2. ms \in SUBSET Messages /\ Head(batch) \in Messages
      BY <1>0, <2>4 DEF SendBatch, Digested, BatchContents
    <3> HIDE DEF ms
    <3> QED BY <2>2, <3>1, <3>2
  <2> QED BY <2>1, <2>3, <2>4
          DEF Next, Handle, Enqueue, RemoveBad, PushDirectly, Squash, SpoiltBatch,
              Quiet, vars, shoveVars, historyVars
<1> QED BY <1>1, <1>2, <1>3, <1>4 DEF TypeOK

-----------------------------------------------------------------------------
(* The theorems.                                                           *)

\* The inductive invariant: types, what a batch has, the counters, and the
\* account of each message.
THEOREM IInvHolds == Spec => []IInv
<1>1. Init => IInv
  <2> SUFFICES ASSUME Init PROVE IInv
    OBVIOUS
  <2>1. TypeOK
    <3>1. batch \in Seq(Messages) /\ place \in [Messages -> Places]
      BY DEF Init, Places
    <3>2. faults \in 0..MaxFaults
      BY DeliveryAssumption DEF Init
    <3> QED BY <3>1, <3>2 DEF Init, TypeOK
  <2>2. Batching
    BY DEF Init, Batching, ToSet
  <2>3. SuccessesTrue
    BY DEF Init, SuccessesTrue
  <2>4. ASSUME NEW m \in Messages PROVE Account(m)
    BY DEF Init, Account, Doubt
  <2> QED BY <2>1, <2>2, <2>3, <2>4 DEF IInv
<1>2. IInv /\ [Next]_vars => IInv'
  <2> SUFFICES ASSUME IInv, [Next]_vars PROVE IInv'
    OBVIOUS
  <2>1. TypeOK' /\ Batching'
    BY StepKeepsTypes, StepKeepsBatching DEF IInv
  <2>2. SuccessesTrue'
    <3>0. /\ TypeOK /\ SuccessesTrue /\ batch \in Seq(Messages)
          /\ service' = service
      BY DEF IInv, TypeOK, Next, Handle, Enqueue, RemoveBad, PushDirectly, Squash, Push,
             SendBatch, SpoiltBatch, Quiet, vars
    <3>1. ASSUME NEW m \in Messages, Push(m) PROVE SuccessesTrue'
      <4> DEFINE ms == {m}
      <4>1. PICK reply \in RepliesTo(service, content[m]), taken \in BOOLEAN :
              Reply(m, ms, reply, taken)
        BY <3>1 DEF Push
      <4>2. ms \in SUBSET Messages
        OBVIOUS
      <4> HIDE DEF ms
      <4> QED BY <3>0, <4>1, <4>2, ReplyCounts
    <3>2. CASE SendBatch
      <4> DEFINE ms == {batch[i] : i \in Digested(service, BatchContents)}
      <4>1. PICK reply \in RepliesTo(service, content[Head(batch)]), taken \in BOOLEAN :
              Reply(Head(batch), ms, reply, taken)
        BY <3>2 DEF SendBatch
      <4>2. ms \in SUBSET Messages /\ Head(batch) \in Messages
        BY <3>0, <3>2 DEF SendBatch, Digested, BatchContents
      <4> HIDE DEF ms
      <4> QED BY <3>0, <4>1, <4>2, ReplyCounts
    <3>3. CASE UNCHANGED <<successes, acked, took>>
      BY <3>0, <3>3 DEF SuccessesTrue
    <3> QED BY <3>1, <3>2, <3>3
            DEF Next, Handle, Enqueue, RemoveBad, PushDirectly, Squash, SpoiltBatch,
                Quiet, vars, shoveVars, historyVars
  <2>3. \A m \in Messages : Account(m)'
    BY StepKeepsAccounts
  <2> QED BY <2>1, <2>2, <2>3 DEF IInv
<1> QED BY <1>1, <1>2, PTL DEF Spec

\* The variables have their types.
THEOREM TypeOKHolds == Spec => []TypeOK
<1>1. IInv => TypeOK
  BY DEF IInv
<1> QED BY <1>1, IInvHolds, PTL

\* Whatever the push service replies, and takes for all it replies, it takes a
\* message twice only from an adapter that tries again, and after a push that it
\* took without saying so.
THEOREM TwiceOnlyIfUnsureHolds == Spec => []TwiceOnlyIfUnsure
<1>1. IInv => TwiceOnlyIfUnsure
  BY DEF IInv, Account, Doubt, TwiceOnlyIfUnsure
<1> QED BY <1>1, IInvHolds, PTL

\* A message that is gone and was never taken has one of the reasons in
\* LossExplained: conversions, replies, back-offs and digests lose no other.
THEOREM LossExplainedHolds == Spec => []LossExplained
<1>1. IInv => LossExplained
  BY DEF IInv, Account, Reason, LossExplained
<1> QED BY <1>1, IInvHolds, PTL

\* A token is put into feedback once for a message, which is then settled.
THEOREM ReportedOnceHolds == Spec => []ReportedOnce
<1>1. IInv => ReportedOnce
  BY DEF IInv, Account, ReportedOnce
<1> QED BY <1>1, IInvHolds, PTL

\* The counter of successes is between what was acknowledged (but to Telegram)
\* and what was taken.
THEOREM SuccessesTrueHolds == Spec => []SuccessesTrue
<1>1. IInv => SuccessesTrue
  BY DEF IInv
<1> QED BY <1>1, IInvHolds, PTL
=============================================================================
