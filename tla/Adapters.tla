------------------------------ MODULE Adapters ------------------------------
(***************************************************************************)
(* The adapters of internal/services/{apns,fcm,telegram,webhook,webpush,    *)
(* email}: which messages they convert, what they make of the reply to a   *)
(* push, and what squashing leaves of a batch.  A message is the set of its *)
(* fields, a reply one of the classes the adapters tell apart.             *)
(*                                                                         *)
(* An adapter is a record of sets of replies: those that make a push a     *)
(* success; those after which it is tried again, as after all others it    *)
(* has failed for good; those counted as a success (CountPush); and those  *)
(* that make the adapter report the message's token (TokenInvalid).        *)
(***************************************************************************)
EXTENDS Naturals, Sequences, FiniteSets

\* "accepted"   the service's own answer to a push it takes: 201 from Web Push,
\*              200 from the others, SMTP's acceptance
\* "unusual"    any other 2xx
\* "garbled"    as "accepted", but the rest of the answer is lost, or cannot be
\*              decoded
\* "silence"    no answer     "failing"    5xx       "throttled"  429
\* "gone"       there is no such token
\* "refused"    400, or data loss (FCM)
\* "forbidden"  401 or 403, while our credentials are out of order
\* "denied"     any other 4xx, or a 403 on account of this message
\* "muddled"    a 4xx whose body cannot be decoded, from a service whose client
\*              decodes it before it looks at the status
\* "unsendable" no request could be made from the message
\* "objected"   the client library's own checks refuse the message, with an
\*              error of its own
Unsent  == {"unsendable", "objected"}
Replies == Unsent \cup {"accepted", "unusual", "garbled", "silence", "failing", "throttled",
                        "gone", "refused", "forbidden", "denied", "muddled"}

\* Any error of the client library is for the time being, even one made before
\* anything was sent; of the statuses 5xx is, and 200 alone is a success.
Apns ==
  [success |-> {"accepted"},
   retry   |-> {"silence", "garbled", "muddled", "unsendable", "failing"},
   counted |-> {"accepted"}, reports |-> {"gone"}]

\* Fault: a token that is not found is not among the errors that are for good.
FcmRetriesGone ==
  [success |-> {"accepted", "unusual"},
   retry   |-> Replies \ {"accepted", "unusual", "refused", "unsendable"},
   counted |-> {"accepted", "unusual"}, reports |-> {"gone"}]

\* Three kinds of error are for good, and all others for the time being.
Fcm ==
  [success |-> {"accepted", "unusual"},
   retry   |-> Replies \ {"accepted", "unusual", "gone", "refused", "unsendable"},
   counted |-> {"accepted", "unusual"}, reports |-> {"gone"}]

\* pushMessage never sets success, so that no push is counted as one.  But for
\* 429, the body is decoded before the status is looked at.
Telegram ==
  [success |-> {"accepted", "unusual"},
   retry   |-> {"silence", "garbled", "muddled", "throttled", "failing"},
   counted |-> {}, reports |-> {"gone"}]

\* Fault: a push without an answer or with a 5xx is tried again.
WebhookRetries ==
  [success |-> {"accepted", "unusual", "garbled"}, retry |-> {"silence", "failing"},
   counted |-> {"accepted", "unusual", "garbled"}, reports |-> {}]

\* Whatever is neither 4xx nor 5xx; the answer's body is only logged.
Webhook ==
  [success |-> {"accepted", "unusual", "garbled"}, retry |-> {},
   counted |-> {"accepted", "unusual", "garbled"}, reports |-> {}]

\* Fault: success is set before the status is looked at.
WebpushCountsAll ==
  [success |-> {"accepted", "garbled"}, retry |-> {"throttled"},
   counted |-> Replies \ (Unsent \cup {"silence"}), reports |-> {"gone"}]

\* 201, whose body nobody reads; another 2xx is a failure for good.
Webpush ==
  [success |-> {"accepted", "garbled"}, retry |-> {"throttled"},
   counted |-> {"accepted", "garbled"}, reports |-> {"gone"}]

\* A failure of the last command, QUIT, is one of the push, though the mail
\* was taken.
Email ==
  [success |-> {"accepted"}, retry |-> {}, counted |-> {"accepted"}, reports |-> {}]

Adapter == [apns |-> Apns, fcm |-> Fcm, telegram |-> Telegram,
            webhook |-> Webhook, webpush |-> Webpush, email |-> Email]

Services == DOMAIN Adapter

\* The services that main gives a rate; the others panic when asked to squash.
Squashing == {"telegram", "email"}

-----------------------------------------------------------------------------
(* ConvertMessage, which Validate calls as well.  The fields are those that *)
(* matter to it, with the values it accepts, and these: "malformed" is a    *)
(* value it does not look into and of which no request can be made (a URL   *)
(* or token that cannot be sent, an address that does not parse).           *)

Methods == {"sendMessage", "sendPhoto"}

ApnsConverts(f)     == {"token", "apns-topic"} \subseteq f
FcmConverts(f)      == "to" \in f <=> "registration_ids" \notin f
TelegramConverts(f) == "chat_id" \in f /\ f \cap Methods # {}
WebhookConverts(f)  == "url" \in f /\ ~({"body", "data"} \subseteq f)
WebpushConverts(f)  == "subscription" \in f
EmailConverts(f)    == {"to", "from", "subject"} \subseteq f

Converts(s, f) ==
  CASE s = "apns"     -> ApnsConverts(f)
    [] s = "fcm"      -> FcmConverts(f)
    [] s = "telegram" -> TelegramConverts(f)
    [] s = "webhook"  -> WebhookConverts(f)
    [] s = "webpush"  -> WebpushConverts(f)
    [] s = "email"    -> EmailConverts(f)

\* FCM's message is decoded from what the application sent, with the token
\* replaced by `to` (and by none, if it has registration_ids); the library wants
\* one destination, and looks into some of the values ("objectionable").
FcmDestinations == {"to", "topic", "condition"}
FcmObjects(f)   == "objectionable" \in f \/ Cardinality(f \cap FcmDestinations) # 1

\* The clients that decode an answer before they look at its status.
Decoding == {"apns", "telegram"}

RepliesTo(s, f) ==
  IF "malformed" \in f THEN {"unsendable"}
  ELSE IF s = "fcm" /\ FcmObjects(f) THEN {"objected"}
  ELSE {r \in Replies \ Unsent : /\ r = "muddled" => s \in Decoding
                                 /\ r = "unusual" => s # "email"}

-----------------------------------------------------------------------------
(* SquashAndPushMessage, of the messages fs to one destination.            *)

\* squashMessages: all must have the method of the first.  (To Telegram it is
\* the method that may be malformed.)
MethodOf(f)      == f \cap (Methods \cup {"malformed"})
MixedMethods(fs) == \E i \in DOMAIN fs : MethodOf(fs[i]) # MethodOf(fs[1])

\* encodeEmailDigest parses the addresses of the first, if there are more.
BadDigestHeader(fs) == Len(fs) > 1 /\ "malformed" \in fs[1]

SquashFails(s, fs) ==
  \/ s = "telegram" /\ MixedMethods(fs)
  \/ s = "email"    /\ BadDigestHeader(fs)

\* Fault: the first message is the frame of the digest, and not part of it.
DigestedButFirst(s, fs) == 2..Len(fs)

\* The messages of which there is something in the digest: mails are embedded
\* one and all; of messages to Telegram the texts and captions are put
\* together, and the first one's photo is kept.
Digested(s, fs) ==
  {i \in DOMAIN fs : \/ s = "email"
                     \/ fs[i] \cap {"text", "caption"} # {}
                     \/ i = 1 /\ "photo" \in fs[i]}
=============================================================================
