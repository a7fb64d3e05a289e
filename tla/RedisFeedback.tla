--------------------------- MODULE RedisFeedback ---------------------------
(***************************************************************************)
(* The feedback store of internal/queue/redis/feedback.go: a Redis list to  *)
(* which the server adds an entry for each token that a push service       *)
(* rejects or replaces (TokenInvalid, ReplaceToken), and from which the     *)
(* application collects entries with POST /api/feedback (Pop), or looks at  *)
(* them with GET /api/feedback/peek (Peek, then Len).  Several requests may *)
(* be served at a time, by one Shove process or by several, and a job of    *)
(* the application may RPOP from the list itself (README, Direct Redis      *)
(* Access).                                                                *)
(*                                                                         *)
(* Pop sends LRANGE and LTRIM in a pipeline, which is not a transaction:   *)
(* Redis may serve other clients between the two.  Redis and the network   *)
(* are outside the repository; a command is one step.  A push that fails    *)
(* leaves nothing behind (the error is logged), and is left out.            *)
(***************************************************************************)
EXTENDS Naturals, Sequences, FiniteSets, SequencesExt

CONSTANTS
  MaxEntries,   (* how many entries are ever pushed: bounds the model only *)
  Collectors,   (* requests for feedback that may be served at one time    *)
  Limits        (* the limits they ask for                                 *)

ASSUME FeedbackAssumption ==
  /\ MaxEntries \in Nat
  /\ IsFiniteSet(Collectors)
  /\ Limits # {} /\ Limits \subseteq Nat \ {0}

VARIABLES
  list,       (* the Redis list, newest entry first                       *)
  pushed,     (* entries are numbered in the order they were pushed       *)
  pc,         (* where a request is                                       *)
  limit,      (* its limit                                                *)
  reply,      (* the entries it has read                                  *)
  received,   (* the entries the application has collected                *)
  dropped,    (* removed from the list, and the answer lost on its way    *)
  raced,      (* how many entries were pushed in the middle of a Pop,     *)
  overtaken,  (* and how many removed by others: once for each such Pop   *)
  repeats     (* entries the application was given once more              *)

races == <<raced, overtaken>>
told  == <<received, repeats>>
vars  == <<list, pushed, pc, limit, reply, told, dropped, races>>

\* "idle"   no request     "ranged"   between LRANGE and LTRIM
\* "popped" to be answered "peeked"   between LRANGE and LLEN
PCs == {"idle", "ranged", "popped", "peeked"}

Goto(c, from, to) ==
  /\ pc[c] = from
  /\ pc'   = [pc EXCEPT ![c] = to]

Min2(a, b) == IF a < b THEN a ELSE b

\* LRANGE -n -1 and what LTRIM 0 -(n+1) leaves
Tailmost(n)  == SubSeq(list, Len(list) - Min2(n, Len(list)) + 1, Len(list))
Trimmed(n)   == SubSeq(list, 1, Len(list) - Min2(n, Len(list)))

Init ==
  /\ list     = <<>>
  /\ pushed   = 0
  /\ pc       = [c \in Collectors |-> "idle"]
  /\ limit    = [c \in Collectors |-> 0]
  /\ reply    = [c \in Collectors |-> <<>>]
  /\ received = {}
  /\ dropped  = {}
  /\ raced    = 0
  /\ overtaken = 0
  /\ repeats  = 0

\* The other requests that have read, and will remove.
Between(others) == Cardinality({c \in others : pc[c] = "ranged"})

\* The application is given some entries.
Receive(entries) ==
  /\ received' = received \cup entries
  /\ repeats'  = repeats + Cardinality(entries \cap received)

\* LPUSH
Push ==
  /\ pushed < MaxEntries
  /\ pushed' = pushed + 1
  /\ list'   = <<pushed + 1>> \o list
  /\ raced'  = raced + Between(Collectors)
  /\ UNCHANGED <<pc, limit, reply, told, dropped, overtaken>>

\* Outside the repository: a job takes the oldest entry, with RPOP.
TakenDirectly ==
  /\ list # <<>>
  /\ list' = Front(list)
  /\ Receive({Last(list)})
  /\ overtaken' = overtaken + Between(Collectors)
  /\ UNCHANGED <<pushed, pc, limit, reply, dropped, raced>>

-----------------------------------------------------------------------------
(* Pop, and the answer of handleFeedback.                                  *)

\* Faults are variants of a definition, as a slip in the code would make it;
\* with the variant in its place a property of the runs fails.  The first: the
\* entries are read from the head of the list.
LRangeHead(c) ==
  /\ Goto(c, "idle", "ranged")
  /\ \E n \in Limits :
       /\ limit' = [limit EXCEPT ![c] = n]
       /\ reply' = [reply EXCEPT ![c] = SubSeq(list, 1, Min2(n, Len(list)))]
  /\ UNCHANGED <<list, pushed, told, dropped, races>>

LRange(c) ==
  /\ Goto(c, "idle", "ranged")
  /\ \E n \in Limits :
       /\ limit' = [limit EXCEPT ![c] = n]
       /\ reply' = [reply EXCEPT ![c] = Tailmost(n)]
  /\ UNCHANGED <<list, pushed, told, dropped, races>>

Trim(c, n) ==
  /\ list' = Trimmed(n)
  /\ overtaken' = overtaken + Min2(n, Len(list)) * Between(Collectors \ {c})

\* Fault: one entry too few is removed.
LTrimShort(c) ==
  /\ Goto(c, "ranged", "popped")
  /\ Trim(c, limit[c] - 1)
  /\ UNCHANGED <<pushed, limit, reply, told, dropped, raced>>

\* Fault: one entry too many is removed.
LTrimLong(c) ==
  /\ Goto(c, "ranged", "popped")
  /\ Trim(c, limit[c] + 1)
  /\ UNCHANGED <<pushed, limit, reply, told, dropped, raced>>

\* As many as the limit are removed, whatever LRANGE has found.
LTrim(c) ==
  /\ Goto(c, "ranged", "popped")
  /\ Trim(c, limit[c])
  /\ UNCHANGED <<pushed, limit, reply, told, dropped, raced>>

\* The locals of the request are forgotten.
Over(c) ==
  /\ reply' = [reply EXCEPT ![c] = <<>>]
  /\ limit' = [limit EXCEPT ![c] = 0]

\* The connection breaks before LTRIM: Pop returns an error.
PipelineBreaks(c) ==
  /\ Goto(c, "ranged", "idle")
  /\ Over(c)
  /\ UNCHANGED <<list, pushed, told, dropped, races>>

Answer(c) ==
  /\ Goto(c, "popped", "idle")
  /\ Receive(ToSet(reply[c]))
  /\ Over(c)
  /\ UNCHANGED <<list, pushed, dropped, races>>

\* The connection to Redis, or that of the client, breaks under the answer.
AnswerLost(c) ==
  /\ Goto(c, "popped", "idle")
  /\ dropped' = dropped \cup ToSet(reply[c])
  /\ Over(c)
  /\ UNCHANGED <<list, pushed, told, races>>

-----------------------------------------------------------------------------
(* Peek and Len, in handleFeedbackPeek.                                    *)

Peek(c) ==
  /\ Goto(c, "idle", "peeked")
  /\ \E n \in Limits :
       /\ limit' = [limit EXCEPT ![c] = n]
       /\ reply' = [reply EXCEPT ![c] = Tailmost(n)]
  /\ UNCHANGED <<list, pushed, told, dropped, races>>

\* Len is read, and the answer given.
Count(c) ==
  /\ Goto(c, "peeked", "idle")
  /\ Over(c)
  /\ UNCHANGED <<list, pushed, told, dropped, races>>

Next ==
  \/ Push
  \/ TakenDirectly
  \/ \E c \in Collectors :
       \/ LRange(c) \/ LTrim(c) \/ PipelineBreaks(c)
       \/ Answer(c) \/ AnswerLost(c)
       \/ Peek(c) \/ Count(c)

Spec == Init /\ [][Next]_vars

-----------------------------------------------------------------------------
(* Properties.                                                             *)

TypeOK ==
  /\ list \in Seq(1..pushed)
  /\ pushed \in 0..MaxEntries
  /\ pc \in [Collectors -> PCs]
  /\ limit \in [Collectors -> Limits \cup {0}]
  /\ reply \in [Collectors -> Seq(1..pushed)]
  /\ received \subseteq 1..pushed
  /\ dropped \subseteq 1..pushed
  /\ raced \in Nat /\ overtaken \in Nat /\ repeats \in Nat

\* Taken out of the list and still to be answered.
OnTheWay == UNION {ToSet(reply[c]) : c \in {d \in Collectors : pc[d] = "popped"}}

\* Pop "retrieves and removes", from the tail (feedback.go): what has been
\* collected, or is on its way, is not there for a later Pop, and neither is
\* anything older, whoever pushes or removes entries between LRANGE and LTRIM,
\* and wherever the connection breaks.
OlderPopsFirst ==
  \A old \in received \cup OnTheWay, new \in ToSet(list) : old < new

\* An entry is reported again only if somebody else removed one between the
\* LRANGE and the LTRIM of a Pop, and no more often than that: never to an
\* application that sends one request at a time.
RepeatsBounded == repeats <= overtaken

\* LTRIM counts from the end of the list as it is by then: if entries were
\* pushed, or removed by somebody else, since LRANGE, it may remove as many that
\* no answer reports.  No more entries are lost in this way.
LossBounded ==
  LET known == ToSet(list) \cup received \cup OnTheWay \cup dropped
  IN  Cardinality((1..pushed) \ known) <= raced + overtaken

\* Pop "removes from the tail (oldest entries first - FIFO order)"
\* (feedback.go).  LRANGE lists what it reads from the head: newest first.
OldestFirst ==
  \A c \in Collectors : pc[c] = "popped" =>
    \A i, j \in DOMAIN reply[c] : i < j => reply[c][i] < reply[c][j]
=============================================================================
