---------------------------- MODULE ServerProofs ----------------------------
(***************************************************************************)
(* Proofs about Server, for any services, requests and collectors.         *)
(*                                                                         *)
(* What the runs check is not inductive.  Phases adds which state of main  *)
(* goes with which state of the HTTP server and of the flag; Custody says   *)
(* where a request's message may be, and that only a running pump is busy; *)
(* Handout says that the entries handed out are the oldest reported ones.   *)
(***************************************************************************)
EXTENDS Server, FiniteSetTheorems, SequenceTheorems, TLAPS

\* main leaves setup before HTTP is served, gets past the drain only with no
\* handler left, and shuts queues and store down only after that.
Phases ==
  /\ main \in {"flagged", "draining", "workers", "exited", "gaveUp"} => shuttingDown
  /\ http = "closed" => shuttingDown
  /\ main = "setup" \/ workerOnly => http = "off"
  /\ main \in {"setup", "workers", "exited"} \/ workerOnly => InFlight = {} /\ Idle
  /\ closed # {} => main \in {"workers", "exited"}
  /\ storeClosed => main = "exited" /\ \A s \in Services : pump[s] = "joined"

\* A message is only where its service is, and only after its request was
\* accepted, and then it is somewhere; somebody is busy only while the pump
\* runs.
Custody ==
  /\ \A s \in Services : \A r \in queue[s] \cup working[s] \cup parked[s] :
       Target[r] = s /\ req[r] = "accepted"
  /\ \A r \in settled : req[r] = "accepted"
  /\ \A r \in Requests : req[r] \in {"checked", "accepted"} => Target[r] \in Services
  /\ \A r \in Requests : req[r] = "accepted" =>
       \/ r \in settled
       \/ r \in queue[Target[r]] \cup working[Target[r]] \cup parked[Target[r]]
  /\ \A s \in Services : working[s] # {} => pump[s] = "running"

Popped    == Len(reported) - Len(feedback)
HandedOut == collected \cup UNION {ToSet(reply[c]) : c \in Collectors}

\* The store holds the newest entries; the others are handed out, each once.
Handout ==
  /\ \A i, j \in DOMAIN reported : reported[i] = reported[j] => i = j
  /\ Len(feedback) <= Len(reported)
  /\ \A i \in DOMAIN feedback : feedback[i] = reported[Popped + i]
  /\ HandedOut = {reported[i] : i \in 1..Popped}
  /\ \A c \in Collectors : \A r \in ToSet(reply[c]) :
       /\ r \notin collected
       /\ \A d \in Collectors : r \in ToSet(reply[d]) => d = c

IInv == TypeOK /\ Phases /\ Custody /\ Handout

-----------------------------------------------------------------------------
(* Types.                                                                  *)

\* What a Pop leaves, and what it takes: at least one entry, at most Limit.
LEMMA PopSplits ==
  ASSUME TypeOK, feedback # <<>>
  PROVE  LET n == Taken(Limit) IN
         /\ Len(feedback) \in Nat /\ DOMAIN feedback = 1..Len(feedback)
         /\ n \in 1..Len(feedback) /\ n <= Limit
         /\ SubSeq(feedback, 1, n) \in Seq(Requests)
         /\ Len(SubSeq(feedback, 1, n)) = n
         /\ \A i \in 1..n : SubSeq(feedback, 1, n)[i] = feedback[i]
         /\ SubSeq(feedback, n + 1, Len(feedback)) \in Seq(Requests)
         /\ Len(SubSeq(feedback, n + 1, Len(feedback))) = Len(feedback) - n
         /\ \A i \in 1..(Len(feedback) - n) :
              SubSeq(feedback, n + 1, Len(feedback))[i] = feedback[n + i]
<1> DEFINE n == Taken(Limit)
           L == Len(feedback)
<1>1. /\ feedback \in Seq(Requests) /\ L \in Nat \ {0} /\ DOMAIN feedback = 1..L
      /\ \A i \in 1..L : feedback[i] \in Requests
  BY EmptySeq, LenProperties, ElementOfSeq DEF TypeOK
<1>2. Limit \in Nat \ {0}
  BY ServerAssumption
<1>3. n \in 1..L /\ n <= Limit
  BY <1>1, <1>2 DEF Taken
<1> HIDE DEF n, L
<1>4. /\ SubSeq(feedback, 1, n) \in Seq(Requests)
      /\ Len(SubSeq(feedback, 1, n)) = n
      /\ \A i \in 1..n : SubSeq(feedback, 1, n)[i] = feedback[i]
  <2>1. \A i \in 1..n : feedback[i] \in Requests
    BY <1>1, <1>3
  <2>2. /\ SubSeq(feedback, 1, n) \in Seq(Requests)
        /\ Len(SubSeq(feedback, 1, n)) = IF 1 <= n THEN n - 1 + 1 ELSE 0
        /\ \A i \in 1..(n - 1 + 1) : SubSeq(feedback, 1, n)[i] = feedback[1 + i - 1]
    BY <1>1, <1>3, <2>1, SubSeqProperties
  <2> QED BY <1>1, <1>3, <2>2
<1>5. /\ SubSeq(feedback, n + 1, L) \in Seq(Requests)
      /\ Len(SubSeq(feedback, n + 1, L)) = L - n
      /\ \A i \in 1..(L - n) : SubSeq(feedback, n + 1, L)[i] = feedback[n + i]
  <2>1. n + 1 \in Int /\ L \in Int /\ \A i \in (n + 1)..L : feedback[i] \in Requests
    BY <1>1, <1>3
  <2>2. /\ SubSeq(feedback, n + 1, L) \in Seq(Requests)
        /\ Len(SubSeq(feedback, n + 1, L)) = IF n + 1 <= L THEN L - (n + 1) + 1 ELSE 0
        /\ \A i \in 1..(L - (n + 1) + 1) :
             SubSeq(feedback, n + 1, L)[i] = feedback[(n + 1) + i - 1]
    BY <2>1, SubSeqProperties
  <2> QED BY <1>1, <1>3, <2>2
<1> QED BY <1>1, <1>3, <1>4, <1>5 DEF n, L

LEMMA TypeStep == TypeOK /\ [Next]_vars => TypeOK'
<1> SUFFICES ASSUME TypeOK, [Next]_vars PROVE TypeOK'
  OBVIOUS
<1> USE DEF MainPCs, HttpPCs, ReqPCs, PumpPCs
<1>1. CASE Serve \/ SetupFails \/ ListenFails \/ ListenClosed \/ ServeReturns \/ Interrupt
  BY <1>1 DEF TypeOK, Serve, SetupFails, ListenFails, ListenClosed, ServeReturns,
              Interrupt, httpVars, stopVars, pumpVars, storeVars
<1>2. CASE ShutdownStep
  BY <1>2 DEF TypeOK, ShutdownStep, CloseHttp, HttpDrained, DrainTimesOut, CloseStore,
              StopWorker, JoinWorker, httpVars, stopVars, pumpVars, storeVars
<1>3. CASE \E s \in Services : AddService(s) \/ StartPump(s) \/ StartFails(s) \/ PumpReturns(s)
  BY <1>3 DEF TypeOK, AddService, StartPump, StartFails, PumpReturns,
              mainVars, httpVars, stopVars, storeVars
<1>4. CASE \E s \in Services, r \in Requests :
             Settle(s, r) \/ Requeue(s, r) \/ Take(s, r) \/ Park(s, r)
  <2>1. PICK s \in Services, r \in Requests :
               Settle(s, r) \/ Requeue(s, r) \/ Take(s, r) \/ Park(s, r)
    BY <1>4
  <2>2. UNCHANGED <<mainVars, req, pump, storeVars>>
    BY <2>1 DEF Settle, Requeue, Take, Park
  <2>3. queue' \in [Services -> SUBSET Requests]
    BY <2>1 DEF TypeOK, Settle, Requeue, Take, Park
  <2>4. working' \in [Services -> SUBSET Requests]
    <3>1. PICK held \in SUBSET Requests : working' = [working EXCEPT ![s] = held]
      BY <2>1 DEF TypeOK, Settle, Requeue, Take, Park
    <3> QED BY <3>1 DEF TypeOK
  <2>5. parked' \in [Services -> SUBSET Requests]
    <3>1. parked' = parked \/ parked' = [parked EXCEPT ![s] = @ \cup {r}]
      BY <2>1 DEF Settle, Requeue, Take, Park
    <3> QED BY <3>1 DEF TypeOK
  <2>6. settled' \subseteq Requests
    <3>1. settled' = settled \/ settled' = settled \cup {r}
      BY <2>1 DEF Settle, Requeue, Take, Park
    <3> QED BY <3>1 DEF TypeOK
  <2> QED BY <2>2, <2>3, <2>4, <2>5, <2>6 DEF TypeOK, mainVars, httpVars, stopVars, storeVars
<1>5. CASE \E s \in Services : SendBatch(s)
  BY <1>5 DEF TypeOK, SendBatch, mainVars, httpVars, stopVars, storeVars
<1>6. CASE \E s \in Services, r \in Requests : Report(s, r)
  <2>1. PICK s \in Services, r \in Requests : Report(s, r)
    BY <1>6
  <2>2. reported' \in Seq(Requests) /\ feedback' \in Seq(Requests)
    BY <2>1, AppendProperties DEF Report, TypeOK
  <2> QED BY <2>1, <2>2 DEF TypeOK, Report, mainVars, httpVars, stopVars, pumpVars
<1>7. CASE \E r \in Requests : Refuse(r) \/ Check(r) \/ Enqueue(r)
  <2>1. PICK r \in Requests : Refuse(r) \/ Check(r) \/ Enqueue(r)
    BY <1>7
  <2>2. req' \in [Requests -> ReqPCs]
    BY <2>1 DEF TypeOK, Refuse, Check, Enqueue
  <2>3. queue' \in [Services -> SUBSET Requests]
    BY <2>1 DEF TypeOK, Refuse, Check, Enqueue, pumpVars
  <2>4. UNCHANGED <<mainVars, working, parked, settled, pump, storeVars>>
    BY <2>1 DEF Refuse, Check, Enqueue, pumpVars
  <2> QED BY <2>2, <2>3, <2>4 DEF TypeOK, mainVars, httpVars, stopVars, storeVars
<1>8. CASE \E c \in Collectors : Pop(c)
  <2>1. PICK c \in Collectors : Pop(c)
    BY <1>8
  <2>2. feedback' \in Seq(Requests)
    BY <2>1, PopSplits DEF Pop
  <2>3. /\ reply' \in [Collectors -> Seq(Requests)]
        /\ \A d \in Collectors : Len(reply'[d]) <= Limit
    <3>1. PICK entries \in Seq(Requests) :
            Len(entries) <= Limit /\ reply' = [reply EXCEPT ![c] = entries]
      BY <2>1, PopSplits DEF Pop
    <3> QED BY <3>1 DEF TypeOK
  <2> QED BY <2>1, <2>2, <2>3 DEF TypeOK, Pop, mainVars, httpVars, stopVars, pumpVars
<1>9. CASE \E c \in Collectors : Answer(c)
  <2>1. PICK c \in Collectors : Answer(c)
    BY <1>9
  <2>2. collected' \subseteq Requests
    <3>1. reply[c] \in Seq(Requests)
      BY DEF TypeOK
    <3>2. \A i \in DOMAIN reply[c] : reply[c][i] \in Requests
      BY <3>1, LenProperties, ElementOfSeq
    <3> QED BY <2>1, <3>2 DEF Answer, ToSet, TypeOK
  <2>3. <<>> \in Seq(Requests) /\ Len(<<>>) <= Limit
    BY EmptySeq, ServerAssumption
  <2>4. /\ reply' \in [Collectors -> Seq(Requests)]
        /\ \A d \in Collectors : Len(reply'[d]) <= Limit
    BY <2>1, <2>3 DEF Answer, TypeOK
  <2> QED BY <2>1, <2>2, <2>4 DEF TypeOK, Answer, mainVars, httpVars, stopVars, pumpVars
<1>10. CASE Gone \/ UNCHANGED vars
  BY <1>10 DEF TypeOK, Gone, vars, mainVars, httpVars, stopVars, pumpVars, storeVars
<1> QED BY <1>1, <1>2, <1>3, <1>4, <1>5, <1>6, <1>7, <1>8, <1>9, <1>10 DEF Next, PumpStep

LEMMA TypeInit == Init => TypeOK
<1> SUFFICES ASSUME Init PROVE TypeOK
  OBVIOUS
<1>1. <<>> \in Seq(Requests) /\ Len(<<>>) <= Limit
  BY EmptySeq, ServerAssumption
<1> QED BY <1>1 DEF Init, TypeOK, MainPCs, HttpPCs, ReqPCs, PumpPCs

-----------------------------------------------------------------------------
(* The phases of main and of the HTTP server.                              *)

LEMMA PhasesStep == TypeOK /\ Phases /\ [Next]_vars => Phases'
<1> SUFFICES ASSUME TypeOK, Phases, [Next]_vars PROVE Phases'
  OBVIOUS
<1> USE DEF Phases
\* Steps that leave requests and replies alone.
<1>0. ASSUME UNCHANGED <<req, reply>> PROVE InFlight' = InFlight /\ Idle' = Idle
  BY <1>0 DEF InFlight, Idle
<1>1. CASE Serve \/ SetupFails \/ ListenFails \/ ListenClosed \/ ServeReturns \/ Interrupt
  <2>1. UNCHANGED <<req, reply, closed, storeClosed, workerOnly, pump>>
    BY <1>1 DEF Serve, SetupFails, ListenFails, ListenClosed, ServeReturns, Interrupt,
                stopVars, pumpVars, storeVars
  <2> QED BY <1>0, <1>1, <2>1 DEF Serve, SetupFails, ListenFails, ListenClosed,
               ServeReturns, Interrupt, httpVars, Alive
<1>2. CASE CloseHttp \/ HttpDrained \/ DrainTimesOut
  <2>1. UNCHANGED <<req, reply, closed, storeClosed, workerOnly, pump, http, shuttingDown>>
    BY <1>2 DEF CloseHttp, HttpDrained, DrainTimesOut, httpVars, stopVars, pumpVars, storeVars
  <2> QED BY <1>0, <1>2, <2>1 DEF CloseHttp, HttpDrained, DrainTimesOut
<1>3. CASE CloseStore \/ \E s \in Services : StopWorker(s)
  <2>1. UNCHANGED <<req, reply, workerOnly, pump, http, shuttingDown>>
    BY <1>3 DEF CloseStore, StopWorker, httpVars, pumpVars, storeVars
  <2> QED BY <1>0, <1>3, <2>1 DEF CloseStore, StopWorker
<1>4. CASE \E s \in Services : \/ AddService(s) \/ StartPump(s) \/ StartFails(s)
                               \/ PumpReturns(s) \/ JoinWorker(s)
  <2>1. PICK s \in Services : \/ AddService(s) \/ StartPump(s) \/ StartFails(s)
                              \/ PumpReturns(s) \/ JoinWorker(s)
    BY <1>4
  <2>2. /\ UNCHANGED <<req, reply, main, http, shuttingDown, workerOnly, closed, storeClosed>>
        /\ ~storeClosed
    BY <2>1 DEF AddService, StartPump, StartFails, PumpReturns, JoinWorker, Alive,
                mainVars, httpVars, stopVars, storeVars
  <2> QED BY <1>0, <2>2
<1>5. CASE \/ \E s \in Services, r \in Requests :
                Settle(s, r) \/ Requeue(s, r) \/ Take(s, r) \/ Park(s, r) \/ Report(s, r)
           \/ \E s \in Services : SendBatch(s)
           \/ Gone \/ UNCHANGED vars
  <2>1. UNCHANGED <<req, reply, mainVars, pump>>
    BY <1>5 DEF Settle, Requeue, Take, Park, Report, SendBatch, Gone, vars, pumpVars, storeVars
  <2> QED BY <1>0, <2>1 DEF mainVars, httpVars, stopVars
<1>6. CASE \E r \in Requests : Refuse(r) \/ Check(r) \/ Enqueue(r)
  <2>1. PICK r \in Requests : Refuse(r) \/ Check(r) \/ Enqueue(r)
    BY <1>6
  <2>2. UNCHANGED <<mainVars, reply, pump>>
    BY <2>1 DEF Refuse, Check, Enqueue, pumpVars, storeVars
  <2>3. InFlight # {} \/ Serving
    BY <2>1 DEF Refuse, Check, Enqueue
  <2>4. /\ main \notin {"setup", "workers", "exited"} /\ ~workerOnly
    BY <2>3 DEF Serving
  <2> QED BY <2>2, <2>4 DEF mainVars, httpVars, stopVars
<1>7. CASE \E c \in Collectors : Pop(c) \/ Answer(c)
  <2>1. PICK c \in Collectors : Pop(c) \/ Answer(c)
    BY <1>7
  <2>2. UNCHANGED <<mainVars, req, pump>>
    BY <2>1 DEF Pop, Answer, pumpVars
  <2>3. ~Idle \/ Serving
    BY <2>1 DEF Pop, Answer, Idle
  <2>4. /\ main \notin {"setup", "workers", "exited"} /\ ~workerOnly
    BY <2>3 DEF Serving
  <2> QED BY <2>2, <2>4 DEF mainVars, httpVars, stopVars
<1> QED BY <1>1, <1>2, <1>3, <1>4, <1>5, <1>6, <1>7 DEF Next, PumpStep, ShutdownStep

-----------------------------------------------------------------------------
(* Where messages are.                                                     *)

LEMMA CustodyStep == TypeOK /\ Custody /\ [Next]_vars => Custody'
<1> SUFFICES ASSUME TypeOK, Custody, [Next]_vars PROVE Custody'
  OBVIOUS
<1> USE DEF Custody
<1>1. CASE \/ Serve \/ SetupFails \/ ListenFails \/ ListenClosed \/ ServeReturns \/ Interrupt
           \/ CloseHttp \/ HttpDrained \/ DrainTimesOut \/ CloseStore
           \/ \E s \in Services : StopWorker(s)
           \/ \E s \in Services, r \in Requests : Report(s, r)
           \/ \E c \in Collectors : Pop(c) \/ Answer(c)
           \/ Gone \/ UNCHANGED vars
  <2>1. UNCHANGED <<req, pumpVars>>
    BY <1>1 DEF Serve, SetupFails, ListenFails, ListenClosed, ServeReturns, Interrupt,
                CloseHttp, HttpDrained, DrainTimesOut, CloseStore, StopWorker,
                Report, Pop, Answer, Gone, vars
  <2> QED BY <2>1 DEF pumpVars
<1>2. CASE \E s \in Services : \/ AddService(s) \/ StartPump(s) \/ StartFails(s)
                               \/ PumpReturns(s) \/ JoinWorker(s)
  <2>1. PICK s \in Services : \/ AddService(s) \/ StartPump(s) \/ StartFails(s)
                              \/ PumpReturns(s) \/ JoinWorker(s)
    BY <1>2
  <2>2. UNCHANGED <<req, queue, working, parked, settled>>
    BY <2>1 DEF AddService, StartPump, StartFails, PumpReturns, JoinWorker
  <2>3. \E v : pump' = [pump EXCEPT ![s] = v] /\ (working[s] # {} => v = "running")
    BY <2>1 DEF AddService, StartPump, StartFails, PumpReturns, JoinWorker
  <2> QED BY <2>2, <2>3 DEF TypeOK
<1>3. CASE \E s \in Services, r \in Requests :
             Settle(s, r) \/ Requeue(s, r) \/ Take(s, r) \/ Park(s, r)
  <2>1. PICK s \in Services, r \in Requests :
               Settle(s, r) \/ Requeue(s, r) \/ Take(s, r) \/ Park(s, r)
    BY <1>3
  <2>2. /\ UNCHANGED <<req, pump>> /\ pump[s] = "running"
        /\ Target[r] = s /\ req[r] = "accepted"
    BY <2>1 DEF Settle, Requeue, Take, Park
  <2>3. /\ settled' \subseteq settled \cup {r}
        /\ \A t \in Services \ {s} : queue'[t] = queue[t]
        /\ queue'[s] \subseteq queue[s] \cup {r}
    BY <2>1 DEF TypeOK, Settle, Requeue, Take, Park
  <2>4. /\ \A t \in Services \ {s} : working'[t] = working[t] /\ parked'[t] = parked[t]
        /\ working'[s] \subseteq working[s] \cup {r}
        /\ parked'[s] \subseteq parked[s] \cup {r}
    BY <2>1 DEF TypeOK, Settle, Requeue, Take, Park
  <2>5. /\ settled \subseteq settled'
        /\ queue[s] \cup working[s] \cup parked[s] \cup settled
             \subseteq queue'[s] \cup working'[s] \cup parked'[s] \cup settled'
    BY <2>1 DEF TypeOK, Settle, Requeue, Take, Park
  <2>6. ASSUME NEW q \in Requests, req'[q] = "accepted"
        PROVE  \/ q \in settled'
               \/ q \in queue'[Target[q]] \cup working'[Target[q]] \cup parked'[Target[q]]
    <3>1. req[q] = "accepted" /\ Target[q] \in Services
      BY <2>2, <2>6
    <3>2. CASE Target[q] = s
      BY <2>5, <3>1, <3>2
    <3>3. CASE Target[q] # s
      BY <2>3, <2>4, <2>5, <3>1, <3>3
    <3> QED BY <3>2, <3>3
  <2> QED BY <2>2, <2>3, <2>4, <2>6
<1>4. CASE \E s \in Services : SendBatch(s)
  <2>1. PICK s \in Services : SendBatch(s)
    BY <1>4
  <2>2. /\ UNCHANGED <<req, queue, settled, pump>> /\ pump[s] = "running"
        /\ \A t \in Services : /\ working'[t] \subseteq working[t] \cup parked[t]
                               /\ parked'[t] \subseteq parked[t]
        /\ \A t \in Services \ {s} : UNCHANGED working[t]
    BY <2>1 DEF SendBatch, TypeOK
  <2>3. \A t \in Services : working[t] \cup parked[t] \subseteq working'[t] \cup parked'[t]
    BY <2>1 DEF SendBatch, TypeOK
  <2> QED BY <2>2, <2>3
<1>5. CASE \E r \in Requests : Refuse(r) \/ Check(r) \/ Enqueue(r)
  <2>1. PICK r \in Requests : Refuse(r) \/ Check(r) \/ Enqueue(r)
    BY <1>5
  <2>2. /\ UNCHANGED <<working, parked, settled, pump>>
        /\ req[r] # "accepted" /\ \A q \in Requests : q # r => req'[q] = req[q]
    BY <2>1 DEF Refuse, Check, Enqueue, InFlight, pumpVars, TypeOK
  <2>3. \A t \in Services : \A q \in queue'[t] :
          q \in queue[t] \/ (q = r /\ t = Target[r] /\ req'[q] = "accepted")
    BY <2>1 DEF Refuse, Check, Enqueue, pumpVars, TypeOK
  <2>4. \A t \in Services : queue[t] \subseteq queue'[t]
    BY <2>1 DEF Refuse, Check, Enqueue, pumpVars, TypeOK
  <2>5. req'[r] \in {"checked", "accepted"} => Target[r] \in Services
    BY <2>1 DEF Refuse, Check, Enqueue, InFlight, TypeOK
  <2>6. req'[r] = "accepted" => r \in queue'[Target[r]]
    BY <2>1, <2>5 DEF Refuse, Check, Enqueue, TypeOK
  <2>7. \A q \in Requests : req'[q] \in {"checked", "accepted"} => Target[q] \in Services
    BY <2>2, <2>5
  <2>8. ASSUME NEW q \in Requests, req'[q] = "accepted"
        PROVE  \/ q \in settled'
               \/ q \in queue'[Target[q]] \cup working'[Target[q]] \cup parked'[Target[q]]
    <3>1. CASE q = r
      BY <2>6, <2>8, <3>1
    <3>2. CASE q # r
      <4>1. req[q] = "accepted" /\ Target[q] \in Services
        BY <2>2, <2>8, <3>2
      <4> QED BY <2>2, <2>4, <4>1
    <3> QED BY <3>1, <3>2
  <2>9. \A t \in Services : \A q \in queue'[t] \cup working'[t] \cup parked'[t] :
          Target[q] = t /\ req'[q] = "accepted"
    BY <2>2, <2>3 DEF TypeOK
  <2>10. \A q \in settled' : req'[q] = "accepted"
    BY <2>2 DEF TypeOK
  <2> QED BY <2>2, <2>7, <2>8, <2>9, <2>10
<1> QED BY <1>1, <1>2, <1>3, <1>4, <1>5 DEF Next, PumpStep, ShutdownStep

-----------------------------------------------------------------------------
(* What happens to an entry of feedback.                                   *)

LEMMA ReportKeepsHandout ==
  ASSUME TypeOK, Handout, NEW s \in Services, NEW r \in Requests, Report(s, r)
  PROVE  Handout'
<1> DEFINE R == Len(reported)
           F == Len(feedback)
<1>1. /\ reported \in Seq(Requests) /\ R \in Nat /\ DOMAIN reported = 1..R
      /\ feedback \in Seq(Requests) /\ F \in Nat /\ DOMAIN feedback = 1..F
  BY LenProperties DEF TypeOK
<1>2. /\ reported' = Append(reported, r) /\ feedback' = Append(feedback, r)
      /\ UNCHANGED <<reply, collected>>
      /\ \A i \in 1..R : reported[i] # r
  BY <1>1 DEF Report, ToSet
<1>3. /\ Len(reported') = R + 1 /\ DOMAIN reported' = 1..(R + 1)
      /\ \A i \in 1..R : reported'[i] = reported[i]
      /\ reported'[R + 1] = r
      /\ Len(feedback') = F + 1 /\ DOMAIN feedback' = 1..(F + 1)
      /\ \A i \in 1..F : feedback'[i] = feedback[i]
      /\ feedback'[F + 1] = r
  BY <1>1, <1>2, AppendProperties, LenProperties
<1> HIDE DEF R, F
<1>4. R - F \in Nat /\ Popped = R - F /\ Popped' = R - F
  BY <1>1, <1>3 DEF Handout, Popped, R, F
<1>5. \A i, j \in DOMAIN reported' : reported'[i] = reported'[j] => i = j
  BY <1>1, <1>2, <1>3 DEF Handout
<1>6. Len(feedback') <= Len(reported')
  BY <1>1, <1>3, <1>4
<1>7. ASSUME NEW i \in DOMAIN feedback' PROVE feedback'[i] = reported'[Popped' + i]
  <2>1. CASE i = F + 1
    BY <1>1, <1>3, <1>4, <2>1
  <2>2. CASE i \in 1..F
    <3>1. Popped + i \in 1..R
      BY <1>1, <1>4, <2>2
    <3> QED BY <1>1, <1>3, <1>4, <2>2, <3>1 DEF Handout
  <2> QED BY <1>1, <1>3, <2>1, <2>2
<1>8. HandedOut' = {reported'[i] : i \in 1..Popped'}
  <2>1. \A i \in 1..Popped : i \in 1..R /\ reported'[i] = reported[i]
    BY <1>1, <1>3, <1>4
  <2>2. HandedOut' = HandedOut
    BY <1>2 DEF HandedOut
  <2>3. Popped' = Popped
    BY <1>4
  <2>4. {reported'[i] : i \in 1..Popped} = {reported[i] : i \in 1..Popped}
    BY <2>1
  <2> QED BY <2>2, <2>3, <2>4 DEF Handout
<1> QED BY <1>2, <1>5, <1>6, <1>7, <1>8 DEF Handout

LEMMA PopKeepsHandout ==
  ASSUME TypeOK, Handout, NEW c \in Collectors, Pop(c)
  PROVE  Handout'
<1> DEFINE n == Taken(Limit)
           R == Len(reported)
           F == Len(feedback)
<1>1. /\ reply[c] = <<>> /\ feedback # <<>>
      /\ reply' = [reply EXCEPT ![c] = SubSeq(feedback, 1, n)]
      /\ feedback' = SubSeq(feedback, n + 1, F)
      /\ UNCHANGED <<reported, collected>>
  BY DEF Pop
<1>2. /\ reported \in Seq(Requests) /\ R \in Nat /\ DOMAIN reported = 1..R
      /\ reply \in [Collectors -> Seq(Requests)]
  BY LenProperties DEF TypeOK
<1>3. /\ F \in Nat /\ DOMAIN feedback = 1..F /\ n \in 1..F
      /\ DOMAIN reply'[c] = 1..n
      /\ \A i \in 1..n : reply'[c][i] = feedback[i]
      /\ Len(feedback') = F - n /\ DOMAIN feedback' = 1..(F - n)
      /\ \A i \in 1..(F - n) : feedback'[i] = feedback[n + i]
  <2>1. \A q \in Seq(Requests) : DOMAIN q = 1..Len(q)
    BY LenProperties
  <2> QED BY <1>1, <1>2, <2>1, PopSplits
<1> HIDE DEF n, R, F
<1>4. R - F \in Nat /\ Popped = R - F /\ Popped' = R - F + n
  <2>1. F <= R /\ Popped = R - F
    BY DEF Handout, Popped, R, F
  <2>2. Popped' = R - (F - n)
    BY <1>1, <1>3 DEF Popped, R
  <2>3. n \in Nat
    BY <1>3
  <2> QED BY <1>2, <1>3, <2>1, <2>2, <2>3
<1>5. Len(feedback') <= Len(reported')
  BY <1>1, <1>2, <1>3, <1>4 DEF R
<1>6. ASSUME NEW i \in DOMAIN feedback' PROVE feedback'[i] = reported'[Popped' + i]
  <2>1. n + i \in DOMAIN feedback /\ feedback'[i] = feedback[n + i]
    BY <1>3
  <2>2. feedback[n + i] = reported[Popped + (n + i)]
    BY <2>1 DEF Handout
  <2>3. Popped + (n + i) = Popped' + i
    BY <1>2, <1>3, <1>4
  <2> QED BY <1>1, <2>1, <2>2, <2>3
\* The entries popped are those after the ones handed out before.
<1>7. ToSet(reply'[c]) = {reported[i] : i \in (Popped + 1)..Popped'}
  <2>1. \A i \in 1..n : i \in DOMAIN feedback /\ reply'[c][i] = reported[Popped + i]
    <3>1. \A i \in 1..n : i \in DOMAIN feedback
      BY <1>3
    <3> QED BY <1>3, <3>1 DEF Handout
  <2>2. \A i \in 1..n : Popped + i \in (Popped + 1)..Popped'
    BY <1>3, <1>4
  <2>3. \A j \in (Popped + 1)..Popped' : j - Popped \in 1..n /\ Popped + (j - Popped) = j
    BY <1>2, <1>3, <1>4
  <2>4. ToSet(reply'[c]) = {reply'[c][i] : i \in 1..n}
    BY <1>3 DEF ToSet
  <2>5. \A j \in (Popped + 1)..Popped' : reported[j] = reply'[c][j - Popped]
    BY <2>1, <2>3
  <2> QED BY <2>1, <2>2, <2>3, <2>4, <2>5
<1>8. HandedOut' = HandedOut \cup ToSet(reply'[c])
  <2>1. ToSet(reply[c]) = {}
    BY <1>1 DEF ToSet
  <2> QED BY <1>1, <1>2, <2>1 DEF HandedOut
<1>9. HandedOut' = {reported'[i] : i \in 1..Popped'}
  <2>1. 1..Popped' = (1..Popped) \cup ((Popped + 1)..Popped')
    BY <1>2, <1>3, <1>4
  <2> QED BY <1>1, <1>7, <1>8, <2>1 DEF Handout
<1>10. ToSet(reply'[c]) \cap HandedOut = {}
  <2>1. \A i \in 1..Popped : \A j \in (Popped + 1)..Popped' :
          i \in DOMAIN reported /\ j \in DOMAIN reported /\ i # j
    BY <1>2, <1>3, <1>4
  <2> QED BY <1>7, <2>1 DEF Handout
<1>11. ASSUME NEW d \in Collectors, NEW r \in ToSet(reply'[d])
       PROVE  /\ r \notin collected'
              /\ \A e \in Collectors : r \in ToSet(reply'[e]) => e = d
  <2>1. \A e \in Collectors : e # c => reply'[e] = reply[e] /\ ToSet(reply[e]) \subseteq HandedOut
    BY <1>1, <1>2 DEF HandedOut
  <2>2. collected \subseteq HandedOut
    BY DEF HandedOut
  <2> QED BY <1>1, <1>10, <2>1, <2>2 DEF Handout
<1> QED BY <1>1, <1>5, <1>6, <1>9, <1>11 DEF Handout

LEMMA AnswerKeepsHandout ==
  ASSUME TypeOK, Handout, NEW c \in Collectors, Answer(c)
  PROVE  Handout'
<1>1. /\ collected' = collected \cup ToSet(reply[c])
      /\ reply' = [reply EXCEPT ![c] = <<>>]
      /\ UNCHANGED <<reported, feedback>>
      /\ reply \in [Collectors -> Seq(Requests)]
  BY DEF Answer, TypeOK
<1>2. /\ ToSet(reply'[c]) = {}
      /\ \A d \in Collectors : d # c => reply'[d] = reply[d]
  BY <1>1 DEF ToSet
<1>3. HandedOut' = HandedOut
  BY <1>1, <1>2 DEF HandedOut
<1>4. \A d \in Collectors : \A r \in ToSet(reply'[d]) :
        /\ r \notin collected'
        /\ \A e \in Collectors : r \in ToSet(reply'[e]) => e = d
  BY <1>1, <1>2 DEF Handout
<1> QED BY <1>1, <1>3, <1>4 DEF Handout, Popped

LEMMA HandoutStep == TypeOK /\ Handout /\ [Next]_vars => Handout'
<1> SUFFICES ASSUME TypeOK, Handout, [Next]_vars PROVE Handout'
  OBVIOUS
<1>1. CASE UNCHANGED storeVars
  BY <1>1 DEF storeVars, Handout, HandedOut, Popped
<1>2. CASE \E s \in Services, r \in Requests : Report(s, r)
  BY <1>2, ReportKeepsHandout
<1>3. CASE \E c \in Collectors : Pop(c)
  BY <1>3, PopKeepsHandout
<1>4. CASE \E c \in Collectors : Answer(c)
  BY <1>4, AnswerKeepsHandout
<1> QED BY <1>1, <1>2, <1>3, <1>4
  DEF Next, PumpStep, ShutdownStep, Serve, SetupFails, ListenFails, ListenClosed,
      ServeReturns, Interrupt, CloseHttp, HttpDrained, DrainTimesOut, CloseStore,
      StopWorker, JoinWorker, Gone, AddService, StartPump, StartFails, Settle, Requeue,
      SendBatch, PumpReturns, Take, Park, Refuse, Check, Enqueue, vars

-----------------------------------------------------------------------------
(* The invariants of the runs.                                             *)

LEMMA IInvInit == Init => IInv
<1> SUFFICES ASSUME Init PROVE IInv
  OBVIOUS
<1>1. Phases /\ Custody
  BY DEF Init, Phases, Custody, InFlight, Idle
<1>2. Handout
  <2>1. /\ reported = <<>> /\ feedback = <<>> /\ collected = {}
        /\ Len(reported) = 0 /\ DOMAIN reported = {}
        /\ \A c \in Collectors : ToSet(reply[c]) = {}
    BY EmptySeq DEF Init, ToSet
  <2>2. Popped = 0 /\ HandedOut = {} /\ 1..0 = {}
    BY <2>1 DEF Popped, HandedOut
  <2> QED BY <2>1, <2>2 DEF Handout
<1> QED BY TypeInit, <1>1, <1>2 DEF IInv

\* The inductive invariant holds in every reachable state.
THEOREM IInvHolds == Spec => []IInv
<1>1. IInv /\ [Next]_vars => IInv'
  BY TypeStep, PhasesStep, CustodyStep, HandoutStep DEF IInv
<1> QED BY IInvInit, <1>1, PTL DEF Spec

\* Every variable keeps its type.
THEOREM TypeOKHolds == Spec => []TypeOK
<1>1. IInv => TypeOK
  BY DEF IInv
<1> QED BY IInvHolds, <1>1, PTL

\* No handler puts a message into a queue that worker.shutdown has shut down,
\* whatever the number of services, requests and collectors.
THEOREM NoPushIntoClosedQueueHolds == Spec => []NoPushIntoClosedQueue
<1>1. IInv => NoPushIntoClosedQueue
  BY DEF IInv, Phases, NoPushIntoClosedQueue
<1> QED BY IInvHolds, <1>1, PTL

\* When Server.Shutdown has closed the store every pump has been joined and is
\* busy with nothing, no handler is left, and every accepted message was settled
\* or is left in the queue or in a batch of its service.
THEOREM CleanExitHolds == Spec => []CleanExit
<1>1. IInv => CleanExit
  <2> SUFFICES ASSUME IInv, storeClosed PROVE CleanExit
    BY DEF CleanExit
  <2>1. main = "exited" /\ \A s \in Services : pump[s] = "joined"
    BY DEF IInv, Phases
  <2>2. \A s \in Services : working[s] = {}
    BY <2>1 DEF IInv, Custody
  <2>3. InFlight = {} /\ Idle
    BY <2>1 DEF IInv, Phases
  <2>4. ASSUME NEW r \in Requests, req[r] = "accepted"
        PROVE  r \in settled \cup queue[Target[r]] \cup parked[Target[r]]
    BY <2>2, <2>4 DEF IInv, Custody
  <2> QED BY <2>1, <2>2, <2>3, <2>4 DEF CleanExit
<1> QED BY IInvHolds, <1>1, PTL

\* Entries of feedback leave the store in the order they were reported, each
\* in one answer to one collector.
THEOREM FeedbackOnceHolds == Spec => []FeedbackOnce
<1>1. ASSUME IInv PROVE FeedbackOnce
  <2> DEFINE Out(r) == {c \in Collectors : r \in ToSet(reply[c])}
  <2>1. /\ TypeOK /\ Handout
        /\ reported \in Seq(Requests) /\ Len(reported) \in Nat
        /\ DOMAIN reported = 1..Len(reported)
        /\ feedback \in Seq(Requests) /\ Len(feedback) \in Nat
        /\ DOMAIN feedback = 1..Len(feedback)
    BY <1>1, LenProperties DEF IInv, TypeOK
  <2>2. Popped \in Nat /\ Popped + Len(feedback) = Len(reported)
    BY <2>1 DEF Handout, Popped
  <2>3. feedback = SubSeq(reported, Popped + 1, Len(reported))
    <3> DEFINE newest == SubSeq(reported, Popped + 1, Len(reported))
    <3>1. Popped + 1 \in Int /\ Len(reported) \in Int
      BY <2>1, <2>2
    <3>2. \A i \in (Popped + 1)..Len(reported) : reported[i] \in Requests
      BY <2>1, <2>2, ElementOfSeq
    <3>3. /\ newest \in Seq(Requests)
          /\ Len(newest) = IF Popped + 1 <= Len(reported)
                             THEN Len(reported) - (Popped + 1) + 1 ELSE 0
          /\ \A i \in 1..(Len(reported) - (Popped + 1) + 1) :
               newest[i] = reported[(Popped + 1) + i - 1]
      BY <3>1, <3>2, SubSeqProperties
    <3> HIDE DEF newest
    <3>4. Len(newest) = Len(feedback)
      <4>1. Len(newest) = IF Popped + 1 <= Len(reported)
                            THEN Len(reported) - (Popped + 1) + 1 ELSE 0
        BY <3>3
      <4>2. Len(reported) \in Nat /\ Len(feedback) \in Nat
        BY <2>1
      <4> QED BY <2>2, <4>1, <4>2
    <3>5. ASSUME NEW i \in 1..Len(feedback) PROVE feedback[i] = newest[i]
      <4>1. i \in 1..(Len(reported) - (Popped + 1) + 1) /\ (Popped + 1) + i - 1 = Popped + i
        BY <2>1, <2>2
      <4>2. feedback[i] = reported[Popped + i]
        BY <2>1 DEF Handout
      <4> QED BY <3>3, <4>1, <4>2
    <3> QED BY <2>1, <3>3, <3>4, <3>5, SeqEqual DEF newest
  <2>4. ASSUME NEW i \in DOMAIN reported
        PROVE  Cardinality(Out(reported[i])) + Cardinality(collected \cap {reported[i]})
                 = IF i <= Popped THEN 1 ELSE 0
    <3> DEFINE r == reported[i]
    <3>0. r \in HandedOut <=> i <= Popped
      <4>1. i \in 1..Popped <=> i <= Popped
        BY <2>1, <2>2
      <4>2. \A j \in 1..Popped : j \in DOMAIN reported
        BY <2>1, <2>2
      <4> QED BY <2>1, <4>1, <4>2 DEF Handout
    <3>1. CASE r \in collected
      <4>1. Out(r) = {} /\ collected \cap {r} = {r}
        BY <2>1, <3>1 DEF Handout
      <4>2. Cardinality(Out(r)) = 0 /\ Cardinality(collected \cap {r}) = 1
        BY <4>1, FS_EmptySet, FS_Singleton
      <4>3. i <= Popped
        BY <3>0, <3>1 DEF HandedOut
      <4> QED BY <4>2, <4>3
    <3>2. CASE r \notin collected /\ \E c \in Collectors : r \in ToSet(reply[c])
      <4>1. PICK c \in Collectors : r \in ToSet(reply[c])
        BY <3>2
      <4>2. Out(r) = {c} /\ collected \cap {r} = {}
        BY <2>1, <3>2, <4>1 DEF Handout
      <4>3. Cardinality(Out(r)) = 1 /\ Cardinality(collected \cap {r}) = 0
        BY <4>2, FS_EmptySet, FS_Singleton
      <4>4. i <= Popped
        BY <3>0, <4>1 DEF HandedOut
      <4> QED BY <4>3, <4>4
    <3>3. CASE r \notin collected /\ \A c \in Collectors : r \notin ToSet(reply[c])
      <4>1. Out(r) = {} /\ collected \cap {r} = {}
        BY <3>3
      <4>2. Cardinality(Out(r)) = 0 /\ Cardinality(collected \cap {r}) = 0
        BY <4>1, FS_EmptySet
      <4>3. ~(i <= Popped)
        BY <3>0, <3>3 DEF HandedOut
      <4> QED BY <4>2, <4>3
    <3> QED BY <3>1, <3>2, <3>3
  <2> QED BY <2>3, <2>4 DEF FeedbackOnce, Popped
<1> QED BY IInvHolds, <1>1, PTL

-----------------------------------------------------------------------------
(* What steps do.                                                          *)

\* ErrServerClosed never makes main exit with a failure: when ListenAndServe
\* returns it, shuttingDown was set before.
THEOREM NoFailureAfterInterruptHolds == Spec => NoFailureAfterInterrupt
<1>1. ASSUME IInv, Next, main' = "failed", main # "failed" PROVE http # "closed"
  <2>1. SetupFails \/ ServeReturns
    BY <1>1
    DEF Next, PumpStep, ShutdownStep, Serve, SetupFails, ListenFails, ListenClosed,
        ServeReturns, Interrupt, CloseHttp, HttpDrained, DrainTimesOut, CloseStore,
        StopWorker, JoinWorker, Gone, AddService, StartPump, StartFails, Settle, Requeue,
        SendBatch, PumpReturns, Take, Park, Report, Refuse, Check, Enqueue, Pop, Answer,
        vars, mainVars
  <2>2. CASE SetupFails
    BY <1>1, <2>2 DEF SetupFails, IInv, Phases
  <2>3. CASE ServeReturns
    BY <1>1, <2>3 DEF ServeReturns, IInv, Phases
  <2> QED BY <2>1, <2>2, <2>3
<1>2. IInv /\ [Next]_vars
        => [main' = "failed" /\ main # "failed" => http # "closed"]_vars
  BY <1>1
<1> QED BY IInvHolds, <1>2, PTL DEF Spec, NoFailureAfterInterrupt

-----------------------------------------------------------------------------
(* Each pump keeps its contract.                                           *)

\* A step that does not touch what the contract of t sees.
Apart(t) ==
  /\ UNCHANGED <<queue[t], working[t], parked[t], pump[t]>>
  /\ {r \in settled' : Target[r] = t} = {r \in settled : Target[r] = t}
  /\ t \in closed' <=> t \in closed

LEMMA ApartStutters ==
  ASSUME NEW t \in Services, Apart(t)
  PROVE  UNCHANGED Contract(t)!contractVars
BY DEF Apart, Contract!contractVars, Contract!places

LEMMA OtherServicesApart ==
  ASSUME TypeOK, Custody, NEW s \in Services, NEW t \in Services \ {s},
         \/ AddService(s) \/ StartPump(s) \/ StartFails(s) \/ PumpReturns(s) \/ SendBatch(s)
         \/ StopWorker(s) \/ JoinWorker(s)
         \/ \E r \in Requests : Settle(s, r) \/ Requeue(s, r) \/ Take(s, r) \/ Park(s, r)
  PROVE  Apart(t)
<1>1. CASE AddService(s) \/ StartPump(s) \/ StartFails(s) \/ PumpReturns(s) \/ SendBatch(s)
  BY <1>1 DEF Apart, TypeOK, AddService, StartPump, StartFails, PumpReturns, SendBatch,
              mainVars, stopVars
<1>2. CASE StopWorker(s) \/ JoinWorker(s)
  BY <1>2 DEF Apart, TypeOK, StopWorker, JoinWorker, pumpVars
<1>3. CASE \E r \in Requests : Requeue(s, r) \/ Take(s, r) \/ Park(s, r)
  BY <1>3 DEF Apart, TypeOK, Requeue, Take, Park, mainVars, stopVars
<1>4. CASE \E r \in Requests : Settle(s, r)
  BY <1>4 DEF Apart, TypeOK, Custody, Settle, mainVars, stopVars
<1> QED BY <1>1, <1>2, <1>3, <1>4

\* What the pump of s does is a step of its contract.
LEMMA PumpStepImplements ==
  ASSUME TypeOK, Custody, NEW s \in Services,
         StartPump(s) \/ StartFails(s) \/ PumpReturns(s) \/ StopWorker(s)
  PROVE  Contract(s)!ContractNext
<1>1. CASE StartPump(s) \/ StartFails(s)
  <2>1. Contract(s)!Start
    BY <1>1 DEF StartPump, StartFails, TypeOK, mainVars, stopVars,
                Contract!Start, Contract!places
  <2> QED BY <2>1 DEF Contract!ContractNext
<1>2. CASE PumpReturns(s)
  <2>1. Contract(s)!Return
    BY <1>2 DEF PumpReturns, TypeOK, mainVars, stopVars, Contract!Return, Contract!places
  <2> QED BY <2>1 DEF Contract!ContractNext
<1>3. CASE StopWorker(s)
  <2>1. Contract(s)!Close
    BY <1>3 DEF StopWorker, TypeOK, pumpVars, Contract!Close, Contract!places
  <2> QED BY <2>1 DEF Contract!ContractNext
<1> QED BY <1>1, <1>2, <1>3

LEMMA PumpMovesMessage ==
  ASSUME TypeOK, Custody, NEW s \in Services, NEW r \in Requests,
         Take(s, r) \/ Settle(s, r) \/ Requeue(s, r) \/ Park(s, r)
  PROVE  Contract(s)!ContractNext
<1>0. pump[s] = "running" /\ UNCHANGED <<pump, closed>> /\ Target[r] = s
  BY DEF Take, Settle, Requeue, Park, Custody, mainVars, stopVars
<1>1. CASE Take(s, r)
  <2>1. Contract(s)!Take(r)
    BY <1>0, <1>1 DEF Take, TypeOK, Contract!Take
  <2> QED BY <2>1 DEF Contract!ContractNext
<1>2. CASE Settle(s, r)
  <2>1. Contract(s)!Settle(r)
    BY <1>0, <1>2 DEF Settle, TypeOK, Contract!Settle
  <2> QED BY <2>1 DEF Contract!ContractNext
<1>3. CASE Requeue(s, r)
  <2>1. Contract(s)!Release(r)
    BY <1>0, <1>3 DEF Requeue, TypeOK, Contract!Release
  <2> QED BY <2>1 DEF Contract!ContractNext
<1>4. CASE Park(s, r)
  <2>1. Contract(s)!Park(r)
    BY <1>0, <1>4 DEF Park, TypeOK, Contract!Park
  <2> QED BY <2>1 DEF Contract!ContractNext
<1> QED BY <1>1, <1>2, <1>3, <1>4

LEMMA SendBatchUnparks ==
  ASSUME TypeOK, Custody, NEW s \in Services, SendBatch(s)
  PROVE  Contract(s)!ContractNext
<1>1. PICK batch \in SUBSET parked[s] :
             /\ working' = [working EXCEPT ![s] = @ \cup batch]
             /\ parked'  = [parked EXCEPT ![s] = @ \ batch]
  BY DEF SendBatch
<1>2. Contract(s)!Unpark(batch)
  BY <1>1 DEF SendBatch, TypeOK, mainVars, stopVars, Contract!Unpark
<1> QED BY <1>2 DEF Contract!ContractNext

\* The queue of a service accepts the message of a request once.
LEMMA EnqueueAccepts ==
  ASSUME TypeOK, Custody, NEW r \in Requests, Enqueue(r), NEW t \in Services
  PROVE  [Contract(t)!ContractNext]_(Contract(t)!contractVars)
<1>1. /\ req[r] = "checked"
      /\ queue' = [queue EXCEPT ![Target[r]] = @ \cup {r}]
      /\ UNCHANGED <<closed, working, parked, settled, pump>>
  BY DEF Enqueue, InFlight, mainVars, stopVars
<1>2. CASE Target[r] = t
  <2>1. r \notin queue[t] \cup working[t] \cup parked[t] /\ r \notin settled
    BY <1>1 DEF Custody
  <2>2. Contract(t)!Accept(r)
    BY <1>1, <1>2, <2>1 DEF TypeOK, Contract!Accept, Contract!Anywhere
  <2> QED BY <2>2 DEF Contract!ContractNext
<1>3. CASE Target[r] # t
  <2>1. Apart(t)
    BY <1>1, <1>3 DEF Apart, TypeOK
  <2> QED BY <2>1, ApartStutters
<1> QED BY <1>2, <1>3

LEMMA StepKeepsContract ==
  ASSUME TypeOK, Custody, [Next]_vars, NEW t \in Services
  PROVE  [Contract(t)!ContractNext]_(Contract(t)!contractVars)
<1>1. CASE \E s \in Services :
             \/ AddService(s) \/ StartPump(s) \/ StartFails(s) \/ PumpReturns(s) \/ SendBatch(s)
             \/ StopWorker(s) \/ JoinWorker(s)
             \/ \E r \in Requests : Settle(s, r) \/ Requeue(s, r) \/ Take(s, r) \/ Park(s, r)
  <2>1. PICK s \in Services :
             \/ AddService(s) \/ StartPump(s) \/ StartFails(s) \/ PumpReturns(s) \/ SendBatch(s)
             \/ StopWorker(s) \/ JoinWorker(s)
             \/ \E r \in Requests : Settle(s, r) \/ Requeue(s, r) \/ Take(s, r) \/ Park(s, r)
    BY <1>1
  <2>2. CASE s # t
    BY <2>1, <2>2, OtherServicesApart, ApartStutters
  <2>3. CASE s = t /\ (AddService(s) \/ JoinWorker(s))
    BY <2>3 DEF AddService, JoinWorker, TypeOK, mainVars, stopVars,
                Contract!contractVars, Contract!places
  <2>4. CASE s = t /\ ~(AddService(s) \/ JoinWorker(s))
    BY <2>1, <2>4, PumpStepImplements, PumpMovesMessage, SendBatchUnparks
  <2> QED BY <2>2, <2>3, <2>4
<1>2. CASE \E r \in Requests : Enqueue(r)
  BY <1>2, EnqueueAccepts
<1>3. CASE \/ Serve \/ SetupFails \/ ListenFails \/ ListenClosed \/ ServeReturns \/ Interrupt
           \/ CloseHttp \/ HttpDrained \/ DrainTimesOut \/ CloseStore
           \/ \E r \in Requests : Refuse(r) \/ Check(r)
           \/ \E s \in Services, r \in Requests : Report(s, r)
           \/ \E c \in Collectors : Pop(c) \/ Answer(c)
           \/ Gone \/ UNCHANGED vars
  <2>1. UNCHANGED <<pumpVars, closed>>
    BY <1>3 DEF Serve, SetupFails, ListenFails, ListenClosed, ServeReturns, Interrupt,
                CloseHttp, HttpDrained, DrainTimesOut, CloseStore, Refuse, Check,
                Report, Pop, Answer, Gone, vars, mainVars, stopVars
  <2>2. Apart(t)
    BY <2>1 DEF Apart, pumpVars
  <2> QED BY <2>2, ApartStutters
<1> QED BY <1>1, <1>2, <1>3 DEF Next, PumpStep, ShutdownStep

\* Whatever the other services, the handlers and main do, every service has a
\* pump as PumpContract says, of which module Pump is the detail.
THEOREM ServerImplementsPumpContract == Spec => ImplementsPumpContract
<1>1. Init => \A s \in Services : Contract(s)!ContractInit
  BY DEF Init, Contract!ContractInit
<1>2. IInv /\ [Next]_vars
        => [\A s \in Services : [Contract(s)!ContractNext]_(Contract(s)!contractVars)]_vars
  BY StepKeepsContract DEF IInv
<1> QED BY <1>1, <1>2, IInvHolds, PTL DEF Spec, ImplementsPumpContract
=============================================================================
