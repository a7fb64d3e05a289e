# A verification of Shove in TLA+

Shove takes push notifications over HTTP (or from a Redis list) and delivers them
through APNS, FCM, Telegram, webhooks, Web Push and email. This directory holds TLA+
models of its queues, its pumps with their rate limiter, the adapters to the push
services, its feedback stores and its server, the TLC configurations that check them on
small instances, and proofs, checked by TLAPS, of the safety properties of each of them.

## 1. The system

| part | state | operations | talks to |
|---|---|---|---|
| queue interface (`internal/queue/queue.go`) | - | `Queue`, `Get`, `Remove`, `Requeue`, `Shutdown` | - |
| queue in memory (`internal/queue/memory/queue.go`) | slots `buf`; per message `pending`, `idx`; `shuttingDown`; a mutex and a condition variable | as above; `Queue` and `Requeue` signal after the unlock | called by HTTP handlers, pump workers, the squasher |
| Redis queue (`internal/queue/redis/redis.go`, `pkg/shove/client.go`) | a Redis list; in `Get` the retry delay | LPUSH at the head, BRPOP at the tail with retries; `Remove` and `Shutdown` do nothing | Redis, other processes |
| squasher (`internal/services/squasher.go`) | per key the times of recorded pushes and a batch with its due time; `shuttingDown` | `prepareToPush`, `requestShutdown`, and a goroutine: `getNextBatch`, `sendBatch` | called by the workers; removes messages from the queue |
| pump (`internal/services/pump.go`) | a wait group, the worker goroutines | `Serve`, `serveClient`, `backoff` | queue, squasher, adapter |
| worker (`internal/server/worker.go`) | a context, the channel `finished` | `push`, `serve`, `shutdown` | queue, pump |
| feedback stores (`internal/queue/*/feedback.go`) | a slice, or a Redis list | `Push`, `Pop`, `Peek`, `Len`, `Close` | adapters push, HTTP handlers pop |
| server and main (`internal/server/*.go`, `cmd/shove/main.go`) | the services, the HTTP server | set-up, handlers, `Shutdown` | workers, feedback store |
| adapters (`internal/services/{apns,fcm,telegram,webhook,webpush,email}`) | none that outlives a push | `ConvertMessage`, `PushMessage`, `SquashAndPushMessage` | the push services |
| metrics (`internal/server/metrics.go`) | two counters per service | `CountPush` | called by the adapters |

What is hard in it, and what makes each part correct:

- **Queue in memory.** Clients interleave with signals that are sent outside the lock,
  slots are reused, `Remove` empties a slot without looking. Correct if no message is
  held by two, a removal hits the right slot, no message is hidden behind a stale flag,
  no wake-up is lost, and shutdown reaches every sleeper.
- **Redis queue.** Connections fail at any point, processes are stopped and crash.
  Correct if messages are not duplicated, requeued ones starve nobody, cancellation is
  seen wherever `Get` is, and a fault loses no more than what is in hand.
- **Squasher.** A window over time, shared by workers and a goroutine that sleeps.
  Correct if the rate is kept (it is exceeded, by a bounded amount), each message is
  pushed once or is in one batch, and every batch is sent.
- **Pump and worker.** Start-up, work and shutdown overlap. Correct if `Serve` returns
  only when nothing is in progress, does return when asked to, the wait group does not
  panic, and every accepted message is dealt with.
- **Feedback.** Several collectors and pumps at once, in Redis without a transaction.
  Correct if an entry is handed out once, oldest first, and not lost (in Redis it may be
  repeated or lost, by a bounded amount).
- **Server.** The listener, handlers, pumps and store must be shut down in that order,
  while handlers may hang.
- **Adapters.** Push services fail, throttle, are silent, or take a message and lose the
  answer. Correct if a message is not delivered twice without need, not lost without
  reason, retried only while that can help, reported once when its token is gone, and
  counted as what it was.

`PROJECT.json` lists each hazard at its line, with the properties about it.

## 2. The modules

| module | models | state and actions in the code |
|---|---|---|
| `WorkQueue` | the promise of `queue.Queue` | each message is available, taken or settled; `Accept`, `Take`, `Settle`, `Release`, `Close` are the methods |
| `MemoryQueue` | the queue in memory and its clients | `buf`, `idx`, `pending` as in the code; a critical section is one step; `QueueSignal` and `RequeueSignal` are the signals after the unlock; `Waiting` is the wait set of the condition variable; `Park` is a message left to the squasher |
| `RedisQueue` | the Redis queue and its consumers | `pc` follows the loop of `Get`; `delay` counts the growths of `retryDelay`; `lost` holds messages that are nowhere any more |
| `Squasher` | the squasher's state and steps | `pushedAt`, `batches`, `due`; `sq` is where the goroutine is |
| `RateLimiter` | `Squasher` under workers that push, fail and retry | `queued`, `pushing`, `done` |
| `Pump` | `Squasher`, an abstract queue (`WorkQueue`), `Serve`, the workers, and `worker.shutdown` | `wg` is the counter of the wait group, `serve`, `main` and `pc` where the goroutines are; `config` says whether there is a squasher, whether the queue is in Redis and which messages cannot be converted |
| `PumpContract` | what `worker.go` and the server rely on in a pump | each message is available, busy, parked in a batch, settled or lost; `Return` needs that nobody is busy and, in memory, that the queue is shut down |
| `Adapters` | `ConvertMessage`, `PushMessage` and the squashing of the six adapters, as operators | an adapter is the sets of replies that it takes for success, tries again, counts as success and reports; `Converts`, `SquashFails` and `Digested` are about a message's fields |
| `Delivery` | `Adapters` in the loop of one service, with the push service and the counter of successes | `place` of a message; `arrived`, `unsure`, `last`, `spoilt`, `squashed`, `acked`, `took` are history |
| `RedisFeedback` | the Redis feedback store, its HTTP handlers, and a job that RPOPs | entries are numbered in the order they are pushed; LRANGE and LTRIM are two steps; `raced` and `overtaken` count what happens between them |
| `Server` | main, the listener, handlers, several services, shutdown, the feedback store in memory | a pump is reduced to its contract, with the tokens it reports; `http` is where the goroutine of `Server.Serve` is |
| `MemoryQueueProofs`, `RedisQueueProofs`, `SquasherProofs`, `RateLimiterProofs`, `PumpProofs`, `ServerProofs`, `RedisFeedbackProofs`, `DeliveryProofs` | nothing of their own: each extends the module it is about and proves its properties; `PumpProofs` and `RateLimiterProofs` extend `SquasherProofs` as well | section 5 |

How they are composed: `MemoryQueue` implements `WorkQueue`, so that
`Pump` can use `WorkQueue` in its place; `RedisQueue` implements it as well, except that
it is never closed and that a message can be lost, for which `Pump` has `GetErrs` and
`RequeueFails`. `Pump` implements `PumpContract`, and each of the pumps in `Server` is a
`PumpContract`. All four refinements are checked and proved. The contract says nothing about whether `Serve` returns once its queue is
shut down: without a squasher it does (`PlainShutdownCompletes`), with one it may not
(`ShutdownCompletes`, run `pump_hang`). `Server` has that as a premise of `ShutdownEnds`.
`Delivery` leaves open when a message is squashed, which is `Squasher`'s matter.

`MC*.tla` and the `.cfg` files instantiate the modules. A definition whose comment
starts with "Fault" is a wrong variant of the one after it; `PROJECT.json` names, for
each property of a run, the variant that makes it fail.

### Abstractions

- Messages are identities, and in `Delivery` sets of fields: those that `ConvertMessage`
  and the squashing look at, with "malformed" for a value nobody looks at before a request
  is made of it. Elsewhere `ConvertMessage` fails for some messages (`Bad` in `Pump`).
- The reply to a push is one of the classes that some adapter tells apart (`Replies` in
  `Adapters`). The answer each service gives to a push it takes (201 from Web Push, 200
  from the others) is kept apart from any other 2xx, which APNS and Web Push take for a
  failure; an answer that cannot be decoded from one that can, since the clients of APNS
  and Telegram decode it before they look at the status; a 401 or 403 that ends when our
  credentials are in order from a 4xx on account of the message. Which replies a message
  can meet depends on its fields (`RepliesTo`): Firebase's library checks a message before
  it sends it. Elsewhere a push succeeds, fails for good, or fails for the time being.
- With no answer, or with a 5xx, the push service may or may not have taken the message.
- Time, in `Squasher`, is in units of `maxZzz` (half a second), kept relative to now so
  that the clock runs for ever. The lengths of back-offs are left out elsewhere.
- `cond.Signal` wakes any one waiter.
- Redis answers a command in one step. A reply to BRPOP may be lost; retries inside the
  client library, which can duplicate an LPUSH, are not modelled. Redis does not promise
  that the two commands of a pipeline are served together, and the model lets others
  come between, which a server that has read both will seldom do.
- In `Server` the flag `shuttingDown`, which two goroutines share without a lock, is read
  as it was last written: `http.Server` has a lock in between.
- A panic of the wait group ends the process (`panicked`).

## 3. The runs

| run | instance | result |
|---|---|---|
| `memory_queue` | 3 messages, 2 consumers; 145 656 states | holds |
| `rate_limiter` | 4 messages to 2 keys, RateMax 1, RatePer one unit; 70 043 states | holds |
| `rate_exceeded` | the same | **fails**: the rate is exceeded |
| `pump` | 2 workers; in memory with a squasher, 2 messages to one key; in memory without; in Redis with and without, one of 2 messages not convertible; 186 207 states | holds |
| `pump_hang` | 1 worker, 2 messages, in memory with a squasher | **fails**: shutdown hangs |
| `pump_orphan` | 2 workers, 1 message, a squasher, Redis | **fails**: a batch is never sent |
| `redis_queue` | 2 consumers, 2 messages, one crash; 114 068 states | holds |
| `redis_feedback` | 2 collectors and a job, 3 entries, limits 1 and 2; 753 841 states (up to symmetry) | holds |
| `feedback_order` | the same | **fails**: newest entry first within an answer |
| `server` | 2 services, one with a squasher, 3 requests, 2 collectors, with and without HTTP; 143 978 states | holds |
| `delivery` | each of the 6 adapters, 2 messages of 3 to 7 contents, the push service out of order twice; 52 778 states | holds |
| `push_counters` | the same | **fails**: a success is counted as an error |

What they show:

- `memory_queue`. `SlotOwnership`, `SoleHolder` and `PendingIsHeld` tie slots, flags and
  holders together; `NoLostWakeup` is the reason that signalling outside the lock is
  sound; `ShutdownReleasesAll` is about stopping;
  `EveryMessageTaken` needs requeues to stop, since the lowest slot goes first;
  `ImplementsWorkQueue` is the refinement. Three messages let one be requeued, one be
  parked and one be added in a freed slot; two consumers let one sleep while another
  works or steals its message.
- `rate_limiter`. `OnePlace`: no message is both pushed and in a batch. `RateBound`: at
  most RateMax + 2 pushes in a window (RateMax + 1 is violated). `SquashedIsSent`. Four
  messages are needed to reach the bound: one that keeps failing and refills the window,
  two batches of the same key, and another key whose batch competes.
- `pump`. `Custody`: each message taken from the queue is with one worker or the
  squasher. `UnsentOnlyAfterShutdown`, `AcceptedIsSettled`, `WokenForAReason`.
  `PanicOnlyWhileStarting` confines the panic that `wg.Add` after `go` makes possible to
  the start of the workers. `PlainShutdownCompletes`, though `Get` and `Requeue` may fail.
  `ImplementsPumpContract`: above all, `Serve` does not return in the middle of a push.
  Two workers are the least that can disagree; with two messages and RateMax 1 one is
  pushed and one squashed, or either is retried.
- `redis_queue`. `Custody`: a message is in one place at a time, whoever crashes, and a
  crash or a broken connection loses one at most. `EveryMessageTaken` holds although
  others are requeued, because a requeued message goes to the far end.
  `CancelEndsConsumer`, `BackoffGrows`. `MaxDelay = 1` is the first growth of the delay
  and its cap at once. `MaxCrashes = 1`: with unboundedly many crashes no consumer need
  ever get anywhere.
- `redis_feedback`. `OlderPopsFirst`: what was collected is not there for a later `Pop`,
  nor is anything older. Requests that overlap can read the same entries and remove
  others: `RepeatsBounded` and `LossBounded` count how often at most. With one collector
  and no job nothing is repeated, and entries are lost only to pushes between LRANGE and
  LTRIM. Three entries and a limit of two let a `Pop` find fewer than it removes, with
  another to follow; four entries were checked as well (8 410 698 states).
- `server`. `NoPushIntoClosedQueue` and `CleanExit` are the order of shutdown: once
  `Server.Shutdown` has closed the store no request is in progress, every pump has been
  joined, and each accepted message is settled, in its queue or, squashed, still in a
  batch, which nobody sends any more. Neither says anything of a shutdown that gave up
  after five seconds: main exits then as well, with pumps at work, and what they do is
  lost. `NoFailureAfterInterrupt` its race with the listener that returns, `FeedbackOnce` the
  store in memory with two collectors (in order, each entry once), `ShutdownEnds` that
  hanging handlers, a listener that failed and pumps whose start failed do not keep it
  from ending. Two services make the loop over workers matter.
- `delivery`. `TwiceOnlyIfUnsure`: a message arrives twice only with APNS, FCM and
  Telegram, and only after a push that was taken without a proper answer; the others never
  push again after one. `LossExplained` lists what can lose a message: content, a
  refusal, an outage (three adapters take it for good, and every batch is given up), a
  batch of two methods or with a bad sender, or, in a batch to Telegram, that it has no
  text. `ReportedOnce`. `SuccessesTrue`: the counter of successes is at most what was taken
  and, but for Telegram, at least what was acknowledged with the status the adapter waits
  for; another 2xx is counted by FCM and webhooks, not by APNS and Web Push.
  `SettledInTheEnd` lists what is tried again for ever (`Endless`): to APNS a malformed
  message and a 4xx whose body cannot be decoded, which Telegram's adapter repeats as
  well; to FCM whatever its library objects to (`registration_ids` in place of `to`, a
  topic beside it, some values) and any 4xx of one token but "invalid argument" and "not
  found". Two messages are a batch; two outages let one message have two, or two messages
  one each.

The runs that fail are findings, each with the line of the code and what the
documentation says, in `PROJECT.json`.

## 4. Fairness

Weak fairness of each goroutine's steps, since Go's scheduler runs every runnable
goroutine: `Step(c)` and the pending signals in `MemoryQueue`; the workers, `Serve`, the
squasher, `Cancel` and `Join` in `Pump`; the pumps' steps on a message and `Shutdown` in
`Server`, but not that a pump returns. In `Pump` and `Server` this includes that a push
ends. The HTTP clients of Telegram, webhooks and Web Push have a time-out (APNS: that of
its library); FCM's and the SMTP client are given none, so that for these it is an
assumption. `Delivery` tells them apart: it is fair only to pushes that have a time-out
(`Timed`), and has as a premise that the others end. `MaxFaults` bounds the outages there;
with endless ones a message would be tried again for ever.
Time passes (`Clock`). In `RedisQueue` the success of BRPOP is strongly fair for each consumer:
however often the connection fails, it works again and again; no fairness is assumed of
crashes, restarts, errors or cancellation. Nowhere is it assumed that anybody sends a
message, asks for feedback or sends a signal. The properties that need more say so as a
premise: `EveryMessageTaken` of `MemoryQueue` that requeues stop, `AcceptedIsSettled`
that pushes stop failing for the time being.

## 5. Proofs

TLC says that a formula holds in an instance, TLAPS that it holds for every value of the
constants. Every safety invariant, action property and refinement that a passing run
checks is a theorem, in the module of the component's name with `Proofs` at its end. Each
module has the invariant `IInv` that its steps preserve, in named parts, one lemma for
each part and, where a step does something to a part, one for that step; the theorems
follow from it. Each `IInv` was first checked by TLC on the component's instance.

The assumptions are those of the modules, which TLC evaluates on each run:

| constants | assumed |
|---|---|
| `MemoryQueue` | the consumers are finitely many; `Nil` is no message |
| `RedisQueue` | `Nil` is no message. Consumers may be infinitely many; `MaxDelay` and `MaxCrashes` are any numbers |
| `Squasher`, `RateLimiter` | each message has a key; RateMax is at least 1, since `NewPump` makes no squasher for 0; RatePer is any number of units |
| `Pump` | as `Squasher`; the workers are finitely many and there is one; `Nil` is no message. `Configs` are any of the configurations |
| `RedisFeedback` | the collectors are finitely many; limits are at least 1, which the handler sees to |
| `Server` | each request names a service, or `Nil` for one that does not exist; `Limit` is at least 1 |
| `Delivery` | the messages are finitely many; their contents are for the six services |

`MaxDelay`, `MaxCrashes`, `MaxEntries` and `MaxFaults` keep TLC's instances finite. The
theorems hold for each value of them, so that the bounds limit nothing that is proved.

### `MemoryQueueProofs`

- `Ownership` is the inductive invariant behind `TypeOK`, `SlotOwnership`, `SoleHolder`
  and `PendingIsHeld`. None of the four is inductive alone. It adds that a message is
  in the slot it remembers and no other (`Slotted`), so that emptying one slot cannot
  remove another message; that a message not yet queued is nowhere (`Unqueued`); that a
  consumer has a message exactly while it handles it (`InHand`); that held messages are
  pending (`HeldIsPending`).
- `Signalled` is what `NoLostWakeup` needs. That somebody is awake while a message is
  ready is not inductive: the one who is awake may take one of two ready messages. So it
  counts (`Counted`): while a consumer waits there are at most as many ready messages as
  signals under way and consumers about to look. Each step changes both sides by one at
  most (lemmas `...KeepsCount`).
- `MemoryQueueImplementsWorkQueue` maps the message in a slot to available or taken by
  its pending flag, and each step to the step of `WorkQueue` of its name or a stutter.
- `NothingTakenAfterShutdownHolds` is about a property that no run checks by itself: the
  refinement of `WorkQueue` implies it.

### `RedisQueueProofs`

- `Custody` counts in how many places a message is, which no prover likes to do step by
  step. The invariant says it set by set: the list, what is in hand, what is done and what
  is lost are `Apart` and the list has nothing twice; a consumer has a message exactly
  while it handles one (`InHand`); a message that `Queue` accepted is somewhere and one that nobody
  has queued is nowhere (`Told`; after an error it may be either); there are no more `Losses` than crashes
  and broken connections. `CopiesAre` turns the sets into the count.
- `StepMoves` says what any step does to the messages: one of seven ways (`Stay`, `Arrive`,
  `HandOut`, `Vanish`, `Finish`, `Return`, `Drop`). The parts of the invariant and the
  refinement of `WorkQueue` are proved of the ways instead of the actions. A lost message
  maps to one that is taken for ever.
- `BackoffGrowsHolds` is an action property, straight from the steps of the loop in `Get`.

### `SquasherProofs`

What holds of the squasher whoever calls it; `RateLimiterProofs` and `PumpProofs` extend it.

- `flushAndGetRate` is a loop. The model says what it leaves with a recursive function,
  `InWindow`, and the lemmas up to `InWindowFlushes` prove what the loop does: it stops at
  the first push that is in the window and keeps that and all after it. This takes an
  induction, and as the library's induction theorems cannot be used here (they have an
  operator as a parameter), it is done with a least counterexample: `LeastNatural`, from a
  finite set of numbers being well founded.
- `SquasherInv`: pushes are recorded in order (`Aged`); `getNextBatch` goes on for a
  reason (`WokenForAReason`); messages are on their way out exactly in the states that say
  so (`Loaded`); batches hold messages of their key, each once, and none of them is being
  sent at the same time (`BatchesApart`).

### `RateLimiterProofs`

- `RateBound`, with at most RateMax + 2 pushes in a window, is not inductive: a batch
  whose time has come is pushed whatever the window holds. `Budget` says
  how many of the pushes will still be in the window when the batch falls due: RateMax + 1,
  or RateMax if another push is just to be recorded; and that there are RateMax + 1 when
  the push of a batch is about to be recorded. It needs that pushes are recorded in order,
  hence `Aged`: a batch is due when the oldest push in the window has left it, which makes
  room for one (`SquashWithinBudget`), and takes that room when it goes (`TakeBatchWithinBudget`).
- `OnePlace` follows from `Partition`, the same said set by set.

### `PumpProofs`

- `Places` and `Custody`: a message is in the queue, handed out or settled; what is handed
  out is with one worker or with the squasher. With `SquasherInv` this is inductive.
- `Counting` is why the wait group panics only while workers are started. Its counter is
  the number of goroutines that have yet to call `Done`, less one between `go` and
  `wg.Add`; there alone it can be too low.
- `Starting` and `Stopping` give the order in which goroutines come and go: no worker
  before there are clients, none that is yet to come when `Serve` waits, none left when it
  has returned; with a queue in memory nobody leaves before the queue was shut down.
  `UnsentOnlyAfterShutdown` is a consequence.
- `PumpImplementsPumpContract`: a message is busy with a worker or while it is sent,
  parked in a batch. That `Serve` returns only when nobody is busy is `Counting`
  at zero (`WaitOverReturns`).

### `ServerProofs`

- `Phases` says which state of main goes with which state of the HTTP server and of
  `shuttingDown`, `Custody` where the message of a request may be: once accepted, settled or
  in the queue, with a worker or in a batch of its service, and before that nowhere. Without them a queue
  could be shut down under a handler as far as `NoPushIntoClosedQueue` knows, and an
  accepted message be nowhere when `CleanExit` looks for it.
- `Handout` is the feedback store in memory: it holds the newest reports in order, the
  others have been handed out, each once.
- `NoFailureAfterInterruptHolds` is about steps: a listener that was told to close never
  makes main exit with a failure. It needs `Phases`: by then the flag is set.
- `ServerImplementsPumpContract` is a refinement for each service. A step of the server,
  of a handler or of another service is a stutter for it (`OtherServicesApart`).

### `RedisFeedbackProofs`

- `Shape`: the list has the newest entries, none missing between them. `Ahead`: nobody has
  collected, or holds and will not remove, what is to stay in the list. Both give
  `OlderPopsFirst`.
- `RepeatsBounded` and `LossBounded` are about what was decided earlier: an entry is repeated
  when its second reader answers, lost when a list is trimmed, but the cause was somebody else's
  removal or push before that. The invariant counts from then on (`RepeatsCharged`,
  `LossCharged`). What is counted are sets of pairs of an entry and a collector: who holds an
  entry that is no longer in the list (`Held`), who is about to remove one he has not read
  (`Doomed`). A sum over collectors would need induction; cardinalities of finite sets do
  not.

### `DeliveryProofs`

- Of each message the invariant keeps an `Account`. `Doubt`: one that may have been taken
  and is to be pushed again was pushed in doubt, by an adapter that tries again in
  doubt. `Reason`: one that is gone and was not taken has a reason. And it was reported
  once at most, and then settled.
- `Batching` says which messages a batch has, so that its fate can be theirs.
- What the six adapters do is in lemmas about their operators (`WhatServicesReply`,
  `WhatAdaptersMakeOfReplies`, `WhatAdaptersGiveUp`, `WhatSquashingLoses`): the only place
  where they are told apart.

### Only model-checked

The liveness properties, since TLAPS cannot reason from fairness here: `ShutdownReleasesAll`,
`EveryMessageTaken` (of both queues), `SquashedIsSent`, `AcceptedIsSettled`,
`PlainShutdownCompletes`, `CancelEndsConsumer`, `ShutdownEnds`, `SettledInTheEnd`. The runs
that fail are counterexamples, and need no proof. That a bound is exact (RateMax + 2, or
one repeat for each removal) is not proved either: it shows in TLC's
counterexamples to a smaller one. No module has RECURSIVE operators.

## 6. Not modelled

- The counter of errors: the adapters differ in which failures they count at all (FCM none,
  Telegram, webhooks and Web Push only those with an answer), and nothing says what they should do.
- Text: JSON, MIME parts and headers, how the texts of a Telegram batch are joined.
  The SMTP dialogue is one reply.
- Credentials, TLS, flags, Redis URLs and pool settings, logging, `/health`, the serving
  of `/metrics`. They keep no state that the rest depends on.
- Retries inside client libraries: of Redis', which can duplicate an LPUSH, and of
  Firebase's, which sends a push again after an error of the connection or a 503 before
  the adapter hears of it.
- The end of the process as such, for the queue in memory: what it holds is gone (main.go
  says so). The order of messages: one pushed directly can overtake one in a batch, and
  nothing promises otherwise. The growth of the squasher's map of keys.
- A Redis store under `Server`: the server's part in `Pop` is in `RedisFeedback`.

## 7. Plan

Every component is modelled, with the exceptions of section 6, and every safety property,
action property and refinement of a passing run is proved. What is left:

1. The contract as a whole: that `Server`, with what `PumpProofs` proves of a pump, needs
   no other premise about it than that it returns; so far the two theorems about
   `PumpContract` stand beside each other.
2. Consequences that no run checks by itself, such as `NothingTakenAfterShutdown` for the
   pump, or that no message is settled before it was accepted.
3. Facts about sequences and finite sets that several proofs need in similar form
   (`ElementsOf`, `Count...`), in one place.
