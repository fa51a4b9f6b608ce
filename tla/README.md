# A TLA+ model of the order execution engine

The program under `src/` accepts orders over HTTP, stores each as a row of a
PostgreSQL table, executes it through a BullMQ queue and a worker on a (mock)
DEX, and streams the progress to WebSocket clients through Redis pub/sub. Any
number of identical server processes run side by side: each serves HTTP,
streams to its own clients and works on the shared queue. This directory models
the parts that keep state, checks them with TLC and proves their safety properties
with TLAPS.

## The system

| Component | Code (below `src/src`) | State | Operations |
|---|---|---|---|
| HTTP submission | `routes/order.routes.ts`, `middleware/validation.middleware.ts`, `controllers/order.controller.ts` | the progress of a request | validate, insert the row, enqueue, announce `pending`, reply |
| Queue | `services/queue.service.ts`, BullMQ | the jobs with their attempts, stalls and locks | add, take, complete, fail and delay, promote, redeliver a stalled job, remove settled jobs, count |
| Worker | `workers/order.worker.ts` | the runs of `processOrder`, one per slot | mark pending, dispatch, call back, record, throw |
| Executors | `executors/*.ts` | how far a run has got | validate, quote, build, submit, swap, confirm or fail |
| DEX router | `services/dex-router.service.ts` | the trades | quotes, best quote, swap |
| Order table | `prisma/schema.prisma` | `status`, `txHash`, `attempts`, `error` | insert, update |
| WebSocket service | `services/websocket.service.ts`, `config/redis.config.ts` | the map of sockets, the set of subscriptions | register, unregister, forward, publish, close all |
| Process | `index.ts`, `config/redis.config.ts`, `railway.json` | running or shutting down | start, graceful shutdown, crash and restart |
| Glue | `app.ts`, `config/env.config.ts`, `utils/*.ts` | none | configuration, logging, formatting |

Interactions. A request calls the database, the queue and the pub client, in
this order, each awaited. The queue calls `processOrder` in a free slot of some
server; `processOrder` calls the executor, which calls back with each status;
the callback publishes on the channel of the order and, for `confirmed` and
`failed`, updates the row. Every server's sub client receives the messages of
the channels it is subscribed to and forwards them to the socket in its map.

What is hard about it, and what makes each component correct:

* *Submission* is a sequence of three external effects without a transaction.
  An accepted order must be in the queue, and a queued one in the database; an
  error reply can be wrong.
* *Worker and queue* run concurrently with each other and with the request. A
  run may be redelivered after a crash or a lost lock, while it still goes on.
  Failures of the database and of publishing are swallowed so that they cause no
  second trade. The queue's verdict, the row and the stream must agree with the
  trades; every queued order must be settled; its result must be recorded.
* *DEX router*: two quotes with random variances, of which the better one after fees
  is taken; the price the client gets must honour its quotes and its slippage.
* *Statistics*: five counts taken one after the other, while jobs move between the
  lists and the queue removes old ones.
* *Process*: two handlers listen to the same signal. One closes the Redis clients
  at once, the other closes one part after the other and waits for work that needs
  those clients. A server must stop when told to, cut no trade off, and leave its
  orders to the others.
* *WebSocket service*: three asynchronous sources (sockets, Redis replies, Redis
  messages) change a map and a set that are tested before and changed after the
  answers arrive. The set must converge to what Redis has, the map must not leak
  sockets, and a connected client must be served, in order and without gaps.

`PROJECT.json` lists each hazard at its line with the properties that cover it.

## Modules

| Module | Models |
|---|---|
| `EngineState` | constants, assumptions, variables and type invariant of the engine; the outcomes of a publication and of a row update |
| `OrderController` | `createOrder` and the reply, one action per await |
| `OrderQueue` | BullMQ as the code configures it; a process that dies and restarts |
| `OrderWorker` | `processOrder`, its status callback, the factory and `MarketOrderExecutor.execute`, one action per await |
| `OrderEngine` | composes the three: `Init`, `Next`, fairness and the properties |
| `OrderContract` | the abstract specification: accept, trade, settle, give a delivery up |
| `OrderRefinement` | the refinement mapping from the engine to the contract |
| `WebSocketService` | one server's service, its sub client's connection and the sockets |
| `StatusStream` | the engine and the WebSocket service, composed by the channel of an order |
| `GracefulShutdown` | the engine on servers that start, are told to stop, and stop |
| `QueueStats` | the engine and a request for the queue's statistics |
| `DexRouter` | quotes, the best quote, the swap and the attempts, with prices |
| `OrderEngineInvariant`, `WebSocketServiceInvariant`, `StatusStreamInvariant` | the inductive invariants of the engine, of the service and of the two together |
| `OrderEngineProofs`, `OrderRefinementProofs`, `GracefulShutdownProofs`, `DexRouterProofs`, `QueueStatsProofs`, `WebSocketServiceProofs`, `StatusStreamProofs` | the theorems |
| `SequenceLemmas` | what appending, taking the head and concatenating do to the elements of a sequence; induction over sets of naturals |
| `MC...` | small instances for TLC |

### The engine

`kind`, `request`, `row`, `job`, `removed`, `run`, `lastEvent` and `trades` (see
`EngineState`) are the client's wish, the stack of `createOrder`, the row, the
BullMQ job, the jobs BullMQ has removed, the stacks of `processOrder` per slot, the last message on the
order's channel and the swaps the DEX made. JavaScript runs from one `await` to
the next without interruption, so a step of the model is that stretch of code
together with the effect of the call it awaits. A step that can reject has a
disjunct for it, guarded by the kind of fault being in `Faults`:

* `createOrder`: `Submit`, `CreateRow`, `AddOrder`, `CountQueue`,
  `AnnouncePending`. A call that rejects may have had its effect (the answer was
  lost), and the reply is then 400.
* `processOrder` and `execute`: `MarkPending` (with the dispatch on the order
  type and the validation, which follow without an await), `ReportRouting`,
  `GetBestQuote`, `ReportRouted`, `ReportBuilding`, `ReportSubmitted`,
  `ExecuteSwap`, `ReportConfirmed`, `RecordConfirmed`; on a failure
  `ReportFailed` and `RecordFailed` (the executor's catch), and on the last attempt
  `ReportExhausted` and `RecordExhausted` (the worker's catch).
* BullMQ: `TakeJob`, `CompleteJob`, `FailJob`, `PromoteDelayed`, `LoseLock`,
  `MoveStalledJob`, `Restart`. A stall does not count as an attempt, and
  `maxStalledCount` has its default, 1. A worker that finds its lock gone does
  not move the job: BullMQ refuses. A step that settles a job also removes older
  ones that were settled alike (`Trim`), as `removeOnComplete` and `removeOnFail`
  say: those beyond the `KeepCompleted` completed ones, and those that are too
  old. Ages are not modelled, so any of them may go. `job` keeps the state in which
  a removed job was settled, for the properties; the program cannot see it any
  more (`Listed`).

A transaction hash is identified by the run that made it, that is by the stalled
counter and the attempt number with which the run began; `RunsBelongToDeliveries`
and `OneRunPerDelivery` prove that this identifies the run. `selectedDex`,
`executedPrice` and `txHash` are written together and are one column of the
model. Orders are in one of four kinds: a valid market order, one with
`tokenIn = tokenOut` (accepted by the schema, refused by `validate`), one of a
type without an executor (accepted by the schema, refused by the factory) and a
malformed one. `validate` refuses nothing else that the schema accepts. The mock
DEX never refuses; the `dex` fault is what the executor's catch is written for,
and what a real DEX would do.

### The WebSocket service

`connections` and `subscriptions` are the fields of the class. `commands` and
`replies` are the two directions of the sub client's connection; replies and
messages share one of them, as in Redis. A socket goes through `closing` or `errored`
(its `close` event is still to come) to `closed`. `subscribed` is Redis's view. The
callback of `subscribe` changes the set when the *reply* is handled, which is
where the hazards are. An outage loses what is on its way; ioredis then
subscribes again to the channels it knows and sends unanswered commands again
(`resent`), unless they have already been rejected because reconnecting took more
than the default 20 tries (`rejected`). `received` records what a socket was sent.

### The contract

`OrderContract` says what the engine promises of an order and forgets requests,
rows, runs, locks, attempts and servers: an order that got in is `open` until its
current delivery is settled, `completed` if that delivery traded and `failed` if
it did not; a delivery can be given up, at most `MaxStalledCount` times before the
order is lost with it; each delivery trades at most once, even one that was given
up. `OrderRefinement` reads `outcome` and `delivery` from the BullMQ job (its state
and its stalled counter), and `trades` is the same in both. `AddOrder`,
`ExecuteSwap`, `CompleteJob`, the last `FailJob` and `MoveStalledJob` are its steps;
the engine's other actions are invisible to it.

### The stream

`StatusStream` takes the engine and an instance of `WebSocketService` and lets a
publication of the engine be the `PublishStatusUpdate` of the service, which puts
the message on its way to the server's sub client; `history` remembers which
status each number was. A client connects only once it has the 201 reply, because
the id of the order is in it. This is why no client ever sees `pending`: it is
published before the reply is sent. It is also why the race between the request
and the worker (`routing` may be published before `pending`) never shows. The
stream is that of a server that stays up, on a connection that is not interrupted,
and every publication has its effect (`StreamAssumption`, which also has what the
service assumes of its constants); the rest is the subject of `WebSocketService`.

### The shutdown

`GracefulShutdown` gives every server a state: whether `start()` is through,
whether its Redis clients are open, and what `shutdown` of `index.ts` waits for.
`FirstSignal` is the effect of both handlers: `disconnectRedis` of
`redis.config.ts` closes the clients, and `shutdown` begins, if `start()` got as far
as installing it. `CloseWorker`, `CloseQueue`, `CloseApp` and `DisconnectRedis` are
its awaits, each with the condition it waits for. From the moment the clients are
closed the server's calls of the queue and its publications are rejected
(`RequestStep`, `RunStep`: the engine's actions, restricted to these outcomes),
jobs are not taken, locks expire, and a run that ended cannot move its job
(`AbandonJob`). The database is open to the end, so that a run in progress still
trades and records its trade.

Three things follow from the code and are worth knowing. `disconnectRedis` at the
end of `shutdown` always rejects, since `quit` on a closed client rejects: a
shutdown ends with exit code 1, never 0, and the database is not disconnected. A
second signal calls `disconnectRedis` again, nobody handles the rejection, and the
process ends at once. A signal during `start()` closes the clients and stops
nothing: the process goes on without Redis, refuses every order, and waits for
another signal.

### The router

`DexRouter` follows the attempts at one order. Quotes are exact integers: per mille
for variances and fees, 1/2000 for the slippage draw, which the code takes from
`[-slippage/2, slippage/2)`. The code's floating-point products differ from these
in the last digits only; a tie decided the other way for that reason changes the
DEX, but not the price by more. The mock refuses no quote and no swap:
as in the engine, refusals are what the executor's catch is written for, and what a
real DEX would do. The comment at `dex-router.service.ts:164` (and `src/README.md:415`)
speaks of ±0.5 %, which is the default slippage halved; the code draws from half of
whatever the client accepted.

### The statistics

`getQueueStats` issues its five calls without awaiting one before the next, and
Redis answers them in order, between other servers' commands. `QueueStats` counts
one list per step while the engine goes on, and remembers the lists in which each
job was counted, the state it had when the request came, and whether it has gone back
to waiting since. While the lists are counted a job can move behind the count's back,
and a settled one can be removed to make room for the next.

## Runs

| Run | Instance | Shows |
|---|---|---|
| `engine_faults` | 1 order, 2 servers with one slot, 3 attempts, all faults; about 1.0 million states | the invariant, the safety properties and the refinement |
| `engine_fair` | 2 orders, 1 slot, 2 attempts, refusals and lost locks; fairness; about 274 thousand states | `FinishedRowIsTruthful`, `AcceptedSettles`, `ResultIsRecorded` |
| `ws_service` | 2 orders, 2 sockets, 3 updates, one outage; about 1.3 million states | the service's properties |
| `status_stream` | 1 order, 1 server, 2 attempts, 1 socket, refusals and lost locks; fairness; about 708 thousand states | `LifecycleIsSeenInOrder`, `OutcomeIsSeen` |
| `shutdown` | 1 order, 2 servers, 1 attempt, 2 signals; fairness; about 371 thousand states | the shutdown's properties |
| `dex_router` | 2 attempts, three variances per DEX, three slippages; about 40 thousand states | the router's properties |
| `queue_stats` | 2 orders, 1 server with one slot, 2 attempts, one completed job kept, no faults; about 3.4 million states | the statistics' properties |

Engine properties:

* `TradesOncePerDelivery`: at most one trade per delivery of the job. It fails
  as soon as a swallowed failure after the swap is thrown instead.
* `TradesAreBounded`: hence at most `MaxStalledCount + 1` trades of an order.
* `ImplementsContract`: the engine implements `OrderContract`.
* `VerdictIsTruthful`: a completed job traded in its current delivery; a waiting,
  delayed or failed one did not.
* `ClaimsAreReal`: a confirmation on the stream or in the row, and a hash in the
  row, are those of a trade.
* `AcceptedIsDurable`: 201 means queued, and queued means stored.
* `ConfirmedUntilStalled`: only a redelivery takes a confirmation back.
* `FinishedRowIsTruthful`: unless the database refuses updates, the row of a
  finished order that never stalled tells which attempt ended it, and an error
  left over by an earlier attempt can be told from its outcome.
* `AcceptedSettles`, `ResultIsRecorded`: every queued order is settled, and its
  row gets a final status for good unless it stalls.

Service properties: `SubscriptionsMirrorRedis` (once nothing is on its way),
`MapHoldsLiveSockets`, `UpdatesInOrder`, `SoleConnectionIsServed` and
`SoleConnectionMissesNothing`. The last two speak of the client the service is
written for, the only one an order ever has; the findings show what happens to
the others.

Stream properties, both of that client and of a job that does not stall:

* `LifecycleIsSeenInOrder`: what it sees is a path through the life cycle. No
  status is left out, an attempt starts again only after a failure, and nothing
  comes after `confirmed`.
* `OutcomeIsSeen`: if it is subscribed before a run begins that settles its order,
  its last update is the queue's verdict.

Shutdown properties:

* `ShutdownCutsNoTradeOff`: a run that has traded is not cut off before it has
  recorded the trade, except by a second signal or a start that fails.
* `SignalStopsServer`: a serving server that was told to stop does, unless BullMQ
  never gives up moving the job of a run that ended.
* `AcceptedSettlesElsewhere`: every accepted order is settled, by whichever server
  has its clients, unless in the end none has.

Router properties: `SwapHonoursEveryQuote` (the executed price is worse than no
quote of its attempt by more than half of the slippage) and `PriceIsBounded` (it
keeps to bounds the client can compute; the lower one is Raydium's, the better of
the two floors).

Statistics properties: `MissedIfReturnedOrRemoved` (the order of the five calls follows
a job through the lists, so a job that was there when the request came is missing from
the total only if it went back to waiting, or was removed because another job was
settled like it since the request) and `NoContradictoryCounts` (a job counted twice was
on its way; it is never counted as completed and failed, and one that was settled when
the request came is counted at most once).

### What the repository says and the code does not do

Five runs check one such claim each and end in a counterexample (`findings` in
`PROJECT.json` quote the claims):

* `error_reply`: 400 for an order that is queued and will be executed.
* `final_result`: a job that stalls twice fails, and its row stays `pending`.
* `ws_reconnect`: the late `close` of the former socket removes the new one.
* `ws_leak`: leaving before the subscription is confirmed leaks it. The `close` event is
  handled before the reply, so it finds nothing to unsubscribe from; when both have
  been handled, nothing is left that would.
* `shutdown_jobs`: a closed worker's job stays active and locked, because the Redis
  clients were closed before the worker; it stalls and is traded again.

Four smaller disagreements are visible in the models and have no run of their own:

* `routing` may be published before `pending` (`order.controller.ts:73-76`;
  `src/README.md:327` lists `pending` first).
* Every failed attempt marks the row as failed and publishes `failed`, not the last
  one only (`order.worker.ts:74`; the comment at line 116, `src/GET_STARTED.md:137`).
* A redelivery after a crash writes `pending` over `confirmed` (`order.worker.ts:64`)
  until it confirms again; `ConfirmedUntilStalled` says that nothing else does.
* Updates published while a client is away reach nobody
  (`websocket.service.ts:127`; `src/README.md:445` promises delivery).

### Bounds, and why they are enough

*Orders.* Orders share nothing but slots, so one order with two servers shows every
interleaving of one order's request, runs and redeliveries, and `engine_fair` has two
orders compete for a slot, which retries and runs without a lock occupy. *Servers.*
Two where runs overlap: a run that lost its lock, and the redelivered one; a third run
would need another stall, after which the job fails. In `shutdown`, one that is told
to stop and one that takes over. *Attempts.* 3 in `engine_faults`, as configured; 2,
the least with a first, a last and a retried attempt, elsewhere; 1 in `shutdown`,
where a run that fails differs from one that stalls only in its verdict. *Stalls.*
`MaxStalledCount` is 1, the default; 0 in `engine_fair` and `status_stream`, whose
properties are about jobs that do not stall. *Signals.* Two: a second one for the same
server, or one for each. *Sockets.* Two in `ws_service`: one that is replaced and one
that replaces it, or two that watch different orders; the theorems hold for any number.
One in `status_stream`. *Updates.* Three in `ws_service`, of all orders together
(`PublishedUpdates`): a gap, a repetition and an inversion need no more; in `status_stream` the bound is beyond what the engine
publishes. *Outages.* One. *Settled
jobs.* `KeepCompleted` is 1, the least the code could ask for (it asks for 1000): with
two orders in `queue_stats` the second to be completed removes the first. That run has
no stalls; its jobs go back to waiting by the end of a back-off, and the theorem covers
stalls too. *Prices.* The extremes of both variances, and 998 against
997, which makes the two effective prices equal.

`CHECK_DEADLOCK` is on except in the shutdown runs: `AtRest`, `Idle`,
`StreamAtRest` and `Done` name the states in which nothing needs to happen. In
`shutdown` all servers may have been told to stop while starting, or wait for a
run that cannot end, and then the system really stops. Symmetry is used only
where no liveness is checked; what the code does in the order of its map or set
(`CloseAll`, `DropConnection`) happens in any order, so that the sets are symmetric.

### Fairness

`Fairness` in `OrderEngine` is weak and covers what the Node.js event loop and
BullMQ do by themselves: a request or run whose awaited call has an outcome goes
on, a job waiting while a slot is free is taken, a delay ends, and the stalled
check finds a job without a lock. Clients, faults, crashes and lost locks have no
fairness: they may happen, and need not. A crashed process is assumed to be
restarted (`railway.json`, and each server of a scaled deployment).

`StreamFairness` adds the connection to Redis and the handlers of its replies and of
closing sockets, which the event loop runs; clients need not connect.
`ShutdownFairness` adds that a process gets on with its start and with its shutdown,
and that a lock that nobody renews expires. Two things have no fairness: signals, and
`AbandonJob`, since BullMQ may try for ever to move a job without a client; the
properties of the shutdown name that case. The properties of `ws_service`,
`dex_router` and `queue_stats` are safety properties and need no fairness.

## Proofs

`OrderEngineProofs` proves, for all orders, servers, concurrencies, attempt
limits, stall limits and sets of faults, assuming only `EngineAssumption` (the
limits and `KeepCompleted` are natural numbers of the right sign, `None` is not one of the values it
stands beside): `IInv`, `TypeOK`, `TradesOncePerDelivery`, `VerdictIsTruthful`,
`ClaimsAreReal`, `AcceptedIsDurable`, `ConfirmedUntilStalled` and
`FinishedRowIsTruthful`.

None of them is inductive. Call the part of a job's life between two stalls a
*delivery*, numbered by the stalled counter. The argument, in the order of the
conjuncts of `IInv`:

1. A run belongs to the delivery in which it began. If that is the current one,
   the job is active and counts the run's attempt (`RunsBelongToDeliveries`); no
   two runs belong to one delivery (`OneRunPerDelivery`); a lock is held by the
   run of the current delivery (`LocksAreHeld`). Hence a run left over from an
   earlier delivery cannot move the job.
2. How far a run has got tells whether its delivery has traded
   (`RunsKnowTheirTrade`), and a trade of the current delivery means that the
   job is active or completed (`TradesBelongToDeliveries`,
   `CompletedHasTraded`). A retry within a delivery starts only after a run that
   threw, which has not traded; a new delivery has traded nothing. So there is one
   trade per delivery and the verdict is truthful.
3. `JobsHaveAttemptsLeft` bounds the counters, for `TypeOK`.
4. The progress of a request tells what it has stored (`RequestsStoreInOrder`),
   for `AcceptedIsDurable`.
5. While the job has not stalled, only the run that confirmed the row can be
   there, and all it has left to do is return (`ConfirmedHasReturned`), for
   `ConfirmedUntilStalled`.

The parts are proved in this order, one lemma per group of actions; frame lemmas
take care of the actions that leave a part's variables alone.

`FinishedRowIsTruthful` needs more (`RowInv`, in the same module), and holds while the
database takes the updates. The error in a row is at most as old as the last attempt that
ended: none of an attempt still to come (`RowsLagBehind`). How far a run has got says what
it has recorded (`RunsKnowTheirRow`): an error of its own attempt only once it is about to
throw, the confirmation when it returns, and the failure of the order before its last
attempt throws. The run that ends the job is the one of the current delivery, so the row it
leaves is the one that tells.

`OrderRefinementProofs` proves from `IInv` that the engine implements the contract,
`Spec => ImplementsContract`, and that trades are bounded. Each action is either
invisible (it changes neither `trades` nor what the contract reads from the job) or a
step of the contract. The invariant is needed where the contract has a guard the code
does not check: `Trade` requires that the delivery has not traded
(`RunsKnowTheirTrade`) and that it is open if it is the current one
(`RunsBelongToDeliveries`); `Settle` requires the verdict to be true, which holds
because the lock's holder is the run of the current delivery (`LocksAreHeld`) and its
step tells whether it traded. `TradesAreBounded` follows since the stalled counter maps
an order's trades one to one into `0..MaxStalledCount`.

`GracefulShutdownProofs` proves `ServerTypeOK`, `AcceptedIsDurable` and
`ShutdownCutsNoTradeOff` of servers that are told to stop, from the assumptions of
`GracefulShutdown` about its constants. `IInv` is of no use there: `AbandonJob` leaves
a job active and locked by a slot that has no run, which no step of `OrderEngine`
does, so `LocksAreHeld` fails. The invariant `GInv` keeps what survives, the types, the
counters of the jobs and `StorageInv`, and adds `ServersStopInOrder`: a server that is
shutting down has no clients, hence takes no job, and once `worker.close` is through it
has no run. So the exit at the end of a shutdown has no run to cut off. The lemmas on
types and storage are those of `OrderEngineProofs`.

`DexRouterProofs` proves the router's three invariants for every base price, every
set of variances within `DEX_CONFIG`, every set of slippages the schema accepts and
every number of attempts, assuming only `RouterAssumption`. The inductive invariant
`RInv` adds that a quote is there once its call was answered and keeps to its DEX's
bounds, that nothing was asked for in later attempts, that the routed DEX has the
best quote, and that the executed price is near it; the arithmetic is two lemmas on
products.

`QueueStatsProofs` proves the statistics' three invariants, for every engine and every
`KeepCompleted`. `IInv` carries over, since the request changes nothing of the engine, and
tells which moves between the lists a job can make (`Moves`) and that a job is removed only
when another one is settled like it (`JobRemovals`). `AheadOfCount`: a job that was there
when the request came, has not gone back to waiting and was not counted yet is in a list
still to be counted, since every other move leads to a list that is counted later; or it
was removed, and then the job that made the queue do so was still active in that step,
hence was not settled when the request came. `CountsAreFinal` is needed for the latter: a
settled job stays what it is, and the delayed jobs are counted last. `RemovedAreSettled`:
only settled jobs are removed.

`WebSocketServiceProofs` proves `TypeOK`, `SubscriptionsMirrorRedis`,
`MapHoldsLiveSockets`, `UpdatesInOrder`, `SoleConnectionIsServed` and
`SoleConnectionMissesNothing` for any orders, sockets, bound on the updates and outcome
of the outage, assuming `ServiceAssumption`. Apart from the types they are not inductive;
`ServiceInv` has what they need:

1. `SubscriptionInv`: the last reply about a channel that is on its way tells what
   Redis has. With none on its way, the set agrees with Redis, or the service is about
   to subscribe again after the outage, before it can unsubscribe. This is where the
   order of commands and replies is used: what is handled last was executed last.
2. `DeliveryInv`: a socket knows its order once it is connected; the messages of a
   channel are on their way in the order of their numbers, behind what a socket of the
   channel already got.
3. `SoleInv`: nothing was ever said about the channel of an order that no client
   watched, so for the only client of an order there is no UNSUBSCRIBE on its way that
   could undo its SUBSCRIBE, and before Redis has its subscription it gets nothing.
   From its first update on, there is no gap between what it got, what is on its way and
   what was published.

The lemmas are one per action and part. What the model computes with a recursive
function (`Unanswered`, the commands sent again after an outage) is proved by induction
over the set of the lengths for which it holds (`Induct` in `SequenceLemmas`): the
library's induction theorem takes an operator, which the provers cannot instantiate.

`StatusStreamProofs` first proves that the composition is one (`StreamComposes`,
`StreamSpec => Spec /\ WS!Spec`): each step of the stream is a step of the engine or leaves
it alone, and a step of the service or leaves it alone. So `IInv` and `ServiceInv` hold of
it. On top of them, for any orders, clients, servers, slots and attempts:

1. `HistoryIsComplete`: update `n` of an order is entry `n` of its history, and the last
   entry is `lastEvent`.
2. `PendingIsAnnouncedOnce`: the history has one `pending` if the request was answered
   with 201, and none before.
3. `RunsSayWhatTheyDo`, `WaitingHasFailed`: while the job has not stalled, how far its run
   has got tells what was said last, apart from the announcement; a job that waits for
   another attempt was last said to have failed. `OneRunPerDelivery` is needed here: no
   other run says anything in between.
4. `HistoryFollowsLifecycle`: so every report follows the one before it in the life cycle,
   unless the announcement comes in between.
5. `WatchedIsAccepted`, `PendingIsPast`: clients watch orders whose request was answered;
   Redis sends a message only if a client subscribed; hence whatever reaches a client was
   published after the announcement.

`LifecycleIsSeen` (`LifecycleIsSeenInOrder`) puts them together. By `UpdatesInOrder`,
`SoleMissesNothing` and `ReceivedIsOlder`, two updates that the only client of an order gets
one after the other are neighbours in the history; by 5 and 2 neither is the announcement;
by 4 the second follows the first.

Only model-checked: the five liveness properties, `AcceptedSettles`, `ResultIsRecorded`,
`OutcomeIsSeen`, `SignalStopsServer` and `AcceptedSettlesElsewhere`, which are
out of TLAPS' reach: its provers do not treat ENABLED, of which fairness is made. Every invariant and every
action property of the runs, and the refinement, is proved.

## Not modelled, and what is left

Left for proofs: that the trades stay one per delivery, and the verdicts true, when
servers are told to stop (`GracefulShutdownProofs` has types, storage and the shutdown's
own property); what the five findings would need to hold, stated as the condition under
which they do (a reconnection after the former socket's close, a server without signals).

Left out for good: the health check and the error formatting of `app.ts`, logging
and formatting, environment parsing: they keep no state; delays, which no property
depends on; the rate limiter, which only delays waiting jobs; the ages of settled jobs (any
of them may be too old); the scripts and tests, which are clients, and do nothing the
models' clients may not do.
