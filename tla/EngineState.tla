----------------------------- MODULE EngineState -----------------------------
(***************************************************************************)
(* The state shared by the parts of the order execution engine: the HTTP   *)
(* requests in progress, the Postgres row and the BullMQ job of every      *)
(* order, the status last published on its Redis channel, what each worker *)
(* slot is doing, and the trades the DEX has executed.                     *)
(*                                                                         *)
(* Every step of the model is what the program does between two awaits     *)
(* plus the effect, on Postgres or Redis, of the call it awaits.           *)
(***************************************************************************)
EXTENDS Integers

CONSTANTS
  Orders,          (* the orders clients may submit                          *)
  Servers,         (* the server processes; each serves HTTP and runs jobs   *)
  Concurrency,     (* QUEUE_CONCURRENCY: jobs one server runs at a time      *)
  MaxAttempts,     (* QUEUE_CONFIG.MAX_ATTEMPTS                              *)
  MaxStalledCount, (* BullMQ's maxStalledCount, left at its default by src/  *)
  KeepCompleted,   (* removeOnComplete.count: completed jobs the queue keeps *)
  Faults,          (* the kinds of fault that may happen                     *)
  None             (* no value                                               *)

(* What can go wrong outside the program's own logic:                        *)
(*   "db"       a Prisma call rejects                                        *)
(*   "publish"  publishing on the Redis pub client rejects                   *)
(*   "queue"    a call of the BullMQ queue rejects                           *)
(*   "dex"      the DEX refuses a quote or a swap (the shipped mock never    *)
(*              does; the executor's catch and the unit tests provide for it)*)
(*   "restart"  a server process dies and is started again                   *)
(*   "lock"     a live worker fails to renew the lock of a job it runs       *)
FaultKinds == {"db", "publish", "queue", "dex", "restart", "lock"}

(* A worker slot is one of the Concurrency jobs a server runs at a time.     *)
Slots == Servers \X (1..Concurrency)

Host(s) == s[1]

(* ORDER_STATUS. *)
Statuses == {"pending", "routing", "building", "submitted", "confirmed", "failed"}

(* The statuses that reach the database: the worker writes only these.       *)
RowStatuses == {"pending", "confirmed", "failed"}

(* What the engine distinguishes in the body of a request:                   *)
(*   "market"       a valid market order                                     *)
(*   "sameToken"    tokenIn = tokenOut: the schema accepts it, the market    *)
(*                  executor refuses it                                      *)
(*   "unsupported"  a limit or sniper order: the schema accepts it, the      *)
(*                  executor factory refuses it                              *)
(*   "malformed"    refused by the schema                                    *)
OrderKinds == {"market", "sameToken", "unsupported", "malformed"}

(* The progress of createOrder and of its HTTP reply. *)
RequestSteps ==
  {"none", "creating", "enqueueing", "counting", "announcing",
   "r201", "r400", "lost"}

(* The steps of processOrder and of MarketOrderExecutor.execute, one for     *)
(* each awaited call.                                                        *)
BeforeTrade ==
  {"starting", "routing", "quoting", "routed", "building", "submitting",
   "swapping", "failing", "recording", "exhausted", "burying", "throwing"}

AfterTrade == {"confirming", "persisting", "returning"}

JobStates == {"none", "waiting", "active", "delayed", "completed", "failed"}

Finished == {"completed", "failed"}

Attempts == 1..MaxAttempts

StalledCounts == 0..(MaxStalledCount + 1)

(* A run is one execution of processOrder. It is identified by the stalled   *)
(* counter and the attempt number of the job when the run began; the hash of *)
(* the transaction it may execute is fresh, so the run identifies that too.  *)
TradeIds == [stalled : StalledCounts, attempt : Attempts]

Runs ==
  [order : Orders, stalled : StalledCounts, attempt : Attempts,
   step : BeforeTrade \cup AfterTrade]

Requests == [step : RequestSteps, server : Servers \cup {None}]

Jobs ==
  [state : JobStates, attemptsMade : 0..MaxAttempts, stalled : StalledCounts,
   lock : Slots \cup {None}]

Rows ==
  [status : RowStatuses, tx : TradeIds \cup {None},
   attempts : 0..MaxAttempts, error : 0..MaxAttempts]

ASSUME EngineAssumption ==
  /\ Concurrency \in Nat \ {0}
  /\ MaxAttempts \in Nat \ {0}
  /\ MaxStalledCount \in Nat
  /\ KeepCompleted \in Nat \ {0}
  /\ Faults \subseteq FaultKinds
  /\ None \notin Slots \cup Servers
  /\ None \notin Runs
  /\ None \notin Rows
  /\ None \notin TradeIds
  /\ None \notin Statuses
  /\ None \notin OrderKinds

VARIABLES
  kind,       (* kind[o]: what the client asked for, None before it did      *)
  request,    (* request[o]: the step of createOrder and the server it is on *)
  row,        (* row[o]: the row of the orders table, None if there is none  *)
  job,        (* job[o]: the BullMQ job, as it was settled once it is        *)
  removed,    (* the settled jobs that BullMQ has removed since              *)
  run,        (* run[s]: the run in slot s, None if the slot is free         *)
  lastEvent,  (* lastEvent[o]: the status last published on its channel      *)
  trades      (* trades[o]: the swaps the DEX executed for the order         *)

vars == <<kind, request, row, job, run, lastEvent, trades, removed>>

(* One type invariant for the whole engine. *)
TypeOK ==
  /\ kind \in [Orders -> OrderKinds \cup {None}]
  /\ request \in [Orders -> Requests]
  /\ row \in [Orders -> Rows \cup {None}]
  /\ job \in [Orders -> Jobs]
  /\ removed \subseteq Orders
  /\ run \in [Slots -> Runs \cup {None}]
  /\ lastEvent \in [Orders -> Statuses \cup {None}]
  /\ trades \in [Orders -> SUBSET TradeIds]

-----------------------------------------------------------------------------
(* The outcomes of publishStatusUpdate: the status becomes the last one on   *)
(* the order's channel, or, when the pub client gives up, it does not.       *)
PublishOutcomes(o, status) ==
  {status} \cup (IF "publish" \in Faults THEN {lastEvent[o]} ELSE {})

(* An awaited publication whose failure is swallowed.                        *)
EmitStatusUpdate(o, status) ==
  \E e \in PublishOutcomes(o, status) : lastEvent' = [lastEvent EXCEPT ![o] = e]

(* updateOrderInDB: the row becomes r, unless there is no row or the update  *)
(* rejects; either way the caller goes on.                                   *)
UpdateOrderInDB(o, r) ==
  \/ /\ row[o] # None
     /\ row' = [row EXCEPT ![o] = r]
  \/ /\ row[o] = None \/ "db" \in Faults
     /\ UNCHANGED row
=============================================================================
