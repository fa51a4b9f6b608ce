--------------------------- MODULE OrderController ---------------------------
(***************************************************************************)
(* POST /api/orders/execute: OrderController.createOrder, the addOrder of  *)
(* QueueService it calls, and the reply of the route.                      *)
(***************************************************************************)
EXTENDS EngineState

(* createOrderSchema accepts the body. *)
SchemaAccepts(k) == k # "malformed"

NewRow == [status |-> "pending", tx |-> None, attempts |-> 0, error |-> 0]

Reply(o, code) ==
  request' = [request EXCEPT ![o] = [step |-> code, server |-> None]]

Proceed(o, step) == request' = [request EXCEPT ![o].step = step]

(* A client posts an order and some server validates it.                     *)
Submit(o, k, srv) ==
  /\ request[o].step = "none"
  /\ kind' = [kind EXCEPT ![o] = k]
  /\ IF SchemaAccepts(k)
       THEN request' = [request EXCEPT ![o] = [step |-> "creating", server |-> srv]]
       ELSE Reply(o, "r400")
  /\ UNCHANGED <<row, job, run, lastEvent, trades, removed>>

(* Mutant of CreateRow: a failed insert is logged and the order goes on.     *)
CreateRowSwallows(o) ==
  /\ request[o].step = "creating"
  /\ \E r \in {NewRow} \cup (IF "db" \in Faults THEN {row[o]} ELSE {}) :
       row' = [row EXCEPT ![o] = r]
  /\ Proceed(o, "enqueueing")
  /\ UNCHANGED <<kind, job, run, lastEvent, trades, removed>>

(* prisma.order.create. When it rejects, the insert may still have happened. *)
CreateRow(o) ==
  /\ request[o].step = "creating"
  /\ \/ /\ row' = [row EXCEPT ![o] = NewRow]
        /\ Proceed(o, "enqueueing")
     \/ /\ "db" \in Faults
        /\ \E r \in {row[o], NewRow} : row' = [row EXCEPT ![o] = r]
        /\ Reply(o, "r400")
  /\ UNCHANGED <<kind, job, run, lastEvent, trades, removed>>

(* Mutant of AddOrder: a rejected enqueueing is logged and the order goes on.*)
AddOrderSwallows(o) ==
  /\ request[o].step = "enqueueing"
  /\ \E state \in {"waiting"} \cup (IF "queue" \in Faults THEN {"none"} ELSE {}) :
       job' = [job EXCEPT ![o].state = state]
  /\ Proceed(o, "counting")
  /\ UNCHANGED <<kind, row, run, lastEvent, trades, removed>>

(* queue.add, the first await of addOrder. When it rejects, the job may have *)
(* been added all the same.                                                  *)
AddOrder(o) ==
  /\ request[o].step = "enqueueing"
  /\ \/ /\ job' = [job EXCEPT ![o].state = "waiting"]
        /\ Proceed(o, "counting")
     \/ /\ "queue" \in Faults
        /\ \E state \in {"none", "waiting"} : job' = [job EXCEPT ![o].state = state]
        /\ Reply(o, "r400")
  /\ UNCHANGED <<kind, row, run, lastEvent, trades, removed>>

(* queue.count, the second await of addOrder: it is there for a log line,    *)
(* and its rejection fails the request although the job has been added.      *)
CountQueue(o) ==
  /\ request[o].step = "counting"
  /\ \/ Proceed(o, "announcing")
     \/ /\ "queue" \in Faults
        /\ Reply(o, "r400")
  /\ UNCHANGED <<kind, row, job, run, lastEvent, trades, removed>>

(* publishStatusUpdate of PENDING. Here, unlike in the worker, a rejection   *)
(* propagates to the reply.                                                  *)
AnnouncePending(o) ==
  /\ request[o].step = "announcing"
  /\ \/ /\ lastEvent' = [lastEvent EXCEPT ![o] = "pending"]
        /\ Reply(o, "r201")
     \/ /\ "publish" \in Faults
        /\ EmitStatusUpdate(o, "pending")
        /\ Reply(o, "r400")
  /\ UNCHANGED <<kind, row, job, run, trades, removed>>

ControllerStep(o) ==
  \/ CreateRow(o)
  \/ AddOrder(o)
  \/ CountQueue(o)
  \/ AnnouncePending(o)
=============================================================================
