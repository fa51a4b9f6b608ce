----------------------------- MODULE StatusStream -----------------------------
(***************************************************************************)
(* What a client sees of an order: the engine, which publishes statuses,   *)
(* composed with the WebSocket service of the server the client is         *)
(* connected to. The channel of an order is the only thing they share.     *)
(***************************************************************************)
EXTENDS OrderEngine, Sequences, FiniteSets

CONSTANTS
  Sockets,     (* the WebSocket connections clients open                     *)
  MaxUpdates,  (* more updates than the engine publishes for all orders      *)
  Outages      (* what may become of the commands of a lost Redis connection *)

VARIABLES
  target, readyState, connections, subscriptions, commands, replies,
  subscribed, published, received, outage,   (* of WebSocketService          *)
  history      (* history[o]: the statuses published on the channel of o     *)

Service == INSTANCE WebSocketService

serviceState == <<target, readyState, connections, subscriptions, commands,
                  replies, subscribed, published, received, outage>>

streamVars == <<vars, serviceState, history>>

(* Every publication has its effect, and the server that streams, with its   *)
(* connection to Redis, stays up: what becomes of a stream otherwise is the  *)
(* subject of WebSocketService.                                              *)
ASSUME StreamAssumption ==
  /\ Faults \cap {"publish", "restart"} = {}
  /\ Outages = {}
  /\ MaxUpdates \in Nat
  /\ IsFiniteSet(Orders)
  /\ None \notin Orders \cup Sockets \cup Service!OutageKinds

StreamInit ==
  /\ Init
  /\ Service!Init
  /\ history = [o \in Orders |-> <<>>]

-----------------------------------------------------------------------------
(* The engine.                                                               *)

(* A step of the engine that publishes nothing. *)
Silently == UNCHANGED <<serviceState, history>>

(* A step of the engine that publishes its new lastEvent on the channel.     *)
Publishing(o) ==
  /\ Service!PublishStatusUpdate(o)
  /\ history' = [history EXCEPT ![o] = Append(@, lastEvent'[o])]

(* The runs' steps that publish. *)
Reporting(s) ==
  \/ ReportRouting(s)
  \/ ReportRouted(s)
  \/ ReportBuilding(s)
  \/ ReportSubmitted(s)
  \/ ReportConfirmed(s)
  \/ ReportFailed(s)
  \/ ReportExhausted(s)

(* The runs' steps that do not. *)
Working(s) ==
  \/ MarkPending(s)
  \/ GetBestQuote(s)
  \/ ExecuteSwap(s)
  \/ RecordConfirmed(s)
  \/ RecordFailed(s)
  \/ RecordExhausted(s)
  \/ CompleteJob(s)
  \/ FailJob(s)

RequestStep(o) ==
  \/ (CreateRow(o) \/ AddOrder(o) \/ CountQueue(o)) /\ Silently
  \/ AnnouncePending(o) /\ Publishing(o)

RunStep(s) ==
  \/ Working(s) /\ Silently
  \/ run[s] # None /\ Reporting(s) /\ Publishing(run[s].order)

(* The steps of the clients and of the queue. *)
QueueStep(o) ==
  /\ \/ \E k \in OrderKinds, srv \in Servers : Submit(o, k, srv)
     \/ \E s \in Slots : TakeJob(s, o)
     \/ PromoteDelayed(o)
     \/ LoseLock(o)
     \/ MoveStalledJob(o)
  /\ Silently

-----------------------------------------------------------------------------
(* The service.                                                              *)

(* Clients learn the id of their order, and where to connect, from the reply.*)
ClientStep ==
  \/ \E s \in Sockets, o \in Orders : request[o].step = "r201" /\ Service!Connect(s, o)
  \/ \E s \in Sockets : Service!StartClosing(s) \/ Service!ErrorEvent(s)

ServiceStep ==
  \/ Service!ExecuteCommand
  \/ Service!HandleReply
  \/ \E s \in Sockets : Service!CloseEvent(s)

(* Every order is answered and settled, and nothing is on its way. *)
StreamAtRest ==
  /\ AtRest
  /\ Service!Idle
  /\ UNCHANGED history

StreamNext ==
  \/ \E o \in Orders : RequestStep(o) \/ QueueStep(o)
  \/ \E s \in Slots : RunStep(s)
  \/ (ClientStep \/ ServiceStep) /\ UNCHANGED <<vars, history>>
  \/ StreamAtRest

StreamSpec == StreamInit /\ [][StreamNext]_streamVars

(* The engine's fairness, and that of the connection to Redis and of the     *)
(* service's event loop, which handles one reply after the other.            *)
StreamFairness ==
  /\ \A o \in Orders :
       /\ WF_streamVars(RequestStep(o))
       /\ WF_streamVars((\E s \in Slots : TakeJob(s, o)) /\ Silently)
       /\ WF_streamVars(PromoteDelayed(o) /\ Silently)
       /\ WF_streamVars(MoveStalledJob(o) /\ Silently)
  /\ \A s \in Slots : WF_streamVars(RunStep(s))
  /\ WF_streamVars(ServiceStep /\ UNCHANGED <<vars, history>>)

FairStreamSpec == StreamSpec /\ StreamFairness
-----------------------------------------------------------------------------
(* What a client sees. *)

(* The statuses socket s was sent, in the order it was sent them. *)
Seen(s) == [i \in DOMAIN received[s] |-> history[target[s]][received[s][i]]]

(* What a client may see next: the life cycle, entered again after a failure.*)
(* Nothing follows confirmed, and nothing is followed by pending.            *)
Follows ==
  [pending   |-> {"routing", "failed"},
   routing   |-> {"routing", "building", "failed"},
   building  |-> {"submitted"},
   submitted |-> {"confirmed", "failed"},
   confirmed |-> {},
   failed    |-> {"routing", "failed"}]

(* While the job has not stalled, what the only client of an order sees is a *)
(* path through the life cycle, whenever it connected: no status is left out,*)
(* none comes late, an attempt starts again only after a failure, and nothing*)
(* comes after confirmed. The race between the request and the worker, which *)
(* may publish pending after routing, stays hidden: the client can connect   *)
(* only once it has the reply, and the reply comes after pending.            *)
LifecycleIsSeenInOrder ==
  \A s \in Sockets :
    Service!SoleConnection(s) /\ job[target[s]].stalled = 0 =>
      \A i \in 1..(Len(received[s]) - 1) : Seen(s)[i + 1] \in Follows[Seen(s)[i]]

(* The only client of an order that is subscribed before a run that settles  *)
(* the order begins, and stays, is told in the end how the order ended: its  *)
(* last update is the verdict of the queue. No kind of order, and no failure,*)
(* leaves it waiting.                                                        *)
OutcomeIsSeen ==
  \A s \in Sockets, o \in Orders :
    /\ target[s] = o
    /\ Service!SoleConnection(s)
    /\ o \in subscribed
    /\ job[o].state = "waiting"
    ~> \/ ~Service!SoleConnection(s)
       \/ job[o].stalled > 0
       \/ /\ job[o].state \in Finished
          /\ Seen(s) # <<>>
          /\ Seen(s)[Len(Seen(s))] =
               IF job[o].state = "completed" THEN "confirmed" ELSE "failed"
=============================================================================
