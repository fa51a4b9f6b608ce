--------------------------- MODULE GracefulShutdown ---------------------------
(***************************************************************************)
(* The life of the server processes, around the engine they run: a process *)
(* takes jobs from the moment it is loaded, serves requests once start()   *)
(* is through, and is told to stop by SIGTERM or SIGINT. Two handlers      *)
(* listen to a signal: the one of redis.config.ts, installed when the      *)
(* process is loaded, closes the three Redis clients at once; the shutdown *)
(* of index.ts, installed at the end of start(), closes one part of the    *)
(* program after the other, and waits for each.                            *)
(*                                                                         *)
(* With the clients closed, every call of the queue and every publication  *)
(* of the process is rejected. The engine has actions for these outcomes;  *)
(* here nothing else makes them happen.                                    *)
(***************************************************************************)
EXTENDS OrderEngine

CONSTANT MaxSignals   (* the signals sent to all servers (bounds the model)  *)

VARIABLES
  server,    (* server[srv]: how far the process is in starting or stopping  *)
  signals    (* how many signals have been sent                              *)

shutdownVars == <<vars, server, signals>>

(* What the shutdown of index.ts waits for, "none" while it has not begun.   *)
ShutdownSteps == {"none", "worker", "queue", "app", "redis"}

ServerStates ==
  [boot : {"starting", "serving"}, redis : {"open", "closed"}, shutdown : ShutdownSteps]

Loaded == [boot |-> "starting", redis |-> "open", shutdown |-> "none"]

(* The outcomes that a closed client causes are among those of the engine.   *)
ASSUME ShutdownAssumption ==
  /\ MaxSignals \in Nat
  /\ {"publish", "queue", "lock"} \subseteq Faults

ServerTypeOK ==
  /\ TypeOK
  /\ server \in [Servers -> ServerStates]
  /\ signals \in 0..MaxSignals

ShutdownInit ==
  /\ Init
  /\ server = [srv \in Servers |-> Loaded]
  /\ signals = 0

HasRedis(srv) == server[srv].redis = "open"

-----------------------------------------------------------------------------
(* The engine on servers that may have lost their clients.                   *)

SameServers == UNCHANGED <<server, signals>>

(* A request reaches a server that listens. *)
Accept(o, k, srv) ==
  /\ server[srv].boot = "serving"
  /\ server[srv].shutdown \in {"none", "worker", "queue"}
  /\ Submit(o, k, srv)

(* Mutant of RequestStep: calls of the queue wait for a client to come back. *)
RequestStepWaits(o) ==
  /\ request[o].step \in {"creating", "enqueueing", "counting", "announcing"}
  /\ request[o].step # "creating" => HasRedis(request[o].server)
  /\ ControllerStep(o)
  /\ request'[o].step # "r400"

(* createOrder goes on; its Redis calls are rejected exactly if the clients  *)
(* of its process are closed, and then have no effect.                       *)
RequestStep(o) ==
  /\ request[o].server # None
  /\ LET refused == request[o].step # "creating" /\ ~HasRedis(request[o].server) IN
       /\ ControllerStep(o)
       /\ (request'[o].step = "r400") = refused
       /\ refused => job' = job /\ lastEvent' = lastEvent

(* What a run publishes, by its step. *)
Publishes ==
  [routing |-> "routing", routed |-> "routing", building |-> "building",
   submitting |-> "submitted", confirming |-> "confirmed", failing |-> "failed",
   exhausted |-> "failed"]

(* Whether slot s has a run that ended, but whose job BullMQ cannot move.    *)
CannotEnd(s) == (At(s, "returning") \/ At(s, "throwing")) /\ ~HasRedis(Host(s))

(* processOrder goes on; without clients nothing is published.               *)
RunStep(s) ==
  /\ ~CannotEnd(s)
  /\ WorkerStep(s)
  /\ IF HasRedis(Host(s))
       THEN run[s].step \in DOMAIN Publishes =>
              lastEvent'[run[s].order] = Publishes[run[s].step]
       ELSE job' = job /\ lastEvent' = lastEvent

(* BullMQ gives up moving the job of a run that ended: the job stays active. *)
AbandonJob(s) ==
  /\ CannotEnd(s)
  /\ run' = [run EXCEPT ![s] = None]
  /\ UNCHANGED <<kind, request, row, job, lastEvent, trades, removed>>

(* The worker of a process takes a job. *)
Take(s, o) == HasRedis(Host(s)) /\ TakeJob(s, o)

(* The workers also promote delayed jobs and look for stalled ones. *)
Maintain(o) ==
  /\ \E srv \in Servers : HasRedis(srv)
  /\ PromoteDelayed(o) \/ MoveStalledJob(o)

(* Without clients a worker does not renew its locks. *)
LockExpires(o) == job[o].lock # None /\ ~HasRedis(Host(job[o].lock)) /\ LoseLock(o)

-----------------------------------------------------------------------------
(* The process.                                                              *)

(* The process ends, and the platform starts it again: no shutdown gets as   *)
(* far as exit(0).                                                           *)
Exit(srv) ==
  /\ EndProcess(srv)
  /\ server' = [server EXCEPT ![srv] = Loaded]

(* start() connects to the database, listens and installs its handlers.      *)
Start(srv) ==
  /\ server[srv].boot = "starting"
  /\ server' = [server EXCEPT ![srv].boot = "serving"]
  /\ UNCHANGED <<vars, signals>>

(* start() fails and exits, whatever the worker is doing.                    *)
StartFails(srv) ==
  /\ server[srv].boot = "starting"
  /\ Exit(srv)
  /\ UNCHANGED signals

(* The first signal. Of index.ts's handler there is nothing unless start()   *)
(* is through; its closeAll does not wait.                                   *)
FirstSignal(srv) ==
  /\ HasRedis(srv)
  /\ signals < MaxSignals
  /\ signals' = signals + 1
  /\ server' = [server EXCEPT
                 ![srv].redis = "closed",
                 ![srv].shutdown = IF server[srv].boot = "serving" THEN "worker" ELSE "none"]
  /\ UNCHANGED vars

(* Another signal. The clients are closed already, disconnectRedis rejects   *)
(* and nobody handles its rejection: the process ends.                       *)
AnotherSignal(srv) ==
  /\ ~HasRedis(srv)
  /\ signals < MaxSignals
  /\ signals' = signals + 1
  /\ Exit(srv)

(* Mutant of CloseWorker: the worker is closed by force. *)
CloseWorkerForced(srv) ==
  /\ server[srv].shutdown = "worker"
  /\ server' = [server EXCEPT ![srv].shutdown = "queue"]
  /\ UNCHANGED <<vars, signals>>

(* worker.close waits for the runs in progress. *)
CloseWorker(srv) ==
  /\ server[srv].shutdown = "worker"
  /\ \A s \in Slots : Host(s) = srv => run[s] = None
  /\ server' = [server EXCEPT ![srv].shutdown = "queue"]
  /\ UNCHANGED <<vars, signals>>

(* queue.close. *)
CloseQueue(srv) ==
  /\ server[srv].shutdown = "queue"
  /\ server' = [server EXCEPT ![srv].shutdown = "app"]
  /\ UNCHANGED <<vars, signals>>

(* app.close stops listening and waits for the requests in progress. *)
CloseApp(srv) ==
  /\ server[srv].shutdown = "app"
  /\ \A o \in Orders : request[o].server # srv
  /\ server' = [server EXCEPT ![srv].shutdown = "redis"]
  /\ UNCHANGED <<vars, signals>>

(* disconnectRedis rejects, since the other handler has closed the clients;  *)
(* the shutdown catches that and exits with 1.                               *)
DisconnectRedis(srv) ==
  /\ server[srv].shutdown = "redis"
  /\ Exit(srv)
  /\ UNCHANGED signals

ShutdownStep(srv) ==
  \/ CloseWorker(srv)
  \/ CloseQueue(srv)
  \/ CloseApp(srv)
  \/ DisconnectRedis(srv)

ShutdownNext ==
  \/ /\ \/ \E o \in Orders, k \in OrderKinds, srv \in Servers : Accept(o, k, srv)
        \/ \E o \in Orders : RequestStep(o)
        \/ \E s \in Slots : RunStep(s) \/ AbandonJob(s)
        \/ \E s \in Slots, o \in Orders : Take(s, o)
        \/ \E o \in Orders : Maintain(o) \/ LockExpires(o)
     /\ SameServers
  \/ \E srv \in Servers :
       \/ Start(srv)
       \/ StartFails(srv)
       \/ FirstSignal(srv)
       \/ AnotherSignal(srv)
       \/ ShutdownStep(srv)

ShutdownSpec == ShutdownInit /\ [][ShutdownNext]_shutdownVars

(* A process gets on with what it does, be it to start, to serve, to work or *)
(* to stop, and a lock that is not renewed expires. Whether BullMQ gives up  *)
(* moving a job without a client is not known: it may try for ever.          *)
ShutdownFairness ==
  /\ \A o \in Orders :
       /\ WF_shutdownVars(RequestStep(o) /\ SameServers)
       /\ WF_shutdownVars((\E s \in Slots : Take(s, o)) /\ SameServers)
       /\ WF_shutdownVars(Maintain(o) /\ SameServers)
       /\ WF_shutdownVars(LockExpires(o) /\ SameServers)
  /\ \A s \in Slots : WF_shutdownVars(RunStep(s) /\ SameServers)
  /\ \A srv \in Servers : WF_shutdownVars(Start(srv)) /\ WF_shutdownVars(ShutdownStep(srv))

FairShutdownSpec == ShutdownSpec /\ ShutdownFairness
-----------------------------------------------------------------------------
(* Safety.                                                                   *)

(* A run that has traded is not cut off before it has recorded the trade by  *)
(* the shutdown of its process, but only by a signal that comes on top of    *)
(* another one, or by a start that fails.                                    *)
ShutdownCutsNoTradeOff ==
  [][\A s \in Slots :
       /\ At(s, "confirming") \/ At(s, "persisting")
       /\ run'[s] = None
       => \/ signals' > signals
          \/ server[Host(s)].boot = "starting"]_shutdownVars

-----------------------------------------------------------------------------
(* Liveness.                                                                 *)

(* A process that was told to stop when it was serving ends, and neither a   *)
(* run nor a request that has lost its clients keeps it, unless BullMQ does  *)
(* not give up moving a job.                                                 *)
SignalStopsServer ==
  \A srv \in Servers :
    server[srv].shutdown # "none"
      ~> \/ server[srv].shutdown = "none"
         \/ \E s \in Slots : Host(s) = srv /\ CannotEnd(s)

(* However servers are stopped, killed and started, an accepted order is     *)
(* settled, unless in the end no server has its clients: each was told to    *)
(* stop while starting, which closes its clients and nothing else, or waits  *)
(* for a run that cannot end.                                                *)
AcceptedSettlesElsewhere ==
  (\A o \in Orders : request[o].step = "r201" ~> job[o].state \in Finished)
    \/ <>[](\A srv \in Servers : ~HasRedis(srv))

-----------------------------------------------------------------------------
(* What the repository says of the shutdown and the shutdown does not do.    *)

(* Once the worker is closed, it holds no job any more. *)
ClosedWorkerHoldsNoJob ==
  \A srv \in Servers :
    server[srv].shutdown \in {"queue", "app", "redis"} =>
      \A o \in Orders : job[o].lock # None => Host(job[o].lock) # srv
=============================================================================
