--------------------------- MODULE WebSocketService ---------------------------
(***************************************************************************)
(* WebSocketService on one server: the map of sockets, the set of channels *)
(* it believes it is subscribed to, and the Redis connection of its sub    *)
(* client, on which commands, their replies and the messages of the        *)
(* channels travel in order. There is one channel per order.               *)
(***************************************************************************)
EXTENDS Integers, SequencesExt

CONSTANTS
  Orders,      (* the orders clients watch                                   *)
  Sockets,     (* the WebSocket connections clients open, each used once     *)
  MaxUpdates,  (* updates published in all (bounds the model)                *)
  Outages,     (* what may become of the commands of a lost Redis connection *)
  None         (* no value                                                   *)

(* After an outage, ioredis sends the commands without a reply again, or has *)
(* rejected them because reconnecting took too many tries.                   *)
OutageKinds == {"resent", "rejected"}

ASSUME ServiceAssumption ==
  /\ IsFiniteSet(Orders)
  /\ MaxUpdates \in Nat
  /\ Outages \subseteq OutageKinds
  /\ None \notin Orders \cup Sockets \cup OutageKinds

VARIABLES
  target,         (* target[s]: the order in the URL of socket s             *)
  readyState,     (* readyState[s], "none" before s connects                 *)
  connections,    (* connections[o]: the Map of the service                  *)
  subscriptions,  (* the Set of the service                                  *)
  commands,       (* commands on their way to Redis                          *)
  replies,        (* replies and messages on their way back                  *)
  subscribed,     (* the channels Redis has the connection subscribed to     *)
  published,      (* published[o]: how many updates of o have been published *)
  received,       (* received[s]: the updates sent to socket s               *)
  outage          (* the outage that happened (the model has at most one)    *)

vars == <<target, readyState, connections, subscriptions, commands, replies,
          subscribed, published, received, outage>>

socketVars == <<target, readyState>>
serviceVars == <<connections, subscriptions, received>>
redisVars == <<replies, subscribed, published, outage>>

(* A socket that is closing is in one state or the other, as its 'error'     *)
(* event has not been emitted or has: there is at most one.                  *)
Closing == {"closing", "errored"}

ReadyStates == {"none", "open", "closed"} \cup Closing

Commands == [op : {"subscribe", "unsubscribe"}, order : Orders]

Messages == [op : {"message"}, order : Orders, update : 1..MaxUpdates]

TypeOK ==
  /\ target \in [Sockets -> Orders \cup {None}]
  /\ readyState \in [Sockets -> ReadyStates]
  /\ connections \in [Orders -> Sockets \cup {None}]
  /\ subscriptions \subseteq Orders
  /\ commands \in Seq(Commands)
  /\ replies \in Seq(Commands \cup Messages)
  /\ subscribed \subseteq Orders
  /\ published \in [Orders -> 0..MaxUpdates]
  /\ received \in [Sockets -> Seq(1..MaxUpdates)]
  /\ outage \in Outages \cup {None}

Init ==
  /\ target = [s \in Sockets |-> None]
  /\ readyState = [s \in Sockets |-> "none"]
  /\ connections = [o \in Orders |-> None]
  /\ subscriptions = {}
  /\ commands = <<>>
  /\ replies = <<>>
  /\ subscribed = {}
  /\ published = [o \in Orders |-> 0]
  /\ received = [s \in Sockets |-> <<>>]
  /\ outage = None

-----------------------------------------------------------------------------
(* The sockets. *)

Subscribe(o) == [op |-> "subscribe", order |-> o]
Unsubscribe(o) == [op |-> "unsubscribe", order |-> o]

(* Mutant of Connect: SUBSCRIBE is sent when the channel is known already.   *)
ConnectInverted(s, o) ==
  /\ readyState[s] = "none"
  /\ target' = [target EXCEPT ![s] = o]
  /\ readyState' = [readyState EXCEPT ![s] = "open"]
  /\ connections' = [connections EXCEPT ![o] = s]
  /\ commands' = IF o \in subscriptions THEN Append(commands, Subscribe(o)) ELSE commands
  /\ UNCHANGED <<subscriptions, received, redisVars>>

(* A client opens the stream of an order: registerConnection puts the socket *)
(* in the map, in place of any other one, and subscribes unless the set has  *)
(* the channel.                                                              *)
Connect(s, o) ==
  /\ readyState[s] = "none"
  /\ target' = [target EXCEPT ![s] = o]
  /\ readyState' = [readyState EXCEPT ![s] = "open"]
  /\ connections' = [connections EXCEPT ![o] = s]
  /\ commands' = IF o \in subscriptions THEN commands ELSE Append(commands, Subscribe(o))
  /\ UNCHANGED <<subscriptions, received, redisVars>>

(* unregisterConnection: the entry of the order goes, whichever socket it    *)
(* holds, and UNSUBSCRIBE is sent if the set has the channel.                *)
UnregisterConnection(o) ==
  /\ connections' = [connections EXCEPT ![o] = None]
  /\ commands' = IF o \in subscriptions THEN Append(commands, Unsubscribe(o)) ELSE commands

(* Either end starts to close; nothing is called before the 'close' event.   *)
StartClosing(s) ==
  /\ readyState[s] = "open"
  /\ readyState' = [readyState EXCEPT ![s] = "closing"]
  /\ UNCHANGED <<target, serviceVars, commands, redisVars>>

(* Mutant of CloseEvent: the handler is not attached. *)
CloseEventIgnored(s) ==
  /\ readyState[s] \in Closing
  /\ readyState' = [readyState EXCEPT ![s] = "closed"]
  /\ UNCHANGED <<target, serviceVars, commands, redisVars>>

(* The 'close' event. *)
CloseEvent(s) ==
  /\ readyState[s] \in Closing
  /\ readyState' = [readyState EXCEPT ![s] = "closed"]
  /\ UnregisterConnection(target[s])
  /\ UNCHANGED <<target, subscriptions, received, redisVars>>

(* The 'error' event, of an open socket or of one that is closing already; a *)
(* 'close' event follows.                                                    *)
ErrorEvent(s) ==
  /\ readyState[s] \in {"open", "closing"}
  /\ readyState' = [readyState EXCEPT ![s] = "errored"]
  /\ UnregisterConnection(target[s])
  /\ UNCHANGED <<target, subscriptions, received, redisVars>>

(* closeAll, at shutdown: every socket in the map is closed and its order    *)
(* unregistered, in some order (in the code that of the map).                *)
CloseAll ==
  LET known == {o \in Orders : connections[o] # None} IN
  /\ known # {}
  /\ readyState' = [s \in Sockets |->
       IF readyState[s] = "open" /\ \E o \in known : connections[o] = s
         THEN "closing" ELSE readyState[s]]
  /\ connections' = [o \in Orders |-> None]
  /\ \E unsubscribes \in SetToSeqs({Unsubscribe(o) : o \in known \cap subscriptions}) :
       commands' = commands \o unsubscribes
  /\ UNCHANGED <<target, subscriptions, received, redisVars>>

-----------------------------------------------------------------------------
(* Redis.                                                                    *)

(* Redis executes a command of the sub client and replies. *)
ExecuteCommand ==
  /\ commands # <<>>
  /\ LET c == Head(commands) IN
       /\ subscribed' = IF c.op = "subscribe" THEN subscribed \cup {c.order}
                                              ELSE subscribed \ {c.order}
       /\ replies' = Append(replies, c)
  /\ commands' = Tail(commands)
  /\ UNCHANGED <<socketVars, serviceVars, published, outage>>

(* The updates published, of all orders. *)
PublishedUpdates == {u \in Orders \X (1..MaxUpdates) : u[2] <= published[u[1]]}

(* publishStatusUpdate, on this server or on another one. *)
PublishStatusUpdate(o) ==
  /\ Cardinality(PublishedUpdates) < MaxUpdates
  /\ published' = [published EXCEPT ![o] = @ + 1]
  /\ replies' = IF o \in subscribed
                  THEN Append(replies, [op |-> "message", order |-> o,
                                        update |-> published[o] + 1])
                  ELSE replies
  /\ UNCHANGED <<socketVars, serviceVars, commands, subscribed, outage>>

(* The commands whose replies are in q, in their order. *)
Unanswered(q) ==
  LET upTo[n \in 0..Len(q)] ==
        IF n = 0 THEN <<>>
        ELSE IF q[n].op = "message" THEN upTo[n - 1] ELSE Append(upTo[n - 1], q[n])
  IN upTo[Len(q)]

(* The connection of the sub client is lost with what was on its way back.   *)
(* ioredis reconnects, subscribes to the channels it was subscribed to, in   *)
(* some order, and sends the commands without a reply again, unless it has   *)
(* rejected them.                                                            *)
DropConnection ==
  /\ outage = None
  /\ outage' \in Outages
  /\ subscribed' = {}
  /\ replies' = <<>>
  /\ \E subscribes \in SetToSeqs({Subscribe(o) : o \in subscriptions}) :
       commands' = subscribes
                     \o (IF outage' = "resent" THEN Unanswered(replies) \o commands ELSE <<>>)
  /\ UNCHANGED <<socketVars, serviceVars, published>>

-----------------------------------------------------------------------------
(* What the service does with what comes back.                               *)

(* Mutant of SubscribeReply: the set gets the socket instead of the channel. *)
SubscribeReplyOfSocket ==
  /\ replies # <<>>
  /\ Head(replies).op = "subscribe"
  /\ subscriptions' = subscriptions \cup {connections[Head(replies).order]}
  /\ replies' = Tail(replies)
  /\ UNCHANGED <<socketVars, connections, received, commands, subscribed, published, outage>>

(* The callback of subscribe. *)
SubscribeReply ==
  /\ replies # <<>>
  /\ Head(replies).op = "subscribe"
  /\ subscriptions' = subscriptions \cup {Head(replies).order}
  /\ replies' = Tail(replies)
  /\ UNCHANGED <<socketVars, connections, received, commands, subscribed, published, outage>>

(* Mutant of UnsubscribeReply: the set keeps the channel. *)
UnsubscribeReplyIgnored ==
  /\ replies # <<>>
  /\ Head(replies).op = "unsubscribe"
  /\ replies' = Tail(replies)
  /\ UNCHANGED <<socketVars, serviceVars, commands, subscribed, published, outage>>

(* The callback of unsubscribe. *)
UnsubscribeReply ==
  /\ replies # <<>>
  /\ Head(replies).op = "unsubscribe"
  /\ subscriptions' = subscriptions \ {Head(replies).order}
  /\ replies' = Tail(replies)
  /\ UNCHANGED <<socketVars, connections, received, commands, subscribed, published, outage>>

(* Mutant of ForwardMessage: every registration added a handler of its own,  *)
(* each of which sends to the socket in the map.                             *)
ForwardMessageTwice ==
  /\ replies # <<>>
  /\ Head(replies).op = "message"
  /\ LET m == Head(replies)
         s == connections[m.order]
         again == \E h \in Sockets \ {s} : target[h] = m.order
     IN received' = IF s # None /\ readyState[s] = "open"
                      THEN [received EXCEPT ![s] =
                              @ \o (IF again THEN <<m.update, m.update>> ELSE <<m.update>>)]
                      ELSE received
  /\ replies' = Tail(replies)
  /\ UNCHANGED <<socketVars, connections, subscriptions, commands, subscribed, published, outage>>

(* Mutant of ForwardMessage: only the last message of a burst is forwarded.  *)
ForwardMessageDebounced ==
  /\ replies # <<>>
  /\ Head(replies).op = "message"
  /\ LET m == Head(replies)
         s == connections[m.order]
     IN received' = IF s # None /\ readyState[s] = "open" /\ Len(replies) = 1
                      THEN [received EXCEPT ![s] = Append(@, m.update)]
                      ELSE received
  /\ replies' = Tail(replies)
  /\ UNCHANGED <<socketVars, connections, subscriptions, commands, subscribed, published, outage>>

(* The 'message' handler: the update goes to the socket in the map, if any,  *)
(* unless it is closing.                                                     *)
ForwardMessage ==
  /\ replies # <<>>
  /\ Head(replies).op = "message"
  /\ LET m == Head(replies)
         s == connections[m.order]
     IN received' = IF s # None /\ readyState[s] = "open"
                      THEN [received EXCEPT ![s] = Append(@, m.update)]
                      ELSE received
  /\ replies' = Tail(replies)
  /\ UNCHANGED <<socketVars, connections, subscriptions, commands, subscribed, published, outage>>

HandleReply == SubscribeReply \/ UnsubscribeReply \/ ForwardMessage

(* Nothing is on its way and nobody does anything: the service may stay so.  *)
Idle ==
  /\ \A s \in Sockets : readyState[s] \notin Closing
  /\ commands = <<>> /\ replies = <<>>
  /\ UNCHANGED vars

Next ==
  \/ \E s \in Sockets, o \in Orders : Connect(s, o)
  \/ \E s \in Sockets : StartClosing(s) \/ CloseEvent(s) \/ ErrorEvent(s)
  \/ CloseAll
  \/ ExecuteCommand
  \/ \E o \in Orders : PublishStatusUpdate(o)
  \/ DropConnection
  \/ HandleReply
  \/ Idle

Spec == Init /\ [][Next]_vars
-----------------------------------------------------------------------------
(* Safety.                                                                   *)

(* No command, reply or message is on its way; sockets may still be closing. *)
Quiet == commands = <<>> /\ replies = <<>>

(* Once the replies are in, the set of the service is what Redis has, however*)
(* subscriptions, unsubscriptions and reconnections overlapped.              *)
SubscriptionsMirrorRedis == Quiet => subscriptions = subscribed

(* The map never keeps a socket after its 'close' or 'error' event, nor one  *)
(* of another order: connections do not leak.                                *)
MapHoldsLiveSockets ==
  \A o \in Orders :
    LET s == connections[o] IN
      s # None => readyState[s] \in {"open", "closing"} /\ target[s] = o

(* No socket gets an update twice, late, or before it was published.         *)
UpdatesInOrder ==
  \A s \in Sockets :
    /\ \A i, j \in DOMAIN received[s] : i < j => received[s][i] < received[s][j]
    /\ \A i \in DOMAIN received[s] : received[s][i] <= published[target[s]]

(* Socket s is the only one its order ever had, and the client has it open.  *)
SoleConnection(s) ==
  /\ readyState[s] = "open"
  /\ \A w \in Sockets \ {s} : target[w] # target[s]

(* The only connection an order ever had is served until it is closed: the   *)
(* map has it, and Redis has the subscription once it answered, even after an*)
(* outage, unless the outage rejected the SUBSCRIBE, which the service only  *)
(* logs. Only closeAll can empty the map before the socket is closed, and it *)
(* closes the socket.                                                        *)
SoleConnectionIsServed ==
  \A s \in Sockets : SoleConnection(s) =>
    /\ connections[target[s]] = s
    /\ Quiet /\ outage # "rejected" => target[s] \in subscribed

(* The updates of order o on their way to the service. *)
OnTheirWay(o) ==
  {r.update : r \in {m \in ToSet(replies) : m.op = "message" /\ m.order = o}}

(* From its first update on, the only connection of an order misses none:    *)
(* whatever was published after an update that it got, or that is on its way,*)
(* it got too, or is on its way.                                             *)
SoleConnectionMissesNothing ==
  \A s \in Sockets :
    LET o == target[s]
        updates == ToSet(received[s]) \cup OnTheirWay(o)
    IN SoleConnection(s) /\ o \in subscribed /\ outage = None =>
         \A u \in updates : u..published[o] \subseteq updates

-----------------------------------------------------------------------------
(* What the repository says of the service and the service does not do.      *)

(* A client that reconnects, its former connections closed, is served.       *)
ReconnectionIsServed ==
  \A s \in Sockets :
    /\ Quiet
    /\ readyState[s] = "open"
    /\ \A w \in Sockets \ {s} : target[w] = target[s] => readyState[w] = "closed"
    => connections[target[s]] = s /\ target[s] \in subscribed

(* Once nothing is on its way and no handler of a closing socket is still to *)
(* run, so that nothing changes any more unless a client connects again, the *)
(* service is not subscribed to the channel of an order without connections. *)
NoConnectionNoSubscription ==
  Quiet /\ (\A s \in Sockets : readyState[s] \notin Closing) =>
    \A o \in subscribed : connections[o] # None
=============================================================================
