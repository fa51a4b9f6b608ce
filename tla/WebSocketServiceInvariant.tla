---------------------- MODULE WebSocketServiceInvariant ----------------------
(***************************************************************************)
(* The inductive invariant behind the safety properties of                 *)
(* WebSocketService. Commands, replies and messages keep their order, so   *)
(* that what the service believes of a channel is what Redis had when it   *)
(* sent the reply that is handled last.                                    *)
(***************************************************************************)
EXTENDS WebSocketService

(* r is the reply to a command about the channel of o, or a message of it.   *)
RepliesTo(r, o) == r.op # "message" /\ r.order = o
UpdateOf(r, o) == r.op = "message" /\ r.order = o

(* A socket has an order, and updates, only once it is connected.            *)
SocketsKnowTheirOrder ==
  \A s \in Sockets :
    IF readyState[s] = "none" THEN target[s] = None /\ received[s] = <<>>
                              ELSE target[s] \in Orders

(* The subscriptions.                                                        *)

(* The service is going to subscribe again, after an outage, to a channel it *)
(* still has in its set, before it may unsubscribe from it.                  *)
SubscribesAgain(o) ==
  /\ o \in subscriptions
  /\ \E i \in DOMAIN commands :
       /\ commands[i] = Subscribe(o)
       /\ \A j \in 1..(i - 1) : commands[j] # Unsubscribe(o)

(* With no reply about a channel on its way, the set and Redis agree on it.  *)
AgreedUnlessAnswering(o) ==
  (\A r \in ToSet(replies) : ~RepliesTo(r, o))
    => (o \in subscriptions <=> o \in subscribed) \/ SubscribesAgain(o)

(* The last reply about a channel tells what Redis has.                      *)
LastReplyTells(o) ==
  \A i \in DOMAIN replies :
    /\ RepliesTo(replies[i], o)
    /\ \A j \in DOMAIN replies : i < j => ~RepliesTo(replies[j], o)
    => (replies[i].op = "subscribe" <=> o \in subscribed)

SubscriptionInv ==
  \A o \in Orders : AgreedUnlessAnswering(o) /\ LastReplyTells(o)

(* The updates.                                                              *)

(* The updates of an order on their way are published ones in their order.   *)
MessagesInOrder ==
  \A i \in DOMAIN replies : replies[i].op = "message" =>
    /\ replies[i].update <= published[replies[i].order]
    /\ \A j \in DOMAIN replies :
         i < j /\ UpdateOf(replies[j], replies[i].order)
           => replies[i].update < replies[j].update

(* What a socket got was published before what is on its way to it.          *)
ReceivedIsOlder ==
  \A s \in Sockets : \A n \in DOMAIN received[s] : \A r \in ToSet(replies) :
    UpdateOf(r, target[s]) => received[s][n] < r.update

DeliveryInv ==
  /\ SocketsKnowTheirOrder
  /\ MapHoldsLiveSockets
  /\ MessagesInOrder
  /\ ReceivedIsOlder
  /\ UpdatesInOrder

(* The only connection of an order.                                          *)

(* Nothing was ever said about an order that no client watched.              *)
NothingOfUnwatched ==
  \A o \in Orders : (\A s \in Sockets : target[s] # o) =>
    /\ o \notin subscriptions /\ o \notin subscribed
    /\ \A x \in ToSet(commands) \cup ToSet(replies) : x.order # o

(* The map has the only connection, nothing unsubscribes from its channel,   *)
(* and the subscription is there or under way.                               *)
SoleIsServed(s) ==
  LET o == target[s]
      underway == ToSet(commands) \cup ToSet(replies)
  IN /\ connections[o] = s
     /\ Unsubscribe(o) \notin underway
     /\ outage # "rejected" =>
          /\ o \in subscribed \/ Subscribe(o) \in ToSet(commands)
          /\ o \in subscriptions \/ Subscribe(o) \in underway

(* Before Redis has the subscription the connection gets nothing, and from   *)
(* its first update on it misses nothing.                                    *)
SoleMissesNothing(s) ==
  LET o == target[s]
      updates == ToSet(received[s]) \cup OnTheirWay(o)
  IN outage = None =>
       /\ o \notin subscribed => updates = {}
       /\ \A u \in updates : u..published[o] \subseteq updates

SoleInv ==
  /\ NothingOfUnwatched
  /\ \A s \in Sockets : SoleConnection(s) => SoleIsServed(s) /\ SoleMissesNothing(s)

(* Every step preserves the conjunction; no part is preserved alone.         *)
ServiceInv == TypeOK /\ SubscriptionInv /\ DeliveryInv /\ SoleInv
=============================================================================
