------------------------ MODULE WebSocketServiceProofs ------------------------
(***************************************************************************)
(* The safety of WebSocketService for any number of orders, sockets and    *)
(* updates, and whatever becomes of the commands of a lost connection.     *)
(***************************************************************************)
EXTENDS WebSocketServiceInvariant, SequenceLemmas

(* The commands that are sent again after an outage are those whose replies  *)
(* were on their way.                                                        *)
LEMMA UnansweredCommands ==
  ASSUME NEW q \in Seq(Commands \cup Messages)
  PROVE  /\ Unanswered(q) \in Seq(Commands)
         /\ ToSet(Unanswered(q)) = {r \in ToSet(q) : r.op # "message"}
<1> DEFINE Next1(g, n) == IF n = 0 THEN <<>>
                          ELSE IF q[n].op = "message" THEN g[n - 1]
                               ELSE Append(g[n - 1], q[n])
           IsUpTo(g, m) == g = [n \in 0..m |-> Next1(g, n)]
           upTo == CHOOSE g : IsUpTo(g, Len(q))
<1>0. Len(q) \in Nat /\ DOMAIN q = 1..Len(q) /\ \A i \in 1..Len(q) : q[i] \in Commands \cup Messages
  BY LenProperties, ElementOfSeq
<1>1. \E g : IsUpTo(g, Len(q))
  <2> DEFINE S == {m \in Nat : \E g : IsUpTo(g, m)}
  <2>1. 0 \in S
    <3> DEFINE g == [n \in 0..0 |-> <<>>]
    <3>1. IsUpTo(g, 0)
      OBVIOUS
    <3> QED BY <3>1
  <2>2. ASSUME NEW m \in Nat, m \in S
        PROVE  m + 1 \in S
    <3>1. PICK g : IsUpTo(g, m)
      BY <2>2
    <3> DEFINE h == [n \in 0..(m + 1) |-> IF n <= m THEN g[n] ELSE Next1(g, n)]
    <3>2. \A n \in 0..m : g[n] = Next1(g, n)
      BY <3>1
    <3>3. \A n \in 0..(m + 1) : h[n] = Next1(h, n)
      <4> SUFFICES ASSUME NEW n \in 0..(m + 1) PROVE h[n] = Next1(h, n)
        OBVIOUS
      <4>1. n # 0 => n - 1 \in 0..(m + 1) /\ h[n - 1] = g[n - 1]
        OBVIOUS
      <4>2. h[n] = Next1(g, n)
        BY <3>2
      <4> HIDE DEF h
      <4> QED BY <4>1, <4>2
    <3>4. h = [n \in 0..(m + 1) |-> h[n]]
      OBVIOUS
    <3>5. IsUpTo(h, m + 1)
      <4> HIDE DEF h
      <4> QED BY <3>3, <3>4
    <3> HIDE DEF h, IsUpTo
    <3> QED BY <3>5
  <2> HIDE DEF S
  <2>3. Nat \subseteq S
    BY <2>1, <2>2, Induct
  <2> QED BY <1>0, <2>3 DEF S
<1>2. IsUpTo(upTo, Len(q))
  <2> HIDE DEF IsUpTo
  <2> QED BY <1>1
<1>3. Unanswered(q) = upTo[Len(q)]
  BY DEF Unanswered
<1> HIDE DEF upTo
<1>4. \A n \in 0..Len(q) : upTo[n] = Next1(upTo, n)
  BY <1>2
<1> HIDE DEF IsUpTo
<1> DEFINE kept(n) == {r \in {q[i] : i \in 1..n} : r.op # "message"}
           T == {n \in Nat : n <= Len(q) => /\ upTo[n] \in Seq(Commands)
                                            /\ ToSet(upTo[n]) = kept(n)}
<1>5. 0 \in T
  <2>1. upTo[0] = <<>>
    BY <1>0, <1>4
  <2>2. ToSet(upTo[0]) = {} /\ kept(0) = {}
    BY <2>1 DEF ToSet
  <2>3. upTo[0] \in Seq(Commands) /\ ToSet(upTo[0]) = kept(0)
    BY <2>1, <2>2, EmptySeq
  <2> HIDE DEF kept
  <2> QED BY <2>3
<1>6. ASSUME NEW n \in Nat, n \in T
      PROVE  n + 1 \in T
  <2> SUFFICES ASSUME n + 1 <= Len(q)
               PROVE  upTo[n + 1] \in Seq(Commands) /\ ToSet(upTo[n + 1]) = kept(n + 1)
    OBVIOUS
  <2>1. upTo[n] \in Seq(Commands) /\ ToSet(upTo[n]) = kept(n)
    BY <1>0, <1>6
  <2>2. upTo[n + 1] = IF q[n + 1].op = "message" THEN upTo[n] ELSE Append(upTo[n], q[n + 1])
    BY <1>0, <1>4
  <2>3. kept(n + 1) = kept(n) \cup (IF q[n + 1].op = "message" THEN {} ELSE {q[n + 1]})
    <3>1. 1..(n + 1) = 1..n \cup {n + 1}
      OBVIOUS
    <3> QED BY <3>1
  <2>4. CASE q[n + 1].op = "message"
    BY <2>1, <2>2, <2>3, <2>4
  <2>5. CASE q[n + 1].op # "message"
    <3>1. q[n + 1] \in Commands
      BY <1>0, <2>5 DEF Messages
    <3>2. /\ Append(upTo[n], q[n + 1]) \in Seq(Commands)
          /\ ToSet(Append(upTo[n], q[n + 1])) = ToSet(upTo[n]) \cup {q[n + 1]}
      BY <2>1, <3>1, ToSetAppend
    <3> HIDE DEF kept, T
    <3> QED BY <2>1, <2>2, <2>3, <2>5, <3>2
  <2> QED BY <2>4, <2>5
<1>7. Nat \subseteq T
  <2> HIDE DEF T
  <2> QED BY <1>5, <1>6, Induct
<1>8. upTo[Len(q)] \in Seq(Commands) /\ ToSet(upTo[Len(q)]) = kept(Len(q))
  <2> HIDE DEF kept
  <2> QED BY <1>0, <1>7
<1>9. kept(Len(q)) = {r \in ToSet(q) : r.op # "message"}
  BY <1>0 DEF ToSet
<1> HIDE DEF kept
<1> QED BY <1>3, <1>8, <1>9

-----------------------------------------------------------------------------
(* Types. *)

(* What travels on the connection to Redis. *)
LEMMA ItemTypes ==
  /\ \A o \in Orders : Subscribe(o) \in Commands /\ Unsubscribe(o) \in Commands
  /\ \A r \in Commands \cup Messages :
       IF r.op = "message" THEN r \in Messages ELSE r \in Commands
  /\ \A r \in Commands : /\ r.op \in {"subscribe", "unsubscribe"} /\ r.order \in Orders
                         /\ r.op = "subscribe" => r = Subscribe(r.order)
                         /\ r.op = "unsubscribe" => r = Unsubscribe(r.order)
  /\ \A r \in Messages : r.op = "message" /\ r.order \in Orders /\ r.update \in 1..MaxUpdates
  BY DEF Subscribe, Unsubscribe, Commands, Messages

(* The bound on the updates of all orders bounds those of each. *)
LEMMA UpdatesAreBounded ==
  ASSUME TypeOK, NEW o \in Orders, Cardinality(PublishedUpdates) < MaxUpdates
  PROVE  published[o] + 1 \in 1..MaxUpdates
<1>1. published[o] \in 0..MaxUpdates /\ MaxUpdates \in Nat
  BY ServiceAssumption DEF TypeOK
<1>2. SUFFICES ASSUME published[o] = MaxUpdates
               PROVE  FALSE
  BY <1>1
<1> DEFINE D == 1..MaxUpdates
           f == [n \in D |-> <<o, n>>]
<1>3. IsFiniteSet(D) /\ Cardinality(D) = MaxUpdates
  BY <1>1, FS_Interval
<1>4. IsFiniteSet(PublishedUpdates)
  <2>1. IsFiniteSet(Orders \X D)
    BY <1>3, ServiceAssumption, FS_Product
  <2> QED BY <2>1, FS_Subset DEF PublishedUpdates
<1>5. f \in Injection(D, PublishedUpdates)
  BY <1>1, <1>2 DEF Injection, IsInjective, PublishedUpdates
<1>6. Cardinality(D) <= Cardinality(PublishedUpdates)
  <2> HIDE DEF D, f
  <2> QED BY <1>4, <1>5, FS_Injection
<1>7. Cardinality(PublishedUpdates) \in Nat
  BY <1>4, FS_CardinalityType
<1> QED BY <1>1, <1>3, <1>6, <1>7

(* The queues after each operation. *)
LEMMA SendType ==
  ASSUME TypeOK, NEW c \in Commands, commands' = Append(commands, c)
  PROVE  commands' \in Seq(Commands) /\ ToSet(commands') = ToSet(commands) \cup {c}
  BY ToSetAppend DEF TypeOK

LEMMA UnregisterType ==
  ASSUME TypeOK, NEW o \in Orders, UnregisterConnection(o)
  PROVE  /\ commands' \in Seq(Commands)
         /\ connections' \in [Orders -> Sockets \cup {None}]
<1>1. Unsubscribe(o) \in Commands
  BY ItemTypes
<1> QED BY <1>1, SendType DEF UnregisterConnection, TypeOK

LEMMA AnswerType ==
  ASSUME TypeOK, NEW r \in Commands \cup Messages, replies' = Append(replies, r)
  PROVE  /\ ToSet(replies') = ToSet(replies) \cup {r}
         /\ DOMAIN replies = 1..Len(replies) /\ Len(replies) \in Nat
         /\ DOMAIN replies' = 1..(Len(replies) + 1)
         /\ \A i \in DOMAIN replies : replies'[i] = replies[i]
         /\ replies'[Len(replies) + 1] = r
         /\ \A i \in DOMAIN replies : replies[i] \in Commands \cup Messages
<1>1. replies \in Seq(Commands \cup Messages)
  BY DEF TypeOK
<1>2. /\ ToSet(Append(replies, r)) = ToSet(replies) \cup {r}
      /\ DOMAIN Append(replies, r) = 1..(Len(replies) + 1)
      /\ \A i \in DOMAIN replies : Append(replies, r)[i] = replies[i]
      /\ Append(replies, r)[Len(replies) + 1] = r
  BY <1>1, ToSetAppend
<1> QED BY <1>1, <1>2, LenProperties, ElementOfSeq

LEMMA HandleType ==
  ASSUME TypeOK, replies # <<>>, replies' = Tail(replies)
  PROVE  /\ Head(replies) \in Commands \cup Messages
         /\ ToSet(replies) = {Head(replies)} \cup ToSet(replies')
         /\ 1 \in DOMAIN replies /\ Head(replies) = replies[1]
         /\ \A i \in DOMAIN replies' : i + 1 \in DOMAIN replies /\ replies'[i] = replies[i + 1]
         /\ \A i \in DOMAIN replies \ {1} :
              i - 1 \in DOMAIN replies' /\ replies'[i - 1] = replies[i]
         /\ DOMAIN replies \subseteq Nat \ {0} /\ DOMAIN replies' \subseteq Nat \ {0}
         /\ \A i \in DOMAIN replies' : replies'[i] \in Commands \cup Messages
<1>1. replies \in Seq(Commands \cup Messages)
  BY DEF TypeOK
<1>2. /\ Head(replies) \in Commands \cup Messages
      /\ Tail(replies) \in Seq(Commands \cup Messages)
      /\ ToSet(replies) = {Head(replies)} \cup ToSet(Tail(replies))
      /\ 1 \in DOMAIN replies /\ Head(replies) = replies[1]
      /\ \A i \in DOMAIN Tail(replies) :
           i + 1 \in DOMAIN replies /\ Tail(replies)[i] = replies[i + 1]
      /\ \A i \in DOMAIN replies \ {1} :
           i - 1 \in DOMAIN Tail(replies) /\ Tail(replies)[i - 1] = replies[i]
  BY <1>1, ToSetTail
<1>3. replies' \in Seq(Commands \cup Messages)
  BY <1>2
<1>4. /\ DOMAIN replies = 1..Len(replies) /\ Len(replies) \in Nat
      /\ DOMAIN replies' = 1..Len(replies') /\ Len(replies') \in Nat
      /\ \A i \in DOMAIN replies' : replies'[i] \in Commands \cup Messages
  BY <1>1, <1>3, LenProperties, ElementOfSeq
<1> QED BY <1>2, <1>4

(* The updates a socket got are numbers. *)
LEMMA ReceivedType ==
  ASSUME TypeOK, NEW s \in Sockets
  PROVE  /\ received[s] \in Seq(1..MaxUpdates)
         /\ DOMAIN received[s] = 1..Len(received[s]) /\ Len(received[s]) \in Nat
         /\ \A i \in DOMAIN received[s] : received[s][i] \in Nat
<1>1. received[s] \in Seq(1..MaxUpdates)
  BY DEF TypeOK
<1>2. DOMAIN received[s] = 1..Len(received[s]) /\ Len(received[s]) \in Nat
  BY <1>1, LenProperties
<1>3. \A i \in 1..Len(received[s]) : received[s][i] \in 1..MaxUpdates
  BY <1>1, ElementOfSeq
<1> QED BY <1>1, <1>2, <1>3, ServiceAssumption

(* The sets of commands of closeAll and of an outage become sequences.       *)
LEMMA SequencesOfCommands ==
  ASSUME NEW S \in SUBSET Orders
  PROVE  /\ \A q \in SetToSeqs({Subscribe(o) : o \in S}) :
              q \in Seq(Commands) /\ ToSet(q) = {Subscribe(o) : o \in S}
         /\ \A q \in SetToSeqs({Unsubscribe(o) : o \in S}) :
              q \in Seq(Commands) /\ ToSet(q) = {Unsubscribe(o) : o \in S}
<1> DEFINE subs == {Subscribe(o) : o \in S}
           unsubs == {Unsubscribe(o) : o \in S}
           f == [o \in S |-> Subscribe(o)]
           g == [o \in S |-> Unsubscribe(o)]
<1>1. IsFiniteSet(S)
  BY ServiceAssumption, FS_Subset
<1>2. f \in Surjection(S, subs) /\ g \in Surjection(S, unsubs)
  BY DEF Surjection
<1>3. IsFiniteSet(subs) /\ IsFiniteSet(unsubs)
  <2> HIDE DEF subs, unsubs, f, g
  <2> QED BY <1>1, <1>2, FS_Surjection
<1>4. subs \subseteq Commands /\ unsubs \subseteq Commands
  BY ItemTypes
<1>5. /\ \A q \in SetToSeqs(subs) : q \in Seq(Commands) /\ ToSet(q) = subs
      /\ \A q \in SetToSeqs(unsubs) : q \in Seq(Commands) /\ ToSet(q) = unsubs
  <2> HIDE DEF subs, unsubs
  <2> QED BY <1>3, <1>4, ToSetSetToSeqs, SeqMonotonic
<1> QED BY <1>5

(* closeAll sends an UNSUBSCRIBE for orders it has a socket of. *)
LEMMA CloseAllSends ==
  ASSUME TypeOK, CloseAll
  PROVE  /\ commands' \in Seq(Commands)
         /\ \E q \in Seq(Commands) :
              /\ commands' = commands \o q
              /\ \A c \in ToSet(q) :
                   \E o \in Orders : c = Unsubscribe(o) /\ connections[o] # None
<1> DEFINE S == {o \in Orders : connections[o] # None} \cap subscriptions
<1>1. PICK q \in SetToSeqs({Unsubscribe(o) : o \in S}) : commands' = commands \o q
  BY DEF CloseAll
<1>2. q \in Seq(Commands) /\ ToSet(q) = {Unsubscribe(o) : o \in S}
  BY SequencesOfCommands
<1> QED BY <1>1, <1>2, ToSetConcat DEF TypeOK

(* What is sent after an outage: the channels the service had, and maybe the *)
(* commands that were not answered.                                          *)
LEMMA OutageSends ==
  ASSUME TypeOK, DropConnection
  PROVE  /\ commands' \in Seq(Commands)
         /\ \E q \in Seq(Commands), rest \in Seq(Commands) :
              /\ commands' = q \o rest
              /\ ToSet(q) = {Subscribe(o) : o \in subscriptions}
              /\ ToSet(rest) \subseteq ToSet(commands) \cup ToSet(replies)
              /\ outage' = "resent" =>
                   \A r \in ToSet(commands) \cup ToSet(replies) :
                     r.op # "message" => r \in ToSet(rest)
<1> DEFINE rest == IF outage' = "resent" THEN Unanswered(replies) \o commands ELSE <<>>
<1>1. PICK q \in SetToSeqs({Subscribe(o) : o \in subscriptions}) : commands' = q \o rest
  BY DEF DropConnection
<1>2. q \in Seq(Commands) /\ ToSet(q) = {Subscribe(o) : o \in subscriptions}
  BY SequencesOfCommands DEF TypeOK
<1>3. /\ Unanswered(replies) \in Seq(Commands)
      /\ ToSet(Unanswered(replies)) = {r \in ToSet(replies) : r.op # "message"}
  BY UnansweredCommands DEF TypeOK
<1>4. /\ Unanswered(replies) \o commands \in Seq(Commands)
      /\ ToSet(Unanswered(replies) \o commands)
           = {r \in ToSet(replies) : r.op # "message"} \cup ToSet(commands)
  BY <1>3, ToSetConcat DEF TypeOK
<1>5. <<>> \in Seq(Commands) /\ ToSet(<<>>) = {}
  BY EmptySeq DEF ToSet
<1>6. /\ rest \in Seq(Commands)
      /\ ToSet(rest) \subseteq ToSet(commands) \cup ToSet(replies)
      /\ outage' = "resent" =>
           \A r \in ToSet(commands) \cup ToSet(replies) :
             r.op # "message" => r \in ToSet(rest)
  <2>1. CASE outage' = "resent"
    <3>1. rest = Unanswered(replies) \o commands
      BY <2>1
    <3> HIDE DEF rest
    <3> QED BY <1>4, <3>1
  <2>2. CASE outage' # "resent"
    <3>1. rest = <<>>
      BY <2>2
    <3> HIDE DEF rest
    <3> QED BY <1>5, <2>2, <3>1
  <2> QED BY <2>1, <2>2
<1>7. commands' \in Seq(Commands)
  <2> HIDE DEF rest
  <2> QED BY <1>1, <1>2, <1>6, ToSetConcat
<1> HIDE DEF rest
<1> QED BY <1>1, <1>2, <1>6, <1>7

(* Every step keeps the types. *)
LEMMA SocketsTypeOK ==
  ASSUME TypeOK, SocketsKnowTheirOrder,
         \/ \E s \in Sockets : \/ \E o \in Orders : Connect(s, o)
                               \/ StartClosing(s) \/ CloseEvent(s) \/ ErrorEvent(s)
         \/ CloseAll
  PROVE  TypeOK'
<1>1. ASSUME NEW s \in Sockets, NEW o \in Orders, Connect(s, o)
      PROVE  TypeOK'
  <2>1. Subscribe(o) \in Commands
    BY ItemTypes
  <2>2. commands' \in Seq(Commands)
    BY <1>1, <2>1, SendType DEF Connect, TypeOK
  <2> QED BY <1>1, <2>2 DEF Connect, TypeOK, redisVars, ReadyStates
<1>2. ASSUME NEW s \in Sockets, StartClosing(s)
      PROVE  TypeOK'
  BY <1>2 DEF StartClosing, TypeOK, serviceVars, redisVars, ReadyStates, Closing
<1>3. ASSUME NEW s \in Sockets, CloseEvent(s) \/ ErrorEvent(s)
      PROVE  TypeOK'
  <2>1. target[s] \in Orders /\ UnregisterConnection(target[s])
    BY <1>3 DEF CloseEvent, ErrorEvent, SocketsKnowTheirOrder, Closing
  <2>2. /\ commands' \in Seq(Commands)
        /\ connections' \in [Orders -> Sockets \cup {None}]
    BY <2>1, UnregisterType
  <2>3. readyState' \in [Sockets -> ReadyStates]
    BY <1>3 DEF CloseEvent, ErrorEvent, TypeOK, ReadyStates, Closing
  <2> QED BY <1>3, <2>2, <2>3 DEF CloseEvent, ErrorEvent, TypeOK, redisVars
<1>4. CASE CloseAll
  <2>1. commands' \in Seq(Commands)
    BY <1>4, CloseAllSends
  <2>2. readyState' \in [Sockets -> ReadyStates]
    BY <1>4 DEF CloseAll, TypeOK, ReadyStates, Closing
  <2>3. connections' \in [Orders -> Sockets \cup {None}]
    BY <1>4 DEF CloseAll
  <2> QED BY <1>4, <2>1, <2>2, <2>3 DEF CloseAll, TypeOK, redisVars
<1> QED BY <1>1, <1>2, <1>3, <1>4

LEMMA RedisTypeOK ==
  ASSUME TypeOK,
         \/ ExecuteCommand \/ DropConnection
         \/ \E o \in Orders : PublishStatusUpdate(o)
  PROVE  TypeOK'
<1>1. CASE ExecuteCommand
  <2>1. Head(commands) \in Commands /\ Tail(commands) \in Seq(Commands)
    BY <1>1, ToSetTail DEF ExecuteCommand, TypeOK
  <2>2. replies' \in Seq(Commands \cup Messages)
    BY <1>1, <2>1, ToSetAppend DEF ExecuteCommand, TypeOK
  <2>3. Head(commands).order \in Orders
    BY <2>1, ItemTypes
  <2> QED BY <1>1, <2>1, <2>2, <2>3 DEF ExecuteCommand, TypeOK, socketVars, serviceVars
<1>2. CASE DropConnection
  <2>1. commands' \in Seq(Commands)
    BY <1>2, OutageSends
  <2> QED BY <1>2, <2>1, EmptySeq DEF DropConnection, TypeOK, socketVars, serviceVars
<1>3. ASSUME NEW o \in Orders, PublishStatusUpdate(o)
      PROVE  TypeOK'
  <2> DEFINE m == [op |-> "message", order |-> o, update |-> published[o] + 1]
  <2>1. published[o] + 1 \in 1..MaxUpdates
    BY <1>3, UpdatesAreBounded DEF PublishStatusUpdate
  <2>2. m \in Commands \cup Messages
    BY <2>1 DEF Messages
  <2>3. replies' \in Seq(Commands \cup Messages)
    <3>1. replies' = Append(replies, m) \/ replies' = replies
      BY <1>3 DEF PublishStatusUpdate
    <3> HIDE DEF m
    <3>2. Append(replies, m) \in Seq(Commands \cup Messages)
      BY <2>2, ToSetAppend DEF TypeOK
    <3> QED BY <3>1, <3>2 DEF TypeOK
  <2>4. published' \in [Orders -> 0..MaxUpdates]
    BY <1>3, <2>1, ServiceAssumption DEF PublishStatusUpdate, TypeOK
  <2> QED BY <1>3, <2>3, <2>4 DEF PublishStatusUpdate, TypeOK, socketVars, serviceVars
<1> QED BY <1>1, <1>2, <1>3

LEMMA RepliesTypeOK ==
  ASSUME TypeOK, HandleReply
  PROVE  TypeOK'
<1>0. /\ Head(replies) \in Commands \cup Messages
      /\ Tail(replies) \in Seq(Commands \cup Messages)
  BY ToSetTail DEF HandleReply, SubscribeReply, UnsubscribeReply, ForwardMessage, TypeOK
<1>1. Head(replies).order \in Orders
  BY <1>0, ItemTypes
<1>2. CASE SubscribeReply \/ UnsubscribeReply
  BY <1>0, <1>1, <1>2 DEF SubscribeReply, UnsubscribeReply, TypeOK, socketVars
<1>3. CASE ForwardMessage
  <2> DEFINE m == Head(replies)
             s == connections[m.order]
  <2>1. m.update \in 1..MaxUpdates
    BY <1>0, <1>3, ItemTypes DEF ForwardMessage
  <2>2. received' \in [Sockets -> Seq(1..MaxUpdates)]
    <3>1. CASE s # None /\ readyState[s] = "open"
      <4>1. s \in Sockets
        BY <1>1, <3>1 DEF TypeOK
      <4>2. Append(received[s], m.update) \in Seq(1..MaxUpdates)
        BY <2>1, <4>1, ToSetAppend DEF TypeOK
      <4>3. received' = [received EXCEPT ![s] = Append(received[s], m.update)]
        BY <1>3, <3>1 DEF ForwardMessage
      <4> HIDE DEF s, m
      <4> QED BY <4>1, <4>2, <4>3 DEF TypeOK
    <3>2. CASE ~(s # None /\ readyState[s] = "open")
      BY <1>3, <3>2 DEF ForwardMessage, TypeOK
    <3> QED BY <3>1, <3>2
  <2> QED BY <1>0, <1>3, <2>2 DEF ForwardMessage, TypeOK, socketVars
<1> QED BY <1>2, <1>3 DEF HandleReply

-----------------------------------------------------------------------------
(* The subscriptions.                                                        *)

(* A command that is sent later does not get in the way of SUBSCRIBE. *)
LEMMA SubscribesAgainAfterSend ==
  ASSUME TypeOK, NEW o \in Orders, NEW q \in Seq(Commands), commands' = commands \o q,
         UNCHANGED subscriptions, SubscribesAgain(o)
  PROVE  SubscribesAgain(o)'
<1>1. PICK i \in DOMAIN commands :
        /\ commands[i] = Subscribe(o)
        /\ \A j \in 1..(i - 1) : commands[j] # Unsubscribe(o)
  BY DEF SubscribesAgain
<1>2. /\ DOMAIN commands \subseteq DOMAIN commands'
      /\ \A j \in DOMAIN commands : commands'[j] = commands[j]
  BY ToSetConcat DEF TypeOK
<1>3. \A j \in 1..(i - 1) : j \in DOMAIN commands
  BY <1>1, LenProperties DEF TypeOK
<1> QED BY <1>1, <1>2, <1>3 DEF SubscribesAgain, Subscribe, Unsubscribe

(* Sending commands changes nothing else. *)
LEMMA SubscriptionsSend ==
  ASSUME TypeOK, SubscriptionInv, NEW q \in Seq(Commands), commands' = commands \o q,
         UNCHANGED <<subscriptions, subscribed, replies>>
  PROVE  SubscriptionInv'
<1> SUFFICES ASSUME NEW o \in Orders
             PROVE  AgreedUnlessAnswering(o)' /\ LastReplyTells(o)'
  BY DEF SubscriptionInv
<1> QED BY SubscribesAgainAfterSend
        DEF SubscriptionInv, AgreedUnlessAnswering, LastReplyTells

(* A step that sends nothing, or one command. *)
LEMMA SubscriptionsSockets ==
  ASSUME TypeOK, SubscriptionInv, SocketsKnowTheirOrder,
         \/ \E s \in Sockets : \/ \E o \in Orders : Connect(s, o)
                               \/ StartClosing(s) \/ CloseEvent(s) \/ ErrorEvent(s)
         \/ CloseAll
  PROVE  SubscriptionInv'
<1>1. UNCHANGED <<subscriptions, subscribed, replies>>
  BY DEF Connect, StartClosing, CloseEvent, ErrorEvent, CloseAll, serviceVars, redisVars
<1>2. \/ commands' = commands
      \/ \E c \in Commands : commands' = Append(commands, c)
      \/ \E q \in Seq(Commands) : commands' = commands \o q
  BY ItemTypes, CloseAllSends DEF Connect, StartClosing, CloseEvent, ErrorEvent,
     UnregisterConnection, SocketsKnowTheirOrder, Closing
<1>3. CASE commands' = commands
  BY <1>1, <1>3
     DEF SubscriptionInv, AgreedUnlessAnswering, LastReplyTells, SubscribesAgain
<1>4. ASSUME NEW c \in Commands, commands' = Append(commands, c)
      PROVE  SubscriptionInv'
  <2>1. <<c>> \in Seq(Commands) /\ commands' = commands \o <<c>>
    BY <1>4, AppendIsConcat DEF TypeOK
  <2> QED BY <1>1, <2>1, SubscriptionsSend
<1> QED BY <1>1, <1>2, <1>3, <1>4, SubscriptionsSend

(* Redis executes a command, and the reply is the last one about its channel.*)
LEMMA SubscriptionsExecute ==
  ASSUME TypeOK, SubscriptionInv, ExecuteCommand
  PROVE  SubscriptionInv'
<1> DEFINE c == Head(commands)
<1> SUFFICES ASSUME NEW o \in Orders
             PROVE  AgreedUnlessAnswering(o)' /\ LastReplyTells(o)'
  BY DEF SubscriptionInv
<1>1. /\ c \in Commands /\ c = commands[1]
      /\ commands' = Tail(commands) /\ commands # <<>>
      /\ subscribed' = IF c.op = "subscribe" THEN subscribed \cup {c.order}
                                             ELSE subscribed \ {c.order}
      /\ replies' = Append(replies, c) /\ UNCHANGED subscriptions
  BY ToSetTail DEF ExecuteCommand, TypeOK, serviceVars
<1>2. /\ ToSet(replies') = ToSet(replies) \cup {c}
      /\ DOMAIN replies = 1..Len(replies) /\ Len(replies) \in Nat
      /\ DOMAIN replies' = 1..(Len(replies) + 1)
      /\ \A i \in DOMAIN replies : replies'[i] = replies[i]
      /\ replies'[Len(replies) + 1] = c
  BY <1>1, AnswerType
<1>3. c.op # "message" /\ c.op \in {"subscribe", "unsubscribe"}
  BY <1>1, ItemTypes
<1> HIDE DEF c
<1>4. CASE c.order = o
  <2>1. RepliesTo(c, o)
    BY <1>3, <1>4 DEF RepliesTo
  <2>2. AgreedUnlessAnswering(o)'
    BY <1>2, <2>1 DEF AgreedUnlessAnswering
  <2>3. ASSUME NEW i \in DOMAIN replies',
               \A j \in DOMAIN replies' : i < j => ~RepliesTo(replies'[j], o)
        PROVE  i = Len(replies) + 1
    BY <1>2, <2>1, <2>3
  <2>4. LastReplyTells(o)'
    BY <1>1, <1>2, <1>3, <1>4, <2>3 DEF LastReplyTells
  <2> QED BY <2>2, <2>4
<1>5. CASE c.order # o
  <2>1. ~RepliesTo(c, o) /\ (o \in subscribed' <=> o \in subscribed)
    BY <1>1, <1>5 DEF RepliesTo
  <2>2. SubscribesAgain(o) => SubscribesAgain(o)'
    <3> SUFFICES ASSUME SubscribesAgain(o) PROVE SubscribesAgain(o)'
      OBVIOUS
    <3>1. PICK i \in DOMAIN commands :
            /\ commands[i] = Subscribe(o)
            /\ \A j \in 1..(i - 1) : commands[j] # Unsubscribe(o)
      BY DEF SubscribesAgain
    <3>2. i # 1
      BY <1>1, <1>5, <3>1 DEF Subscribe
    <3>3. /\ i - 1 \in DOMAIN commands' /\ commands'[i - 1] = commands[i]
          /\ \A j \in DOMAIN commands' : j + 1 \in DOMAIN commands /\ commands'[j] = commands[j + 1]
          /\ DOMAIN commands' = 1..Len(commands') /\ DOMAIN commands = 1..Len(commands)
          /\ Len(commands') \in Nat /\ Len(commands) \in Nat
      BY <1>1, <3>2, ToSetTail, LenProperties DEF TypeOK
    <3>4. \A j \in 1..(i - 1 - 1) : commands'[j] # Unsubscribe(o)
      BY <3>1, <3>3
    <3> QED BY <1>1, <3>1, <3>3, <3>4 DEF SubscribesAgain, Subscribe, Unsubscribe
  <2>3. AgreedUnlessAnswering(o)'
    BY <1>1, <1>2, <2>1, <2>2 DEF SubscriptionInv, AgreedUnlessAnswering
  <2>4. LastReplyTells(o)'
    <3> SUFFICES ASSUME NEW i \in DOMAIN replies', RepliesTo(replies'[i], o),
                        \A j \in DOMAIN replies' : i < j => ~RepliesTo(replies'[j], o)
                 PROVE  replies'[i].op = "subscribe" <=> o \in subscribed'
      BY DEF LastReplyTells, RepliesTo
    <3>1. i \in DOMAIN replies
      BY <1>2, <2>1
    <3>2. \A j \in DOMAIN replies : i < j => ~RepliesTo(replies[j], o)
      BY <1>2
    <3> QED BY <1>2, <2>1, <3>1, <3>2 DEF SubscriptionInv, LastReplyTells, RepliesTo
  <2> QED BY <2>3, <2>4
<1> QED BY <1>4, <1>5

(* A message on its way says nothing about the subscriptions.                *)
LEMMA SubscriptionsPublish ==
  ASSUME TypeOK, SubscriptionInv, NEW p \in Orders, PublishStatusUpdate(p)
  PROVE  SubscriptionInv'
<1> DEFINE m == [op |-> "message", order |-> p, update |-> published[p] + 1]
<1> SUFFICES ASSUME NEW o \in Orders
             PROVE  AgreedUnlessAnswering(o)' /\ LastReplyTells(o)'
  BY DEF SubscriptionInv
<1>1. /\ UNCHANGED <<subscriptions, subscribed, commands>>
      /\ replies' = replies \/ replies' = Append(replies, m)
  BY DEF PublishStatusUpdate, serviceVars
<1>2. CASE replies' = replies
  BY <1>1, <1>2 DEF SubscriptionInv, AgreedUnlessAnswering, LastReplyTells, SubscribesAgain
<1>3. CASE replies' = Append(replies, m)
  <2>1. m \in Commands \cup Messages /\ ~RepliesTo(m, o)
    BY UpdatesAreBounded DEF PublishStatusUpdate, Messages, RepliesTo
  <2> HIDE DEF m
  <2>2. /\ ToSet(replies') = ToSet(replies) \cup {m}
        /\ DOMAIN replies = 1..Len(replies) /\ Len(replies) \in Nat
        /\ DOMAIN replies' = 1..(Len(replies) + 1)
        /\ \A i \in DOMAIN replies : replies'[i] = replies[i]
        /\ replies'[Len(replies) + 1] = m
    BY <1>3, <2>1, AnswerType
  <2>3. AgreedUnlessAnswering(o)'
    BY <1>1, <2>1, <2>2 DEF SubscriptionInv, AgreedUnlessAnswering, SubscribesAgain
  <2>4. LastReplyTells(o)'
    <3> SUFFICES ASSUME NEW i \in DOMAIN replies', RepliesTo(replies'[i], o),
                        \A j \in DOMAIN replies' : i < j => ~RepliesTo(replies'[j], o)
                 PROVE  replies'[i].op = "subscribe" <=> o \in subscribed'
      BY DEF LastReplyTells, RepliesTo
    <3>1. i \in DOMAIN replies
      BY <2>1, <2>2
    <3>2. \A j \in DOMAIN replies : i < j => ~RepliesTo(replies[j], o)
      BY <2>2
    <3> QED BY <1>1, <2>2, <3>1, <3>2 DEF SubscriptionInv, LastReplyTells, RepliesTo
  <2> QED BY <2>3, <2>4
<1> QED BY <1>1, <1>2, <1>3

(* After an outage Redis has no subscription, and whatever the service still *)
(* has in its set comes first.                                               *)
LEMMA SubscriptionsDrop ==
  ASSUME TypeOK, SubscriptionInv, DropConnection
  PROVE  SubscriptionInv'
<1> SUFFICES ASSUME NEW o \in Orders
             PROVE  AgreedUnlessAnswering(o)' /\ LastReplyTells(o)'
  BY DEF SubscriptionInv
<1>1. replies' = <<>> /\ subscribed' = {} /\ UNCHANGED subscriptions
  BY DEF DropConnection, serviceVars
<1>2. PICK q \in Seq(Commands), rest \in Seq(Commands) :
        commands' = q \o rest /\ ToSet(q) = {Subscribe(p) : p \in subscriptions}
  BY OutageSends
<1>3. ASSUME o \in subscriptions
      PROVE  SubscribesAgain(o)'
  <2>1. PICK i \in DOMAIN q : q[i] = Subscribe(o)
    BY <1>2, <1>3 DEF ToSet
  <2>2. i \in DOMAIN commands' /\ \A j \in DOMAIN q : commands'[j] = q[j]
    BY <1>2, ToSetConcat
  <2>3. \A j \in DOMAIN q : q[j] # Unsubscribe(o)
    BY <1>2 DEF ToSet, Subscribe, Unsubscribe
  <2>4. 1..(i - 1) \subseteq DOMAIN q
    BY LenProperties
  <2>5. \A j \in 1..(i - 1) : commands'[j] # Unsubscribe(o)
    BY <2>2, <2>3, <2>4
  <2> QED BY <1>1, <1>3, <2>1, <2>2, <2>5 DEF SubscribesAgain, Subscribe, Unsubscribe
<1>4. LastReplyTells(o)'
  BY <1>1 DEF LastReplyTells
<1> QED BY <1>1, <1>3, <1>4 DEF AgreedUnlessAnswering

(* The set follows the replies; the last one about a channel settles it.     *)
LEMMA SubscriptionsHandle ==
  ASSUME TypeOK, SubscriptionInv, HandleReply
  PROVE  SubscriptionInv'
<1> DEFINE r == Head(replies)
<1> SUFFICES ASSUME NEW o \in Orders
             PROVE  AgreedUnlessAnswering(o)' /\ LastReplyTells(o)'
  BY DEF SubscriptionInv
<1>1. /\ replies # <<>> /\ replies' = Tail(replies) /\ UNCHANGED <<commands, subscribed>>
      /\ subscriptions' = CASE r.op = "subscribe" -> subscriptions \cup {r.order}
                            [] r.op = "unsubscribe" -> subscriptions \ {r.order}
                            [] OTHER -> subscriptions
  BY DEF HandleReply, SubscribeReply, UnsubscribeReply, ForwardMessage
<1>2. /\ r \in Commands \cup Messages
      /\ ToSet(replies) = {r} \cup ToSet(replies')
      /\ 1 \in DOMAIN replies /\ r = replies[1]
      /\ \A i \in DOMAIN replies' : i + 1 \in DOMAIN replies /\ replies'[i] = replies[i + 1]
      /\ \A i \in DOMAIN replies \ {1} : i - 1 \in DOMAIN replies' /\ replies'[i - 1] = replies[i]
      /\ DOMAIN replies \subseteq Nat \ {0} /\ DOMAIN replies' \subseteq Nat \ {0}
  BY <1>1, HandleType
<1>3. r.op = "message" \/ r.op \in {"subscribe", "unsubscribe"}
  BY <1>2, ItemTypes
<1> HIDE DEF r
<1>4. LastReplyTells(o)'
  <2> SUFFICES ASSUME NEW i \in DOMAIN replies', RepliesTo(replies'[i], o),
                      \A j \in DOMAIN replies' : i < j => ~RepliesTo(replies'[j], o)
               PROVE  replies'[i].op = "subscribe" <=> o \in subscribed'
    BY DEF LastReplyTells, RepliesTo
  <2>1. ASSUME NEW j \in DOMAIN replies, i + 1 < j
        PROVE  ~RepliesTo(replies[j], o)
    <3>1. j - 1 \in DOMAIN replies' /\ replies'[j - 1] = replies[j] /\ i < j - 1
      BY <1>2, <2>1
    <3> QED BY <3>1
  <2> QED BY <1>1, <1>2, <2>1 DEF SubscriptionInv, LastReplyTells, RepliesTo
<1>5. CASE RepliesTo(r, o)
  <2>1. (o \in subscriptions') <=> r.op = "subscribe"
    BY <1>1, <1>3, <1>5 DEF RepliesTo
  <2>2. ASSUME \A x \in ToSet(replies') : ~RepliesTo(x, o)
        PROVE  r.op = "subscribe" <=> o \in subscribed
    <3>1. ASSUME NEW j \in DOMAIN replies, 1 < j
          PROVE  ~RepliesTo(replies[j], o)
      BY <1>2, <2>2, <3>1 DEF ToSet
    <3> QED BY <1>2, <1>5, <3>1 DEF SubscriptionInv, LastReplyTells, RepliesTo
  <2> QED BY <1>1, <1>4, <2>1, <2>2 DEF AgreedUnlessAnswering, RepliesTo
<1>6. CASE ~RepliesTo(r, o)
  <2>1. o \in subscriptions' <=> o \in subscriptions
    BY <1>1, <1>3, <1>6 DEF RepliesTo
  <2>2. AgreedUnlessAnswering(o)'
    BY <1>1, <1>2, <1>6, <2>1
       DEF SubscriptionInv, AgreedUnlessAnswering, RepliesTo, SubscribesAgain
  <2> QED BY <1>4, <2>2
<1> QED BY <1>5, <1>6

-----------------------------------------------------------------------------
(* The map and the updates.                                                  *)

(* The sockets and the map: no update moves.                                 *)
LEMMA DeliverySockets ==
  ASSUME TypeOK, DeliveryInv,
         \/ \E s \in Sockets : \/ \E o \in Orders : Connect(s, o)
                               \/ StartClosing(s) \/ CloseEvent(s) \/ ErrorEvent(s)
         \/ CloseAll
  PROVE  DeliveryInv'
<1> USE DEF DeliveryInv
<1>1. UNCHANGED <<received, replies, published>>
  BY DEF Connect, StartClosing, CloseEvent, ErrorEvent, CloseAll, serviceVars, redisVars
<1>2. SocketsKnowTheirOrder' /\ MapHoldsLiveSockets'
  <2>1. ASSUME NEW s \in Sockets, NEW o \in Orders, Connect(s, o)
        PROVE  SocketsKnowTheirOrder' /\ MapHoldsLiveSockets'
    BY <1>1, <2>1 DEF Connect, TypeOK, SocketsKnowTheirOrder, MapHoldsLiveSockets
  <2>2. ASSUME NEW s \in Sockets, StartClosing(s)
        PROVE  SocketsKnowTheirOrder' /\ MapHoldsLiveSockets'
    BY <1>1, <2>2 DEF StartClosing, serviceVars, TypeOK, SocketsKnowTheirOrder, MapHoldsLiveSockets
  <2>3. ASSUME NEW s \in Sockets, CloseEvent(s) \/ ErrorEvent(s)
        PROVE  SocketsKnowTheirOrder' /\ MapHoldsLiveSockets'
    <3>1. /\ target[s] \in Orders /\ UNCHANGED target
          /\ connections' = [connections EXCEPT ![target[s]] = None]
          /\ readyState'[s] \in {"errored", "closed"} /\ readyState[s] # "none"
          /\ \A w \in Sockets : w # s => readyState'[w] = readyState[w]
      BY <2>3 DEF CloseEvent, ErrorEvent, UnregisterConnection, TypeOK, SocketsKnowTheirOrder,
         Closing
    <3>2. SocketsKnowTheirOrder'
      BY <1>1, <3>1 DEF SocketsKnowTheirOrder
    <3>3. \A o \in Orders : connections'[o] # None =>
            o # target[s] /\ connections'[o] = connections[o] /\ connections[o] \in Sockets
      BY <3>1 DEF TypeOK
    <3>4. MapHoldsLiveSockets'
      BY <3>1, <3>3 DEF MapHoldsLiveSockets
    <3> QED BY <3>2, <3>4
  <2>4. CASE CloseAll
    BY <1>1, <2>4 DEF CloseAll, TypeOK, SocketsKnowTheirOrder, MapHoldsLiveSockets
  <2> QED BY <2>1, <2>2, <2>3, <2>4
<1>3. \A s \in Sockets : target'[s] = target[s] \/ received[s] = <<>>
  BY DEF Connect, StartClosing, CloseEvent, ErrorEvent, CloseAll, TypeOK, SocketsKnowTheirOrder
<1>4. MessagesInOrder'
  BY <1>1 DEF MessagesInOrder
<1>5. ReceivedIsOlder'
  BY <1>1, <1>3 DEF ReceivedIsOlder
<1>6. UpdatesInOrder'
  BY <1>1, <1>3 DEF UpdatesInOrder
<1> QED BY <1>2, <1>4, <1>5, <1>6

(* A reply to a command is no update. *)
LEMMA DeliveryExecute ==
  ASSUME TypeOK, DeliveryInv, ExecuteCommand
  PROVE  DeliveryInv'
<1> DEFINE c == Head(commands)
<1> USE DEF DeliveryInv
<1>1. /\ UNCHANGED <<target, readyState, connections, received, published>>
      /\ c \in Commands /\ replies' = Append(replies, c)
  BY ToSetTail DEF ExecuteCommand, TypeOK, socketVars, serviceVars
<1>2. c.op # "message" /\ c \in Commands \cup Messages
  BY <1>1, ItemTypes
<1> HIDE DEF c
<1>3. /\ ToSet(replies') = ToSet(replies) \cup {c}
      /\ DOMAIN replies = 1..Len(replies) /\ Len(replies) \in Nat
      /\ DOMAIN replies' = 1..(Len(replies) + 1)
      /\ \A i \in DOMAIN replies : replies'[i] = replies[i]
      /\ replies'[Len(replies) + 1] = c
  BY <1>1, <1>2, AnswerType
<1>4. MessagesInOrder'
  BY <1>1, <1>2, <1>3 DEF MessagesInOrder, UpdateOf
<1>5. ReceivedIsOlder'
  BY <1>1, <1>2, <1>3 DEF ReceivedIsOlder, UpdateOf
<1> QED BY <1>1, <1>4, <1>5 DEF SocketsKnowTheirOrder, MapHoldsLiveSockets, UpdatesInOrder

(* A new update is newer than all those of its order. *)
LEMMA DeliveryPublish ==
  ASSUME TypeOK, DeliveryInv, NEW p \in Orders, PublishStatusUpdate(p)
  PROVE  DeliveryInv'
<1> DEFINE m == [op |-> "message", order |-> p, update |-> published[p] + 1]
<1> USE DEF DeliveryInv
<1>1. /\ UNCHANGED <<target, readyState, connections, received>>
      /\ published[p] \in Nat /\ published'[p] = published[p] + 1
      /\ \A o \in Orders : o # p => published'[o] = published[o]
      /\ replies' = replies \/ replies' = Append(replies, m)
  BY ServiceAssumption DEF PublishStatusUpdate, TypeOK, socketVars, serviceVars
<1>2. \A o \in Orders : published[o] \in Nat
  BY ServiceAssumption DEF TypeOK
<1>3. UpdatesInOrder'
  <2> SUFFICES ASSUME NEW s \in Sockets, NEW i \in DOMAIN received[s]
               PROVE  received[s][i] <= published'[target[s]]
    BY <1>1 DEF UpdatesInOrder
  <2>1. target[s] \in Orders
    BY DEF SocketsKnowTheirOrder
  <2>2. received[s][i] \in Nat
    BY ReceivedType
  <2> QED BY <1>1, <1>2, <2>1, <2>2 DEF UpdatesInOrder
<1>4. MessagesInOrder' /\ ReceivedIsOlder'
  <2>0. \A i \in DOMAIN replies : replies[i].op = "message" =>
          /\ replies[i].order \in Orders /\ replies[i].update \in Nat
          /\ replies[i].update <= published'[replies[i].order]
    <3> SUFFICES ASSUME NEW i \in DOMAIN replies, replies[i].op = "message"
                 PROVE  /\ replies[i].order \in Orders /\ replies[i].update \in Nat
                        /\ replies[i].update <= published'[replies[i].order]
      OBVIOUS
    <3>1. replies[i] \in Messages
      BY ElementOfSeq, LenProperties, ItemTypes DEF TypeOK
    <3>2. replies[i].order \in Orders /\ replies[i].update \in Nat
      BY <3>1, ItemTypes
    <3> QED BY <1>1, <1>2, <3>2 DEF MessagesInOrder
  <2>1. CASE replies' = replies
    BY <1>1, <2>0, <2>1 DEF MessagesInOrder, ReceivedIsOlder
  <2>2. CASE replies' = Append(replies, m)
    <3>1. /\ m \in Commands \cup Messages
          /\ m.op = "message" /\ m.order = p /\ m.update = published[p] + 1
      BY UpdatesAreBounded DEF PublishStatusUpdate, Messages
    <3> HIDE DEF m
    <3>2. /\ ToSet(replies') = ToSet(replies) \cup {m}
          /\ DOMAIN replies = 1..Len(replies) /\ Len(replies) \in Nat
          /\ DOMAIN replies' = 1..(Len(replies) + 1)
          /\ \A i \in DOMAIN replies : replies'[i] = replies[i]
          /\ replies'[Len(replies) + 1] = m
      BY <2>2, <3>1, AnswerType
    <3>3. MessagesInOrder'
      <4> SUFFICES ASSUME NEW i \in DOMAIN replies', replies'[i].op = "message"
                   PROVE  /\ replies'[i].update <= published'[replies'[i].order]
                          /\ \A j \in DOMAIN replies' :
                               i < j /\ UpdateOf(replies'[j], replies'[i].order)
                                 => replies'[i].update < replies'[j].update
        BY DEF MessagesInOrder, UpdateOf
      <4>1. CASE i = Len(replies) + 1
        BY <1>1, <3>1, <3>2, <4>1
      <4>2. CASE i \in DOMAIN replies
        <5>1. ASSUME NEW j \in DOMAIN replies', i < j, UpdateOf(replies'[j], replies'[i].order)
              PROVE  replies'[i].update < replies'[j].update
          <6>1. CASE j \in DOMAIN replies
            BY <3>2, <4>2, <5>1, <6>1 DEF MessagesInOrder, UpdateOf
          <6>2. CASE j = Len(replies) + 1
            <7>1. replies[i].order = p /\ replies'[j].update = published[p] + 1
              BY <3>1, <3>2, <4>2, <5>1, <6>2 DEF UpdateOf
            <7>2. replies[i].update <= published[p]
              BY <3>2, <4>2, <7>1 DEF MessagesInOrder
            <7> QED BY <1>1, <2>0, <3>2, <4>2, <7>1, <7>2
          <6> QED BY <3>2, <6>1, <6>2
        <5> QED BY <2>0, <3>2, <4>2, <5>1
      <4> QED BY <3>2, <4>1, <4>2
    <3>4. ReceivedIsOlder'
      <4> SUFFICES ASSUME NEW s \in Sockets, NEW n \in DOMAIN received[s],
                          NEW r \in ToSet(replies'), UpdateOf(r, target[s])
                   PROVE  received[s][n] < r.update
        BY <1>1 DEF ReceivedIsOlder
      <4>1. CASE r \in ToSet(replies)
        BY <4>1 DEF ReceivedIsOlder
      <4>2. CASE r = m
        <5>1. received[s][n] <= published[p] /\ target[s] = p
          BY <3>1, <4>2 DEF UpdatesInOrder, UpdateOf
        <5>2. received[s][n] \in Nat
          BY ReceivedType
        <5> QED BY <1>1, <3>1, <4>2, <5>1, <5>2
      <4> QED BY <3>2, <4>1, <4>2
    <3> QED BY <3>3, <3>4
  <2> QED BY <1>1, <2>1, <2>2
<1> QED BY <1>1, <1>3, <1>4 DEF SocketsKnowTheirOrder, MapHoldsLiveSockets

(* An outage loses what was on its way. *)
LEMMA DeliveryDrop ==
  ASSUME TypeOK, DeliveryInv, DropConnection
  PROVE  DeliveryInv'
<1>1. /\ UNCHANGED <<target, readyState, connections, received, published>>
      /\ replies' = <<>>
  BY DEF DropConnection, socketVars, serviceVars
<1>2. ToSet(replies') = {} /\ DOMAIN replies' = {}
  BY <1>1 DEF ToSet
<1> QED BY <1>1, <1>2 DEF DeliveryInv, SocketsKnowTheirOrder, MapHoldsLiveSockets,
        UpdatesInOrder, MessagesInOrder, ReceivedIsOlder

(* The handled message, if any, is the oldest of its order, and the socket in*)
(* the map got nothing newer.                                                *)
LEMMA DeliveryHandle ==
  ASSUME TypeOK, DeliveryInv, HandleReply
  PROVE  DeliveryInv'
<1> DEFINE r == Head(replies)
           w == connections[r.order]
<1> USE DEF DeliveryInv
<1>1. /\ replies # <<>> /\ replies' = Tail(replies)
      /\ UNCHANGED <<target, readyState, connections, published>>
      /\ \/ received' = received
         \/ /\ r.op = "message" /\ w # None
            /\ received' = [received EXCEPT ![w] = Append(@, r.update)]
  BY DEF HandleReply, SubscribeReply, UnsubscribeReply, ForwardMessage, socketVars
<1>2. /\ r \in Commands \cup Messages
      /\ ToSet(replies) = {r} \cup ToSet(replies')
      /\ 1 \in DOMAIN replies /\ r = replies[1]
      /\ \A i \in DOMAIN replies' : i + 1 \in DOMAIN replies /\ replies'[i] = replies[i + 1]
      /\ DOMAIN replies \subseteq Nat \ {0} /\ DOMAIN replies' \subseteq Nat \ {0}
  BY <1>1, HandleType
<1>3. MessagesInOrder'
  <2> SUFFICES ASSUME NEW i \in DOMAIN replies', replies'[i].op = "message"
               PROVE  /\ replies'[i].update <= published[replies'[i].order]
                      /\ \A j \in DOMAIN replies' :
                           i < j /\ UpdateOf(replies'[j], replies'[i].order)
                             => replies'[i].update < replies'[j].update
    BY <1>1 DEF MessagesInOrder, UpdateOf
  <2>1. \A j \in DOMAIN replies' : i < j => i + 1 < j + 1
    BY <1>2
  <2> QED BY <1>2, <2>1 DEF MessagesInOrder
<1>4. CASE received' = received
  BY <1>1, <1>2, <1>3, <1>4
     DEF SocketsKnowTheirOrder, MapHoldsLiveSockets, UpdatesInOrder, ReceivedIsOlder
<1>5. ASSUME r.op = "message", w # None,
             received' = [received EXCEPT ![w] = Append(@, r.update)]
      PROVE  DeliveryInv'
  <2>1. /\ r \in Messages /\ r.order \in Orders /\ r.update \in 1..MaxUpdates
        /\ r.update \in Nat
    BY <1>2, <1>5, ItemTypes, ServiceAssumption
  <2>2. /\ w \in Sockets /\ target[w] = r.order /\ readyState[w] # "none"
    BY <1>5, <2>1 DEF TypeOK, MapHoldsLiveSockets
  <2> DEFINE old == received[w]
             new == Append(old, r.update)
  <2>3. /\ \A s \in Sockets : s # w => received'[s] = received[s]
        /\ received'[w] = new
    BY <1>5, <2>2 DEF TypeOK
  <2> HIDE DEF w
  <2>4. /\ DOMAIN old = 1..Len(old) /\ Len(old) \in Nat
        /\ DOMAIN new = 1..(Len(old) + 1)
        /\ \A i \in DOMAIN old : new[i] = old[i] /\ old[i] \in Nat
        /\ new[Len(old) + 1] = r.update
    BY <2>1, <2>2, ReceivedType, ToSetAppend
  <2>5. UpdateOf(r, target[w]) /\ r \in ToSet(replies)
    BY <1>2, <1>5, <2>2 DEF UpdateOf
  <2>6. \A i \in DOMAIN old : old[i] < r.update
    BY <2>2, <2>5 DEF ReceivedIsOlder
  <2>7. r.update <= published[target[w]]
    BY <1>2, <1>5, <2>2 DEF MessagesInOrder
  <2> HIDE DEF new, old, r
  <2>8. UpdatesInOrder'
    <3>1. \A i, j \in DOMAIN old : i < j => old[i] < old[j]
      BY <2>2 DEF UpdatesInOrder, old
    <3>2. \A i \in DOMAIN old : old[i] <= published[target[w]]
      BY <2>2 DEF UpdatesInOrder, old
    <3>3. \A i, j \in DOMAIN new : i < j => new[i] < new[j]
      BY <2>4, <2>6, <3>1
    <3>4. \A i \in DOMAIN new : new[i] <= published[target[w]]
      BY <2>4, <2>7, <3>2
    <3> QED BY <1>1, <2>3, <3>3, <3>4 DEF UpdatesInOrder
  <2>9. ReceivedIsOlder'
    <3> SUFFICES ASSUME NEW s \in Sockets, NEW n \in DOMAIN received'[s],
                        NEW x \in ToSet(replies'), UpdateOf(x, target[s])
                 PROVE  received'[s][n] < x.update
      BY <1>1 DEF ReceivedIsOlder
    <3>1. x \in ToSet(replies)
      BY <1>2
    <3>2. CASE s # w \/ n \in DOMAIN old
      BY <2>3, <2>4, <3>1, <3>2 DEF ReceivedIsOlder, old
    <3>3. CASE s = w /\ n = Len(old) + 1
      <4>1. PICK j \in DOMAIN replies' : x = replies'[j]
        BY DEF ToSet
      <4>2. /\ j + 1 \in DOMAIN replies /\ 1 < j + 1
            /\ UpdateOf(replies[j + 1], replies[1].order)
        BY <1>2, <2>2, <3>3, <4>1
      <4>3. replies[1].update < replies[j + 1].update
        BY <1>2, <1>5, <4>2 DEF MessagesInOrder
      <4> QED BY <1>2, <2>3, <2>4, <3>3, <4>1, <4>3
    <3> QED BY <2>3, <2>4, <3>2, <3>3
  <2>10. SocketsKnowTheirOrder' /\ MapHoldsLiveSockets'
    BY <1>1, <2>2, <2>3 DEF SocketsKnowTheirOrder, MapHoldsLiveSockets
  <2> QED BY <1>3, <2>8, <2>9, <2>10
<1> QED BY <1>1, <1>4, <1>5

-----------------------------------------------------------------------------
(* The only connection of an order.                                          *)

(* The first connection of an order subscribes, and nothing was sent before. *)
LEMMA SoleConnect ==
  ASSUME TypeOK, DeliveryInv, SoleInv, NEW s \in Sockets, NEW o \in Orders, Connect(s, o)
  PROVE  SoleInv'
<1>1. /\ target[s] = None /\ received[s] = <<>> /\ o # None
      /\ target'[s] = o /\ readyState'[s] = "open"
      /\ \A w \in Sockets : w # s => target'[w] = target[w] /\ readyState'[w] = readyState[w]
      /\ connections'[o] = s
      /\ \A p \in Orders : p # o => connections'[p] = connections[p]
      /\ UNCHANGED <<subscriptions, received, replies, subscribed, published, outage>>
  BY ServiceAssumption DEF Connect, TypeOK, DeliveryInv, SocketsKnowTheirOrder, redisVars
<1>2. /\ ToSet(commands') = IF o \in subscriptions THEN ToSet(commands)
                                                    ELSE ToSet(commands) \cup {Subscribe(o)}
  BY ItemTypes, SendType DEF Connect
<1>3. NothingOfUnwatched'
  <2> SUFFICES ASSUME NEW p \in Orders, \A w \in Sockets : target'[w] # p
               PROVE  /\ p \notin subscriptions /\ p \notin subscribed
                      /\ \A x \in ToSet(commands') \cup ToSet(replies) : x.order # p
    BY <1>1 DEF NothingOfUnwatched
  <2>1. p # o /\ \A w \in Sockets : target[w] # p
    BY <1>1, ServiceAssumption
  <2> QED BY <1>2, <2>1 DEF SoleInv, NothingOfUnwatched, Subscribe
<1>4. ASSUME SoleConnection(s)'
      PROVE  SoleIsServed(s)' /\ SoleMissesNothing(s)'
  <2>1. \A w \in Sockets : target[w] # o
    BY <1>1, <1>4 DEF SoleConnection
  <2>2. /\ o \notin subscriptions /\ o \notin subscribed
        /\ \A x \in ToSet(commands) \cup ToSet(replies) : x.order # o
    BY <2>1 DEF SoleInv, NothingOfUnwatched
  <2>3. SoleIsServed(s)'
    BY <1>1, <1>2, <2>2 DEF SoleIsServed, Subscribe, Unsubscribe
  <2>4. SoleMissesNothing(s)'
    <3>1. ToSet(received'[s]) = {}
      BY <1>1 DEF ToSet
    <3>2. OnTheirWay(o)' = {}
      BY <1>1, <2>2 DEF OnTheirWay
    <3> QED BY <1>1, <3>1, <3>2 DEF SoleMissesNothing
  <2> QED BY <2>3, <2>4
<1>5. ASSUME NEW w \in Sockets, w # s, SoleConnection(w)'
      PROVE  SoleIsServed(w)' /\ SoleMissesNothing(w)'
  <2>1. target[w] # o /\ target[w] \in Orders /\ target'[w] = target[w]
    BY <1>1, <1>5 DEF SoleConnection, DeliveryInv, SocketsKnowTheirOrder
  <2>2. SoleConnection(w)
    BY <1>1, <1>5, <2>1, ServiceAssumption DEF SoleConnection
  <2>3. SoleIsServed(w) /\ SoleMissesNothing(w)
    BY <2>2 DEF SoleInv
  <2>4. SoleIsServed(w)'
    BY <1>1, <1>2, <2>1, <2>3 DEF SoleIsServed, Subscribe, Unsubscribe
  <2>5. SoleMissesNothing(w)'
    BY <1>1, <2>1, <2>3 DEF SoleMissesNothing, OnTheirWay
  <2> QED BY <2>4, <2>5
<1> QED BY <1>3, <1>4, <1>5 DEF SoleInv

(* A socket that closes is not open, and concerns no other order.            *)
LEMMA SoleClose ==
  ASSUME TypeOK, DeliveryInv, SoleInv, NEW s \in Sockets,
         StartClosing(s) \/ CloseEvent(s) \/ ErrorEvent(s)
  PROVE  SoleInv'
<1>1. /\ target[s] \in Orders /\ readyState'[s] # "open"
      /\ \A w \in Sockets : w # s => readyState'[w] = readyState[w]
      /\ \A p \in Orders : p # target[s] => connections'[p] = connections[p]
      /\ UNCHANGED <<target, subscriptions, received, replies, subscribed, published, outage>>
      /\ commands' = commands \/ commands' = Append(commands, Unsubscribe(target[s]))
  BY DEF StartClosing, CloseEvent, ErrorEvent, UnregisterConnection, TypeOK, DeliveryInv,
     SocketsKnowTheirOrder, redisVars, serviceVars, Closing
<1>2. /\ ToSet(commands) \subseteq ToSet(commands')
      /\ ToSet(commands') \subseteq ToSet(commands) \cup {Unsubscribe(target[s])}
  BY <1>1, ItemTypes, SendType
<1>3. NothingOfUnwatched'
  BY <1>1, <1>2 DEF SoleInv, NothingOfUnwatched, Unsubscribe
<1>4. ASSUME NEW w \in Sockets, SoleConnection(w)'
      PROVE  SoleIsServed(w)' /\ SoleMissesNothing(w)'
  <2>1. w # s /\ SoleConnection(w) /\ target[w] # target[s] /\ target[w] \in Orders
    BY <1>1, <1>4 DEF SoleConnection, DeliveryInv, SocketsKnowTheirOrder
  <2>2. SoleIsServed(w) /\ SoleMissesNothing(w)
    BY <2>1 DEF SoleInv
  <2>3. SoleIsServed(w)'
    BY <1>1, <1>2, <2>1, <2>2 DEF SoleIsServed, Subscribe, Unsubscribe
  <2>4. SoleMissesNothing(w)'
    BY <1>1, <2>1, <2>2 DEF SoleMissesNothing, OnTheirWay
  <2> QED BY <2>3, <2>4
<1> QED BY <1>3, <1>4 DEF SoleInv

(* closeAll closes every only connection, because the map has it.            *)
LEMMA SoleCloseAll ==
  ASSUME TypeOK, DeliveryInv, SoleInv, CloseAll
  PROVE  SoleInv'
<1>1. UNCHANGED <<target, subscriptions, received, replies, subscribed, published, outage>>
  BY DEF CloseAll, redisVars
<1>2. PICK q \in Seq(Commands) :
        /\ commands' = commands \o q
        /\ \A c \in ToSet(q) : \E o \in Orders : c = Unsubscribe(o) /\ connections[o] # None
  BY CloseAllSends
<1>3. ToSet(commands') = ToSet(commands) \cup ToSet(q)
  BY <1>2, ToSetConcat DEF TypeOK
<1>4. \A o \in Orders : connections[o] # None =>
        connections[o] \in Sockets /\ target[connections[o]] = o
  BY DEF TypeOK, DeliveryInv, MapHoldsLiveSockets
<1>5. NothingOfUnwatched'
  <2> SUFFICES ASSUME NEW p \in Orders, \A w \in Sockets : target[w] # p
               PROVE  /\ p \notin subscriptions /\ p \notin subscribed
                      /\ \A x \in ToSet(commands') \cup ToSet(replies) : x.order # p
    BY <1>1 DEF NothingOfUnwatched
  <2>1. \A c \in ToSet(q) : c.order # p
    BY <1>2, <1>4 DEF Unsubscribe
  <2> QED BY <1>3, <2>1 DEF SoleInv, NothingOfUnwatched
<1>6. ASSUME NEW w \in Sockets, SoleConnection(w)'
      PROVE  FALSE
  <2>1. readyState[w] = "open" /\ SoleConnection(w) /\ target[w] \in Orders
    BY <1>1, <1>6 DEF CloseAll, SoleConnection, DeliveryInv, SocketsKnowTheirOrder
  <2>2. connections[target[w]] = w /\ w # None
    BY <2>1, ServiceAssumption DEF SoleInv, SoleIsServed
  <2>3. readyState'[w] = "closing"
    BY <2>1, <2>2 DEF CloseAll
  <2> QED BY <1>6, <2>3 DEF SoleConnection
<1> QED BY <1>5, <1>6 DEF SoleInv

(* Redis executes no UNSUBSCRIBE of the order.                               *)
LEMMA SoleExecute ==
  ASSUME TypeOK, DeliveryInv, SoleInv, ExecuteCommand
  PROVE  SoleInv'
<1> DEFINE c == Head(commands)
<1>1. /\ UNCHANGED <<target, readyState, connections, subscriptions, received, published, outage>>
      /\ c \in Commands /\ c \in Commands \cup Messages
      /\ replies' = Append(replies, c)
      /\ ToSet(commands) = {c} \cup ToSet(commands')
      /\ subscribed' = IF c.op = "subscribe" THEN subscribed \cup {c.order}
                                             ELSE subscribed \ {c.order}
  BY ToSetTail DEF ExecuteCommand, TypeOK, socketVars, serviceVars
<1>2. /\ c.op \in {"subscribe", "unsubscribe"} /\ c.order \in Orders
      /\ c.op = "subscribe" => c = Subscribe(c.order)
      /\ c.op = "unsubscribe" => c = Unsubscribe(c.order)
  BY <1>1, ItemTypes
<1> HIDE DEF c
<1>3. ToSet(replies') = ToSet(replies) \cup {c}
  BY <1>1, AnswerType
<1>4. NothingOfUnwatched'
  BY <1>1, <1>3 DEF SoleInv, NothingOfUnwatched
<1>5. ASSUME NEW w \in Sockets, SoleConnection(w)'
      PROVE  SoleIsServed(w)' /\ SoleMissesNothing(w)'
  <2>1. SoleConnection(w) /\ target'[w] = target[w]
    BY <1>1, <1>5 DEF SoleConnection
  <2>2. SoleIsServed(w) /\ SoleMissesNothing(w)
    BY <2>1 DEF SoleInv
  <2>3. c # Unsubscribe(target[w])
    BY <1>1, <2>2 DEF SoleIsServed
  <2>4. /\ target[w] \in subscribed => target[w] \in subscribed'
        /\ c = Subscribe(target[w]) => target[w] \in subscribed'
    BY <1>1, <1>2, <2>3 DEF Subscribe
  <2>5. SoleIsServed(w)'
    BY <1>1, <1>3, <2>2, <2>4 DEF SoleIsServed, Subscribe, Unsubscribe
  <2>6. OnTheirWay(target[w])' = OnTheirWay(target[w])
    BY <1>1, <1>2, <1>3 DEF OnTheirWay
  <2>7. SoleMissesNothing(w)'
    BY <1>1, <2>1, <2>2, <2>4, <2>6 DEF SoleMissesNothing
  <2> QED BY <2>5, <2>7
<1> QED BY <1>4, <1>5 DEF SoleInv

(* A new update extends what the only connection got, or will get.           *)
LEMMA SolePublish ==
  ASSUME TypeOK, DeliveryInv, SoleInv, NEW p \in Orders, PublishStatusUpdate(p)
  PROVE  SoleInv'
<1> DEFINE m == [op |-> "message", order |-> p, update |-> published[p] + 1]
<1>1. /\ UNCHANGED <<target, readyState, connections, subscriptions, received, commands,
                     subscribed, outage>>
      /\ published[p] \in Nat /\ published'[p] = published[p] + 1
      /\ \A o \in Orders : o # p => published'[o] = published[o]
      /\ replies' = IF p \in subscribed THEN Append(replies, m) ELSE replies
  BY ServiceAssumption DEF PublishStatusUpdate, TypeOK, socketVars, serviceVars
<1>2. /\ m \in Commands \cup Messages
      /\ m.op = "message" /\ m.order = p /\ m.update = published[p] + 1
  BY UpdatesAreBounded DEF PublishStatusUpdate, Messages
<1> HIDE DEF m
<1>3. ToSet(replies') = IF p \in subscribed THEN ToSet(replies) \cup {m} ELSE ToSet(replies)
  BY <1>1, <1>2, AnswerType
<1>4. NothingOfUnwatched'
  BY <1>1, <1>2, <1>3 DEF SoleInv, NothingOfUnwatched
<1>5. ASSUME NEW w \in Sockets, SoleConnection(w)'
      PROVE  SoleIsServed(w)' /\ SoleMissesNothing(w)'
  <2> DEFINE o == target[w]
             updates == ToSet(received[w]) \cup OnTheirWay(o)
  <2>1. SoleConnection(w) /\ target'[w] = o /\ o \in Orders
    BY <1>1, <1>5 DEF SoleConnection, DeliveryInv, SocketsKnowTheirOrder
  <2>2. SoleIsServed(w) /\ SoleMissesNothing(w)
    BY <2>1 DEF SoleInv
  <2>3. SoleIsServed(w)'
    BY <1>1, <1>2, <1>3, <2>2 DEF SoleIsServed, Subscribe, Unsubscribe
  <2>4. OnTheirWay(o)' = IF p = o /\ p \in subscribed THEN OnTheirWay(o) \cup {published[o] + 1}
                                                     ELSE OnTheirWay(o)
    BY <1>1, <1>2, <1>3 DEF OnTheirWay
  <2>5. \A u \in updates : u \in Nat
    <3>1. \A u \in ToSet(received[w]) : u \in Nat
      BY ReceivedType DEF ToSet
    <3>2. \A u \in OnTheirWay(o) : u \in Nat
      <4>1. \A r \in ToSet(replies) : r.op = "message" => r.update \in Nat
        BY ElementOfSeq, LenProperties, ItemTypes, ServiceAssumption DEF TypeOK, ToSet
      <4> QED BY <4>1 DEF OnTheirWay
    <3> QED BY <3>1, <3>2
  <2>6. SoleMissesNothing(w)'
    <3> SUFFICES ASSUME outage = None
                 PROVE  LET new == ToSet(received[w]) \cup OnTheirWay(o)'
                        IN /\ o \notin subscribed => new = {}
                           /\ \A u \in new : u..published'[o] \subseteq new
      BY <1>1, <2>1 DEF SoleMissesNothing
    <3>1. /\ o \notin subscribed => updates = {}
          /\ \A u \in updates : u..published[o] \subseteq updates
      BY <2>2 DEF SoleMissesNothing
    <3> HIDE DEF updates
    <3>2. CASE p = o /\ p \in subscribed
      <4> DEFINE new == updates \cup {published[o] + 1}
      <4>1. ToSet(received[w]) \cup OnTheirWay(o)' = new
        BY <2>4, <3>2 DEF updates
      <4>2. \A u \in new : u..(published[o] + 1) \subseteq new
        BY <1>1, <2>5, <3>1, <3>2
      <4> HIDE DEF new
      <4> QED BY <1>1, <3>2, <4>1, <4>2
    <3>3. CASE ~(p = o /\ p \in subscribed)
      <4>1. ToSet(received[w]) \cup OnTheirWay(o)' = updates
        BY <2>4, <3>3 DEF updates
      <4>2. o \in subscribed => published'[o] = published[o]
        BY <1>1, <2>1, <3>3
      <4> QED BY <3>1, <4>1, <4>2
    <3> QED BY <3>2, <3>3
  <2> QED BY <2>3, <2>6
<1> QED BY <1>4, <1>5 DEF SoleInv

(* After an outage that rejected nothing, the subscription is there again or *)
(* under way, whichever side knew of it.                                     *)
LEMMA SoleDrop ==
  ASSUME TypeOK, DeliveryInv, SoleInv, DropConnection
  PROVE  SoleInv'
<1>1. /\ UNCHANGED <<target, readyState, connections, subscriptions, received, published>>
      /\ outage = None /\ outage' \in Outages /\ subscribed' = {} /\ replies' = <<>>
  BY DEF DropConnection, socketVars, serviceVars
<1>2. outage' \in {"resent", "rejected"} /\ outage' # None /\ outage # "rejected"
  BY <1>1, ServiceAssumption DEF OutageKinds
<1>3. PICK q \in Seq(Commands), rest \in Seq(Commands) :
        /\ commands' = q \o rest
        /\ ToSet(q) = {Subscribe(o) : o \in subscriptions}
        /\ ToSet(rest) \subseteq ToSet(commands) \cup ToSet(replies)
        /\ outage' = "resent" =>
             \A r \in ToSet(commands) \cup ToSet(replies) :
               r.op # "message" => r \in ToSet(rest)
  BY OutageSends
<1>4. /\ ToSet(commands') = {Subscribe(o) : o \in subscriptions} \cup ToSet(rest)
      /\ ToSet(replies') = {}
  <2>1. ToSet(commands') = ToSet(q) \cup ToSet(rest)
    BY <1>3, ToSetConcat
  <2>2. ToSet(replies') = {}
    BY <1>1 DEF ToSet
  <2> QED BY <1>3, <2>1, <2>2
<1>5. NothingOfUnwatched'
  <2> SUFFICES ASSUME NEW p \in Orders, \A w \in Sockets : target[w] # p
               PROVE  /\ p \notin subscriptions
                      /\ \A x \in ToSet(commands') : x.order # p
    BY <1>1, <1>4 DEF NothingOfUnwatched
  <2>1. /\ p \notin subscriptions
        /\ \A x \in ToSet(commands) \cup ToSet(replies) : x.order # p
    BY DEF SoleInv, NothingOfUnwatched
  <2> QED BY <1>3, <1>4, <2>1 DEF Subscribe
<1>6. ASSUME NEW w \in Sockets, SoleConnection(w)'
      PROVE  SoleIsServed(w)' /\ SoleMissesNothing(w)'
  <2>1. SoleConnection(w) /\ target'[w] = target[w]
    BY <1>1, <1>6 DEF SoleConnection
  <2>2. SoleIsServed(w)
    BY <2>1 DEF SoleInv
  <2>3. Unsubscribe(target[w]) \notin ToSet(commands') \cup ToSet(replies')
    BY <1>3, <1>4, <2>2 DEF SoleIsServed, Subscribe, Unsubscribe
  <2>4. ASSUME outage' # "rejected"
        PROVE  Subscribe(target[w]) \in ToSet(commands')
    BY <1>2, <1>3, <1>4, <2>2, <2>4 DEF SoleIsServed, Subscribe
  <2>5. SoleIsServed(w)'
    BY <1>1, <2>1, <2>2, <2>3, <2>4 DEF SoleIsServed, Subscribe, Unsubscribe
  <2>6. SoleMissesNothing(w)'
    BY <1>2 DEF SoleMissesNothing
  <2> QED BY <2>5, <2>6
<1> QED BY <1>5, <1>6 DEF SoleInv

(* The reply to the SUBSCRIBE puts the channel in the set; an update moves   *)
(* from the replies to the only connection, which the map has.               *)
LEMMA SoleHandle ==
  ASSUME TypeOK, DeliveryInv, SoleInv, HandleReply
  PROVE  SoleInv'
<1> DEFINE r == Head(replies)
           s == connections[r.order]
<1>1. /\ replies # <<>> /\ replies' = Tail(replies)
      /\ UNCHANGED <<target, readyState, connections, commands, subscribed, published, outage>>
      /\ subscriptions' = CASE r.op = "subscribe" -> subscriptions \cup {r.order}
                            [] r.op = "unsubscribe" -> subscriptions \ {r.order}
                            [] OTHER -> subscriptions
      /\ received' = IF r.op = "message" /\ s # None /\ readyState[s] = "open"
                       THEN [received EXCEPT ![s] = Append(@, r.update)]
                       ELSE received
  BY DEF HandleReply, SubscribeReply, UnsubscribeReply, ForwardMessage, socketVars
<1>2. /\ r \in Commands \cup Messages
      /\ ToSet(replies) = {r} \cup ToSet(replies')
  BY <1>1, HandleType
<1>3. /\ r.op = "message" => r \in Messages /\ r.update \in 1..MaxUpdates
      /\ r.op # "message" => /\ r.op \in {"subscribe", "unsubscribe"}
                             /\ r.op = "subscribe" => r = Subscribe(r.order)
                             /\ r.op = "unsubscribe" => r = Unsubscribe(r.order)
      /\ r.order \in Orders
  BY <1>2, ItemTypes
<1>4. s # None => s \in Sockets /\ target[s] = r.order
  BY <1>3 DEF TypeOK, DeliveryInv, MapHoldsLiveSockets
<1> HIDE DEF r, s
<1>5. NothingOfUnwatched'
  <2> SUFFICES ASSUME NEW p \in Orders, \A w \in Sockets : target[w] # p
               PROVE  /\ p \notin subscriptions' /\ p \notin subscribed
                      /\ \A x \in ToSet(commands) \cup ToSet(replies') : x.order # p
    BY <1>1 DEF NothingOfUnwatched
  <2>1. /\ p \notin subscriptions /\ p \notin subscribed
        /\ \A x \in ToSet(commands) \cup ToSet(replies) : x.order # p
    BY DEF SoleInv, NothingOfUnwatched
  <2>2. r.order # p
    BY <1>2, <2>1
  <2> QED BY <1>1, <1>2, <1>3, <2>1, <2>2
<1>6. ASSUME NEW w \in Sockets, SoleConnection(w)'
      PROVE  SoleIsServed(w)' /\ SoleMissesNothing(w)'
  <2>0. PICK o \in Orders : o = target[w]
    BY <1>1, <1>6 DEF SoleConnection, DeliveryInv, SocketsKnowTheirOrder
  <2>1. SoleConnection(w) /\ target'[w] = o /\ readyState[w] = "open"
    BY <1>1, <1>6, <2>0 DEF SoleConnection
  <2>2. SoleIsServed(w) /\ SoleMissesNothing(w) /\ connections[o] = w
    BY <2>0, <2>1 DEF SoleInv, SoleIsServed
  <2>3. r # Unsubscribe(o)
    BY <1>2, <2>0, <2>2 DEF SoleIsServed
  <2>4. /\ o \in subscriptions => o \in subscriptions'
        /\ r = Subscribe(o) => o \in subscriptions'
    BY <1>1, <1>3, <2>3 DEF Subscribe
  <2>5. SoleIsServed(w)'
    <3>1. Unsubscribe(o) \notin ToSet(commands) \cup ToSet(replies')
      BY <1>2, <2>0, <2>2 DEF SoleIsServed
    <3>2. ASSUME outage # "rejected"
          PROVE  /\ o \in subscribed \/ Subscribe(o) \in ToSet(commands)
                 /\ o \in subscriptions' \/ Subscribe(o) \in ToSet(commands) \cup ToSet(replies')
      BY <1>2, <2>0, <2>2, <2>4, <3>2 DEF SoleIsServed
    <3> QED BY <1>1, <2>1, <2>2, <3>1, <3>2 DEF SoleIsServed, Subscribe, Unsubscribe
  <2>6. ToSet(received'[w]) \cup OnTheirWay(o)' = ToSet(received[w]) \cup OnTheirWay(o)
    <3>1. CASE r.op = "message" /\ r.order = o
      <4>1. s = w /\ s # None
        BY <2>1, <2>2, <3>1, ServiceAssumption DEF s
      <4>2. received'[w] = Append(received[w], r.update)
        BY <1>1, <2>1, <3>1, <4>1 DEF TypeOK
      <4>3. ToSet(received'[w]) = ToSet(received[w]) \cup {r.update}
        <5> DEFINE U == 1..MaxUpdates
        <5>1. received[w] \in Seq(U) /\ r.update \in U
          BY <1>3, <3>1, ReceivedType
        <5> HIDE DEF U
        <5>2. ToSet(Append(received[w], r.update)) = ToSet(received[w]) \cup {r.update}
          BY <5>1, ToSetAppend
        <5> QED BY <4>2, <5>2
      <4>4. OnTheirWay(o) = OnTheirWay(o)' \cup {r.update}
        BY <1>2, <3>1 DEF OnTheirWay
      <4> QED BY <4>3, <4>4
    <3>2. CASE ~(r.op = "message" /\ r.order = o)
      <4>1. received'[w] = received[w]
        BY <1>1, <1>4, <2>0, <3>2 DEF TypeOK
      <4>2. OnTheirWay(o)' = OnTheirWay(o)
        BY <1>2, <3>2 DEF OnTheirWay
      <4> QED BY <4>1, <4>2
    <3> QED BY <3>1, <3>2
  <2>7. SoleMissesNothing(w)'
    BY <1>1, <2>0, <2>1, <2>2, <2>6 DEF SoleMissesNothing
  <2> QED BY <2>5, <2>7
<1> QED BY <1>5, <1>6 DEF SoleInv

-----------------------------------------------------------------------------
(* The invariant and what it gives. *)

(* Before the first connection nothing is on its way. *)
LEMMA ServiceInit ==
  ASSUME Init
  PROVE  ServiceInv
<1>1. TypeOK
  <2>1. \A S : <<>> \in Seq(S)
    BY EmptySeq
  <2> QED BY <2>1, ServiceAssumption DEF Init, TypeOK, ReadyStates
<1>2. /\ ToSet(replies) = {} /\ ToSet(commands) = {}
      /\ DOMAIN replies = {} /\ DOMAIN commands = {}
      /\ \A s \in Sockets : DOMAIN received[s] = {}
  BY DEF Init, ToSet
<1>3. SubscriptionInv
  BY <1>2 DEF Init, SubscriptionInv, AgreedUnlessAnswering, LastReplyTells
<1>4. DeliveryInv
  BY <1>2 DEF Init, DeliveryInv, SocketsKnowTheirOrder, MapHoldsLiveSockets,
              MessagesInOrder, ReceivedIsOlder, UpdatesInOrder
<1>5. SoleInv
  BY <1>2 DEF Init, SoleInv, NothingOfUnwatched, SoleConnection
<1> QED BY <1>1, <1>3, <1>4, <1>5 DEF ServiceInv

(* A step that changes nothing preserves the invariant. *)
LEMMA ServiceStutter ==
  ASSUME ServiceInv, UNCHANGED vars
  PROVE  ServiceInv'
<1>1. UNCHANGED <<target, readyState, connections, subscriptions, commands, replies,
                  subscribed, published, received, outage>>
  BY DEF vars
<1>2. TypeOK'
  BY <1>1 DEF ServiceInv, TypeOK
<1>3. SubscriptionInv'
  BY <1>1 DEF ServiceInv, SubscriptionInv, AgreedUnlessAnswering, LastReplyTells,
              SubscribesAgain, RepliesTo
<1>4. DeliveryInv'
  BY <1>1 DEF ServiceInv, DeliveryInv, SocketsKnowTheirOrder, MapHoldsLiveSockets,
              MessagesInOrder, ReceivedIsOlder, UpdatesInOrder, UpdateOf
<1>5. SoleInv'
  BY <1>1 DEF ServiceInv, SoleInv, NothingOfUnwatched, SoleConnection, SoleIsServed,
              SoleMissesNothing, OnTheirWay, Subscribe, Unsubscribe
<1> QED BY <1>2, <1>3, <1>4, <1>5 DEF ServiceInv

(* Every operation preserves the invariant. *)
LEMMA ServiceNext ==
  ASSUME ServiceInv, [Next]_vars
  PROVE  ServiceInv'
<1> USE DEF ServiceInv
<1>1. CASE \/ \E s \in Sockets : \/ \E o \in Orders : Connect(s, o)
                                 \/ StartClosing(s) \/ CloseEvent(s) \/ ErrorEvent(s)
           \/ CloseAll
  <2>1. TypeOK' /\ SubscriptionInv' /\ DeliveryInv'
    BY <1>1, SocketsTypeOK, SubscriptionsSockets, DeliverySockets DEF DeliveryInv
  <2>2. SoleInv'
    BY <1>1, SoleConnect, SoleClose, SoleCloseAll
  <2> QED BY <2>1, <2>2
<1>2. CASE ExecuteCommand
  BY <1>2, RedisTypeOK, SubscriptionsExecute, DeliveryExecute, SoleExecute
<1>3. CASE DropConnection
  BY <1>3, RedisTypeOK, SubscriptionsDrop, DeliveryDrop, SoleDrop
<1>4. ASSUME NEW o \in Orders, PublishStatusUpdate(o)
      PROVE  ServiceInv'
  BY <1>4, RedisTypeOK, SubscriptionsPublish, DeliveryPublish, SolePublish
<1>5. CASE HandleReply
  BY <1>5, RepliesTypeOK, SubscriptionsHandle, DeliveryHandle, SoleHandle
<1>6. CASE Idle \/ UNCHANGED vars
  BY <1>6, ServiceStutter DEF Idle
<1> QED
  <2> SUFFICES ASSUME Next, ~Idle PROVE ServiceInv'
    BY <1>6
  <2> QED BY <1>1, <1>2, <1>3, <1>4, <1>5 DEF Next

(* The parts of the invariant hold together in every state the service can   *)
(* reach.                                                                    *)
THEOREM ServiceInvariance == Spec => []ServiceInv
<1>1. Init => ServiceInv
  BY ServiceInit
<1>2. ServiceInv /\ [Next]_vars => ServiceInv'
  BY ServiceNext
<1> QED BY <1>1, <1>2, PTL DEF Spec

(* The sockets, the map, the queues to and from Redis, and what is published *)
(* and received keep their types; no more is published than the bound.       *)
THEOREM ServiceTypes == Spec => []TypeOK
<1>1. ServiceInv => TypeOK
  BY DEF ServiceInv
<1> QED BY <1>1, ServiceInvariance, PTL

(* Once the replies are in, the set activeSubscriptions is what Redis has,   *)
(* however registrations, closures and an outage overlapped.                 *)
THEOREM SetMirrorsRedis == Spec => []SubscriptionsMirrorRedis
<1>1. ServiceInv => SubscriptionsMirrorRedis
  <2> SUFFICES ASSUME ServiceInv, Quiet
               PROVE  subscriptions = subscribed
    BY DEF SubscriptionsMirrorRedis
  <2>1. ToSet(replies) = {} /\ DOMAIN commands = {}
    BY DEF Quiet, ToSet
  <2>2. \A o \in Orders : o \in subscriptions <=> o \in subscribed
    BY <2>1 DEF ServiceInv, SubscriptionInv, AgreedUnlessAnswering, SubscribesAgain
  <2> QED BY <2>2 DEF ServiceInv, TypeOK
<1> QED BY <1>1, ServiceInvariance, PTL

(* The map of the service has no closed socket, and each under its order.    *)
THEOREM MapDoesNotLeak == Spec => []MapHoldsLiveSockets
<1>1. ServiceInv => MapHoldsLiveSockets
  BY DEF ServiceInv, DeliveryInv
<1> QED BY <1>1, ServiceInvariance, PTL

(* The 'message' handler sends no update to a socket twice or out of order.  *)
THEOREM DeliveredInOrder == Spec => []UpdatesInOrder
<1>1. ServiceInv => UpdatesInOrder
  BY DEF ServiceInv, DeliveryInv
<1> QED BY <1>1, ServiceInvariance, PTL

(* The map has the only connection of an order as long as it is open, and,   *)
(* once Redis answered, Redis its subscription, unless an outage rejected it.*)
THEOREM SoleServed == Spec => []SoleConnectionIsServed
<1>1. ServiceInv => SoleConnectionIsServed
  <2> SUFFICES ASSUME ServiceInv, NEW s \in Sockets, SoleConnection(s)
               PROVE  /\ connections[target[s]] = s
                      /\ Quiet /\ outage # "rejected" => target[s] \in subscribed
    BY DEF SoleConnectionIsServed
  <2>1. SoleIsServed(s)
    BY DEF ServiceInv, SoleInv
  <2>2. Quiet => ToSet(commands) = {}
    BY DEF Quiet, ToSet
  <2> QED BY <2>1, <2>2 DEF SoleIsServed
<1> QED BY <1>1, ServiceInvariance, PTL

(* From its first update on, the only connection of an order misses none as  *)
(* long as the connection to Redis holds.                                    *)
THEOREM SoleMissesNone == Spec => []SoleConnectionMissesNothing
<1>1. ServiceInv => SoleConnectionMissesNothing
  BY DEF ServiceInv, SoleInv, SoleConnectionMissesNothing, SoleMissesNothing
<1> QED BY <1>1, ServiceInvariance, PTL
=============================================================================
