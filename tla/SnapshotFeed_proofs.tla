------------------------- MODULE SnapshotFeed_proofs -------------------------
(***************************************************************************)
(* Proofs about SnapshotFeed for every set of clients and every number of  *)
(* snapshots: nothing is lost in a channel, no send meets a closed channel *)
(* and the feed implements LatestFeed.                                     *)
(***************************************************************************)
EXTENDS SnapshotFeed, TLAPS

-----------------------------------------------------------------------------
(* A channel of one place.                                                  *)

\* What is in a channel, 0 for nothing.
Val(ch) == IF ch = Empty THEN 0 ELSE Head(ch)

LEMMA ChannelValues ==
    /\ Val(Empty) = 0
    /\ \A v : <<v>> # Empty /\ Head(<<v>>) = v /\ Val(<<v>>) = v
    /\ \A ch \in Channels : /\ Val(ch) \in Versions
                            /\ ch # Empty => Val(ch) = Head(ch) /\ Val(ch) > 0
    /\ Empty \in Channels
    /\ \A v \in Versions : v > 0 => <<v>> \in Channels
<1>1. \A v : <<v>> # Empty /\ Head(<<v>>) = v
  BY DEF Empty
<1>2. MaxVersion \in Nat
  BY SnapshotFeedAssumption
<1>3. \A ch \in Channels : ch = Empty \/ \E v \in 1 .. MaxVersion : ch = <<v>>
  BY DEF Channels
<1>4. QED
  BY <1>1, <1>2, <1>3 DEF Val, Channels, Versions

\* What SendLatest leaves in a channel.
LEMMA PutValue ==
    ASSUME NEW v
    PROVE  PutInto(Empty, v) = <<v>>
BY DEF PutInto

-----------------------------------------------------------------------------
(* Type correctness.  With it goes that a snapshot in hand is one.          *)

Holding ==
    /\ queue = "putting" => published > 0
    /\ broker \in {"locking", "fanout"} => current > 0
    /\ setting \subseteq todo
    /\ todo # {} => broker = "fanout"

TypeInv == TypeOK /\ Holding

LEMMA TypeInit == Init => TypeInv
<1> SUFFICES ASSUME Init PROVE TypeInv
  OBVIOUS
<1>1. 0 \in Versions /\ Empty \in Channels
  BY SnapshotFeedAssumption, ChannelValues DEF Versions
<1>2. /\ chan \in [Clients -> Channels] /\ snaps \in Channels
      /\ errs \in [Clients -> {Empty, <<"ErrClosed">>}]
  BY <1>1 DEF Init
<1>3. /\ held \in [Clients -> Versions] /\ frame \in [Clients -> Versions]
      /\ seen \in [Clients -> Versions]
      /\ published \in Versions /\ current \in Versions /\ lastSnap \in Versions
  BY <1>1 DEF Init
<1>4. Holding
  BY DEF Init, Holding
<1>5. QED
  BY <1>2, <1>3, <1>4 DEF Init, TypeInv, TypeOK

LEMMA TypeQueue == TypeInv /\ QueueNext => TypeInv'
<1> SUFFICES ASSUME TypeInv, QueueNext PROVE TypeInv'
  OBVIOUS
<1> USE DEF daemonVars, queueVars, brokerVars, subVars, serviceVars, handlerVars
<1>0. MaxVersion \in Nat /\ published \in Nat /\ published <= MaxVersion
  BY SnapshotFeedAssumption DEF TypeInv, TypeOK, Versions
<1>1. CASE PublishDrain
  <2>1. published' \in Versions /\ published' > 0
    BY <1>0, <1>1 DEF PublishDrain, Versions
  <2>2. snaps' \in Channels
    BY <1>1, ChannelValues DEF PublishDrain, Drained
  <2>3. QED
    BY <1>1, <2>1, <2>2 DEF PublishDrain, TypeInv, TypeOK, Holding
<1>2. CASE PublishPut
  <2>1. snaps' \in Channels
    BY <1>2, ChannelValues DEF PublishPut, PutInto, TypeInv, TypeOK, Holding
  <2>2. QED
    BY <1>2, <2>1 DEF PublishPut, TypeInv, TypeOK, Holding
<1>3. CASE QueueStop
  BY <1>3 DEF QueueStop, TypeInv, TypeOK, Holding
<1>4. QED
  BY <1>1, <1>2, <1>3 DEF QueueNext

LEMMA TypeBroker == TypeInv /\ BrokerNext => TypeInv'
<1> SUFFICES ASSUME TypeInv, BrokerNext PROVE TypeInv'
  OBVIOUS
<1> USE DEF daemonVars, queueVars, brokerVars, subVars, serviceVars, handlerVars
<1>1. CASE BrokerTake
  <2>1. current' \in Versions /\ current' > 0 /\ snaps' \in Channels
    BY <1>1, ChannelValues DEF BrokerTake, TypeInv, TypeOK
  <2>2. QED
    BY <1>1, <2>1 DEF BrokerTake, TypeInv, TypeOK, Holding
<1>2. CASE BrokerStop
  BY <1>2 DEF BrokerStop, TypeInv, TypeOK, Holding
<1>3. CASE FanoutBegin
  BY <1>3 DEF FanoutBegin, TypeInv, TypeOK, Holding
<1>4. CASE FanoutEnd
  BY <1>4 DEF FanoutEnd, TypeInv, TypeOK, Holding
<1>5. CASE BrokerClose
  BY <1>5 DEF BrokerClose, TypeInv, TypeOK, Holding
<1>6. ASSUME NEW c \in Clients, FanoutDrain(c) PROVE TypeInv'
  <2>1. chan' \in [Clients -> Channels]
    BY <1>6, ChannelValues DEF FanoutDrain, Drained, TypeInv, TypeOK
  <2>2. QED
    BY <1>6, <2>1 DEF FanoutDrain, TypeInv, TypeOK, Holding
<1>7. ASSUME NEW c \in Clients, FanoutPut(c) PROVE TypeInv'
  <2>1. current \in Versions /\ current > 0
    BY <1>7 DEF FanoutPut, TypeInv, TypeOK, Holding
  <2>2. PutInto(chan[c], current) \in Channels
    BY <2>1, ChannelValues DEF PutInto, TypeInv, TypeOK
  <2>3. chan' \in [Clients -> Channels]
    BY <1>7, <2>2 DEF FanoutPut, TypeInv, TypeOK
  <2>4. QED
    BY <1>7, <2>3 DEF FanoutPut, TypeInv, TypeOK, Holding
<1>8. QED
  BY <1>1, <1>2, <1>3, <1>4, <1>5, <1>6, <1>7 DEF BrokerNext

LEMMA TypeService ==
    ASSUME TypeInv, NEW c \in Clients, ServiceNext(c) PROVE TypeInv'
<1> USE DEF daemonVars, queueVars, brokerVars, subVars, serviceVars, handlerVars
<1>1. CASE Follow(c)
  <2>1. Replay \in Channels
    <3>1. MaxVersion \in Nat /\ lastSnap \in Versions
      BY SnapshotFeedAssumption DEF TypeInv, TypeOK
    <3>2. QED
      BY <3>1, ChannelValues DEF Replay, Versions
  <2>2. chan' \in [Clients -> Channels]
    BY <1>1, <2>1 DEF Follow, TypeInv, TypeOK
  <2>3. QED
    BY <1>1, <2>2 DEF Follow, TypeInv, TypeOK, Holding
<1>2. CASE FollowRefused(c)
  BY <1>2 DEF FollowRefused, TypeInv, TypeOK, Holding
<1>3. CASE Receive(c)
  <2>1. Head(chan[c]) \in Versions /\ Empty \in Channels
    BY <1>3, ChannelValues DEF Receive, TypeInv, TypeOK
  <2>2. chan' \in [Clients -> Channels] /\ held' \in [Clients -> Versions]
    BY <1>3, <2>1 DEF Receive, TypeInv, TypeOK
  <2>3. QED
    BY <1>3, <2>2 DEF Receive, TypeInv, TypeOK, Holding
<1>4. 0 \in Versions
  BY SnapshotFeedAssumption DEF Versions
<1>5. CASE HandOver(c)
  BY <1>4, <1>5 DEF HandOver, TypeInv, TypeOK, Holding
<1>6. CASE ServiceReturn(c)
  BY <1>4, <1>6 DEF ServiceReturn, TypeInv, TypeOK, Holding
<1>7. CASE Unfollow(c)
  BY <1>7 DEF Unfollow, TypeInv, TypeOK, Holding
<1>8. CASE CloseStream(c)
  BY <1>8 DEF CloseStream, TypeInv, TypeOK, Holding
<1>9. QED
  BY <1>1, <1>2, <1>3, <1>5, <1>6, <1>7, <1>8 DEF ServiceNext

LEMMA TypeStep == TypeInv /\ [Next]_vars => TypeInv'
<1> SUFFICES ASSUME TypeInv, [Next]_vars PROVE TypeInv'
  OBVIOUS
<1> USE DEF daemonVars, queueVars, brokerVars, subVars, serviceVars, handlerVars
<1>1. ASSUME NEW c \in Clients, HandlerNext(c) \/ Connect(c) \/ Leave(c)
      PROVE  TypeInv'
  <2>1. 0 \in Versions
    BY SnapshotFeedAssumption DEF Versions
  <2>2. CASE StreamEnds(c) \/ StreamError(c)
    BY <2>2 DEF StreamEnds, StreamError, TypeInv, TypeOK, Holding
  <2>3. CASE WriteSnapshot(c) \/ WriteFails(c)
    BY <2>1, <2>3 DEF WriteSnapshot, WriteFails, TypeInv, TypeOK, Holding
  <2>4. CASE Connect(c) \/ Leave(c)
    BY <2>4 DEF Connect, Leave, TypeInv, TypeOK, Holding
  <2>5. QED
    BY <1>1, <2>2, <2>3, <2>4 DEF HandlerNext
<1>2. CASE CancelContext \/ StopServing \/ UNCHANGED vars
  BY <1>2 DEF CancelContext, StopServing, vars, TypeInv, TypeOK, Holding
<1>3. QED
  BY <1>1, <1>2, TypeQueue, TypeBroker, TypeService DEF Next, Terminated

\* Every variable keeps its type; a channel holds at most one snapshot.
THEOREM TypeCorrect == Spec => []TypeOK
<1>1. TypeInv => TypeOK
  BY DEF TypeInv
<1>2. QED
  BY <1>1, TypeInit, TypeStep, PTL DEF Spec

-----------------------------------------------------------------------------
(* The inductive invariant.  Along the path of a snapshot its places are    *)
(* strictly ordered: what is written to a client is older than what its     *)
(* handler writes, that than what its goroutine holds, that than what is in *)
(* its channel; none of it is newer than what the broker has given it, and  *)
(* what waits for the broker is newer than anything it gave.                *)

\* The newest snapshot the broker has given a client.
Limit(c) == IF broker = "fanout" /\ c \notin todo THEN current ELSE lastSnap

SourceOrder ==
    /\ lastSnap <= current /\ current <= published
    /\ broker \in {"locking", "fanout"} => lastSnap < current
    /\ snaps # Empty => current < Val(snaps) /\ Val(snaps) <= published
    /\ queue = "putting" => current < published

\* Before it follows the broker, a stream has carried nothing.
Fresh(c) ==
    /\ handler[c] = "none" => service[c] = "none"
    /\ service[c] \in {"none", "following"} =>
         seen[c] = 0 /\ frame[c] = 0 /\ held[c] = 0 /\ c \notin chanClosed

Ordered(c) ==
    /\ handler[c] = "writing" => seen[c] < frame[c]
    /\ service[c] = "handing" => seen[c] < held[c] /\ frame[c] < held[c]
    /\ chan[c] # Empty => /\ seen[c] < Val(chan[c])
                          /\ frame[c] < Val(chan[c])
                          /\ held[c] < Val(chan[c])

Bounded(c) ==
    /\ seen[c] <= Limit(c) /\ frame[c] <= Limit(c) /\ held[c] <= Limit(c)
    /\ Val(chan[c]) <= Limit(c)

ClientInv(c) == Fresh(c) /\ Ordered(c) /\ Bounded(c)

FeedInv ==
    /\ TypeInv
    /\ SubscribersFollow
    /\ PutsSucceed
    /\ SourceOrder
    /\ \A c \in Clients : ClientInv(c)

LEMMA Numbers ==
    ASSUME TypeInv
    PROVE  /\ published \in Nat /\ current \in Nat /\ lastSnap \in Nat
           /\ Val(snaps) \in Nat
           /\ \A c \in Clients : /\ seen[c] \in Nat /\ frame[c] \in Nat
                                 /\ held[c] \in Nat /\ Val(chan[c]) \in Nat
                                 /\ Limit(c) \in Nat
<1>1. \A v \in Versions : v \in Nat
  BY SnapshotFeedAssumption DEF Versions
<1>2. Val(snaps) \in Versions /\ \A c \in Clients : Val(chan[c]) \in Versions
  BY ChannelValues DEF TypeInv, TypeOK
<1>3. QED
  BY <1>1, <1>2 DEF TypeInv, TypeOK, Limit

\* A step that leaves a client's stream and its limit alone keeps what holds of it.
LEMMA ClientStays ==
    ASSUME NEW c \in Clients, ClientInv(c),
           handler'[c] = handler[c], service'[c] = service[c], seen'[c] = seen[c],
           frame'[c] = frame[c], held'[c] = held[c], chan'[c] = chan[c],
           c \in chanClosed' => c \in chanClosed \/ service[c] \notin {"none", "following"},
           Limit(c)' = Limit(c)
    PROVE  ClientInv(c)'
<1>1. Fresh(c)'
  BY DEF ClientInv, Fresh
<1>2. Ordered(c)'
  BY DEF ClientInv, Ordered
<1>3. Bounded(c)'
  BY DEF ClientInv, Bounded
<1>4. QED
  BY <1>1, <1>2, <1>3 DEF ClientInv

LEMMA FeedInit == Init => FeedInv
<1> SUFFICES ASSUME Init PROVE FeedInv
  OBVIOUS
<1>1. TypeInv
  BY TypeInit
<1>2. SubscribersFollow /\ PutsSucceed
  BY DEF Init, SubscribersFollow, PutsSucceed
<1>3. SourceOrder
  BY DEF Init, SourceOrder
<1>4. ASSUME NEW c \in Clients PROVE ClientInv(c)
  <2>1. chan[c] = Empty /\ Val(chan[c]) = 0
    BY ChannelValues DEF Init
  <2>2. QED
    BY <2>1 DEF Init, ClientInv, Fresh, Ordered, Bounded, Limit
<1>5. QED
  BY <1>1, <1>2, <1>3, <1>4 DEF FeedInv

LEMMA FeedQueue == FeedInv /\ TypeInv' /\ QueueNext => FeedInv'
<1> SUFFICES ASSUME FeedInv, TypeInv', QueueNext PROVE FeedInv'
  OBVIOUS
<1> USE DEF daemonVars, queueVars, brokerVars, subVars, serviceVars, handlerVars
<1>0. /\ published \in Nat /\ current \in Nat /\ Val(snaps) \in Nat
      /\ current <= published /\ lastSnap <= current /\ lastSnap \in Nat
  BY Numbers DEF FeedInv, SourceOrder
<1>1. UNCHANGED <<brokerVars, subVars, chan, serviceVars, handlerVars>>
  BY DEF QueueNext, PublishDrain, PublishPut, QueueStop
<1>2. \A c \in Clients : ClientInv(c)'
  BY <1>1, ClientStays DEF FeedInv, Limit
<1>3. SubscribersFollow'
  BY <1>1 DEF FeedInv, SubscribersFollow
<1>4. \A c \in setting' : chan'[c] = Empty
  BY <1>1 DEF FeedInv, PutsSucceed
<1>5. CASE PublishDrain
  <2>1. snaps' = Empty /\ published' = published + 1 /\ queue' = "putting"
    BY <1>5 DEF PublishDrain, Drained
  <2>2. SourceOrder'
    BY <1>0, <1>1, <2>1 DEF FeedInv, SourceOrder
  <2>3. QED
    BY <1>2, <1>3, <1>4, <2>1, <2>2 DEF FeedInv, PutsSucceed
<1>6. CASE PublishPut
  <2>1. /\ snaps' = <<published>> /\ published' = published /\ queue' = "idle"
        /\ current < published
    BY <1>6, PutValue DEF PublishPut, FeedInv, PutsSucceed, SourceOrder
  <2>2. Val(snaps') = published
    BY <2>1, ChannelValues
  <2>3. SourceOrder'
    BY <1>0, <1>1, <2>1, <2>2 DEF FeedInv, SourceOrder
  <2>4. QED
    BY <1>2, <1>3, <1>4, <2>1, <2>3 DEF FeedInv, PutsSucceed
<1>7. CASE QueueStop
  <2>1. SourceOrder'
    BY <1>7 DEF QueueStop, FeedInv, SourceOrder
  <2>2. QED
    BY <1>2, <1>3, <1>4, <1>7, <2>1 DEF QueueStop, FeedInv, PutsSucceed
<1>8. QED
  BY <1>5, <1>6, <1>7 DEF QueueNext

LEMMA FeedBroker == FeedInv /\ TypeInv' /\ BrokerNext => FeedInv'
<1> SUFFICES ASSUME FeedInv, TypeInv', BrokerNext PROVE FeedInv'
  OBVIOUS
<1> USE DEF daemonVars, queueVars, brokerVars, subVars, serviceVars, handlerVars
<1>0. /\ TypeInv /\ published \in Nat /\ current \in Nat /\ lastSnap \in Nat
      /\ Val(snaps) \in Nat
      /\ current <= published /\ lastSnap <= current
      /\ \A c \in Clients : ClientInv(c)
  BY Numbers DEF FeedInv, SourceOrder
<1>1. CASE BrokerTake
  <2>1. /\ current' = Val(snaps) /\ snaps' = Empty /\ broker' = "locking"
        /\ UNCHANGED <<queueVars, todo, setting, lastSnap, subVars, chan,
                       serviceVars, handlerVars>>
        /\ snaps # Empty /\ broker = "select"
    BY <1>1, ChannelValues DEF BrokerTake, TypeInv, TypeOK, FeedInv
  <2>2. SourceOrder'
    BY <1>0, <2>1 DEF FeedInv, SourceOrder, PutsSucceed
  <2>3. \A c \in Clients : ClientInv(c)'
    BY <1>0, <2>1, ClientStays DEF Limit
  <2>4. SubscribersFollow' /\ PutsSucceed'
    BY <2>1 DEF FeedInv, SubscribersFollow, PutsSucceed
  <2>5. QED
    BY <2>2, <2>3, <2>4 DEF FeedInv
<1>2. CASE BrokerStop
  <2>1. /\ broker = "select" /\ broker' = "closing"
        /\ UNCHANGED <<queueVars, snaps, current, todo, setting, lastSnap, subVars,
                       chan, serviceVars, handlerVars>>
    BY <1>2 DEF BrokerStop
  <2>2. \A c \in Clients : ClientInv(c)'
    BY <1>0, <2>1, ClientStays DEF Limit
  <2>3. SourceOrder' /\ SubscribersFollow' /\ PutsSucceed'
    BY <2>1 DEF FeedInv, SourceOrder, SubscribersFollow, PutsSucceed
  <2>4. QED
    BY <2>2, <2>3 DEF FeedInv
<1>3. CASE FanoutBegin
  <2>1. /\ broker = "locking" /\ broker' = "fanout" /\ todo' = subs
        /\ UNCHANGED <<queueVars, snaps, current, setting, lastSnap, subVars, chan,
                       serviceVars, handlerVars>>
    BY <1>3 DEF FanoutBegin
  <2>2. ASSUME NEW c \in Clients PROVE ClientInv(c)'
    <3>1. Limit(c) = lastSnap /\ Limit(c)' \in {lastSnap, current}
      BY <2>1 DEF Limit
    <3>2. /\ seen[c] \in Nat /\ frame[c] \in Nat /\ held[c] \in Nat
          /\ Val(chan[c]) \in Nat
      BY <1>0, Numbers
    <3>3. Bounded(c)'
      BY <1>0, <2>1, <3>1, <3>2 DEF ClientInv, Bounded
    <3>4. Fresh(c)' /\ Ordered(c)'
      BY <1>0, <2>1 DEF ClientInv, Fresh, Ordered
    <3>5. QED
      BY <3>3, <3>4 DEF ClientInv
  <2>3. SourceOrder' /\ SubscribersFollow' /\ PutsSucceed'
    BY <2>1 DEF FeedInv, SourceOrder, SubscribersFollow, PutsSucceed
  <2>4. QED
    BY <2>2, <2>3 DEF FeedInv
<1>4. ASSUME NEW c \in Clients, FanoutDrain(c) PROVE FeedInv'
  <2>1. /\ chan' = [chan EXCEPT ![c] = Empty] /\ setting' = {c}
        /\ UNCHANGED <<queueVars, snaps, broker, current, todo, lastSnap, subVars,
                       serviceVars, handlerVars>>
    BY <1>4 DEF FanoutDrain, Drained
  <2>2. chan'[c] = Empty /\ \A d \in Clients : d # c => chan'[d] = chan[d]
    BY <1>0, <2>1 DEF TypeInv, TypeOK
  <2>3. ASSUME NEW d \in Clients PROVE ClientInv(d)'
    <3>1. Limit(d)' = Limit(d)
      BY <2>1 DEF Limit
    <3>2. CASE d = c
      <4>1. Val(chan'[c]) = 0 /\ Limit(c) \in Nat
        BY <1>0, <2>2, ChannelValues, Numbers
      <4>2. QED
        BY <1>0, <2>1, <2>2, <3>1, <3>2, <4>1
        DEF ClientInv, Fresh, Ordered, Bounded
    <3>3. CASE d # c
      BY <1>0, <2>1, <2>2, <3>1, <3>3, ClientStays
    <3>4. QED
      BY <3>2, <3>3
  <2>4. SourceOrder' /\ SubscribersFollow' /\ PutsSucceed'
    BY <2>1, <2>2 DEF FeedInv, SourceOrder, SubscribersFollow, PutsSucceed
  <2>5. QED
    BY <2>3, <2>4 DEF FeedInv
<1>5. ASSUME NEW c \in Clients, FanoutPut(c) PROVE FeedInv'
  <2>1. /\ c \in setting /\ c \in todo /\ broker = "fanout" /\ chan[c] = Empty
        /\ lastSnap < current
    BY <1>5 DEF FanoutPut, FeedInv, TypeInv, Holding, PutsSucceed, SourceOrder
  <2>2. /\ chan' = [chan EXCEPT ![c] = <<current>>]
        /\ setting' = {} /\ todo' = todo \ {c}
        /\ UNCHANGED <<queueVars, snaps, broker, current, lastSnap, subVars,
                       serviceVars, handlerVars>>
    BY <1>5, <2>1, PutValue DEF FanoutPut
  <2>3. chan'[c] = <<current>> /\ \A d \in Clients : d # c => chan'[d] = chan[d]
    BY <1>0, <2>2 DEF TypeInv, TypeOK
  <2>4. ASSUME NEW d \in Clients PROVE ClientInv(d)'
    <3>1. CASE d = c
      <4>1. Val(chan'[c]) = current /\ Limit(c) = lastSnap /\ Limit(c)' = current
        BY <2>1, <2>2, <2>3, ChannelValues DEF Limit
      <4>2. seen[c] \in Nat /\ frame[c] \in Nat /\ held[c] \in Nat
        BY <1>0, Numbers
      <4>3. seen[c] < current /\ frame[c] < current /\ held[c] < current
        BY <1>0, <2>1, <4>1, <4>2 DEF ClientInv, Bounded
      <4>4. Fresh(c)' /\ Ordered(c)' /\ Bounded(c)'
        BY <1>0, <2>2, <2>3, <4>1, <4>2, <4>3
        DEF ClientInv, Fresh, Ordered, Bounded
      <4>5. QED
        BY <3>1, <4>4 DEF ClientInv
    <3>2. CASE d # c
      <4>1. Limit(d)' = Limit(d)
        BY <2>2, <3>2 DEF Limit
      <4>2. QED
        BY <1>0, <2>2, <2>3, <3>2, <4>1, ClientStays
    <3>3. QED
      BY <3>1, <3>2
  <2>5. SourceOrder' /\ SubscribersFollow' /\ PutsSucceed'
    BY <2>2 DEF FeedInv, SourceOrder, SubscribersFollow, PutsSucceed
  <2>6. QED
    BY <2>4, <2>5 DEF FeedInv
<1>6. CASE FanoutEnd
  <2>1. /\ broker = "fanout" /\ todo = {} /\ lastSnap' = current /\ broker' = "select"
        /\ UNCHANGED <<queueVars, snaps, current, todo, setting, subVars, chan,
                       serviceVars, handlerVars>>
    BY <1>6 DEF FanoutEnd
  <2>2. \A c \in Clients : Limit(c)' = Limit(c)
    BY <2>1 DEF Limit
  <2>3. \A c \in Clients : ClientInv(c)'
    BY <1>0, <2>1, <2>2, ClientStays
  <2>4. SourceOrder'
    BY <1>0, <2>1 DEF FeedInv, SourceOrder
  <2>5. SubscribersFollow' /\ PutsSucceed'
    BY <2>1 DEF FeedInv, SubscribersFollow, PutsSucceed
  <2>6. QED
    BY <2>3, <2>4, <2>5 DEF FeedInv
<1>7. CASE BrokerClose
  <2>1. /\ broker = "closing" /\ broker' = "ended" /\ closed' /\ subs' = {}
        /\ chanClosed' = chanClosed \cup subs /\ todo = {}
        /\ UNCHANGED <<queueVars, snaps, current, todo, setting, lastSnap, chan,
                       serviceVars, handlerVars>>
    BY <1>0, <1>7 DEF BrokerClose, TypeInv, Holding
  <2>2. \A c \in Clients : Limit(c)' = Limit(c)
    BY <2>1 DEF Limit
  <2>3. \A c \in subs : service[c] \notin {"none", "following"}
    BY DEF FeedInv, SubscribersFollow
  <2>4. \A c \in Clients : ClientInv(c)'
    BY <1>0, <2>1, <2>2, <2>3, ClientStays
  <2>5. SourceOrder' /\ SubscribersFollow' /\ PutsSucceed'
    BY <2>1 DEF FeedInv, SourceOrder, SubscribersFollow, PutsSucceed
  <2>6. QED
    BY <2>4, <2>5 DEF FeedInv
<1>8. QED
  BY <1>1, <1>2, <1>3, <1>4, <1>5, <1>6, <1>7 DEF BrokerNext

\* The steps of one stream: its service goroutine, its handler, its client.
LEMMA FeedStream ==
    ASSUME FeedInv, TypeInv', NEW c \in Clients,
           ServiceNext(c) \/ HandlerNext(c) \/ Connect(c) \/ Leave(c)
    PROVE  FeedInv'
<1> USE DEF daemonVars, queueVars, brokerVars, subVars, serviceVars, handlerVars
<1>0. /\ TypeInv /\ \A d \in Clients : ClientInv(d)
      /\ lastSnap \in Nat /\ seen[c] \in Nat /\ frame[c] \in Nat /\ held[c] \in Nat
      /\ Val(chan[c]) \in Nat /\ Limit(c) \in Nat
  BY Numbers DEF FeedInv
<1>1. UNCHANGED <<queueVars, snaps, brokerVars>>
  BY DEF ServiceNext, HandlerNext, Follow, FollowRefused, Receive, HandOver,
         ServiceReturn, Unfollow, CloseStream, StreamEnds, StreamError,
         WriteSnapshot, WriteFails, Connect, Leave
<1>2. SourceOrder' /\ \A d \in Clients : Limit(d)' = Limit(d)
  BY <1>1 DEF FeedInv, SourceOrder, Limit
<1>3. \A d \in Clients : d # c =>
        /\ handler'[d] = handler[d] /\ service'[d] = service[d]
        /\ seen'[d] = seen[d] /\ frame'[d] = frame[d] /\ held'[d] = held[d]
        /\ chan'[d] = chan[d] /\ (d \in chanClosed' <=> d \in chanClosed)
        /\ (d \in subs' <=> d \in subs)
  <2>1. CASE ServiceNext(c)
    BY <1>0, <2>1
    DEF ServiceNext, Follow, FollowRefused, Receive, HandOver, ServiceReturn,
        Unfollow, CloseStream, TypeInv, TypeOK
  <2>2. CASE HandlerNext(c)
    BY <1>0, <2>2
    DEF HandlerNext, StreamEnds, StreamError, WriteSnapshot, WriteFails,
        TypeInv, TypeOK
  <2>3. CASE Connect(c) \/ Leave(c)
    BY <1>0, <2>3 DEF Connect, Leave, TypeInv, TypeOK
  <2>4. QED
    BY <2>1, <2>2, <2>3
<1>4. \A d \in Clients : d # c => ClientInv(d)'
  BY <1>0, <1>2, <1>3, ClientStays
<1>5. PutsSucceed'
  <2>1. broker # "fanout" => setting = {}
    BY <1>0 DEF TypeInv, Holding
  <2>2. c \in setting => chan[c] = Empty /\ broker = "fanout"
    BY <2>1 DEF FeedInv, PutsSucceed
  <2>3. c \in setting => chan'[c] = Empty
    BY <1>0, <2>2
    DEF ServiceNext, HandlerNext, Follow, FollowRefused, Receive, HandOver,
        ServiceReturn, Unfollow, CloseStream, StreamEnds, StreamError,
        WriteSnapshot, WriteFails, Connect, Leave, MutexFree, TypeInv, TypeOK
  <2>4. QED
    BY <1>0, <1>1, <1>3, <2>3 DEF FeedInv, PutsSucceed, TypeInv, TypeOK
<1>6. CASE Follow(c)
  <2>1. /\ service[c] = "following" /\ ~closed /\ ~closed' /\ broker # "fanout"
        /\ service'[c] = "receiving" /\ chan'[c] = Replay
        /\ subs' = subs \cup {c}
        /\ UNCHANGED <<chanClosed, handler, seen, frame, held>>
    BY <1>0, <1>6 DEF Follow, MutexFree, TypeInv, TypeOK
  <2>2. seen[c] = 0 /\ frame[c] = 0 /\ held[c] = 0 /\ c \notin chanClosed
    BY <1>0, <2>1 DEF ClientInv, Fresh
  <2>3. handler[c] # "none"
    BY <1>0, <2>1 DEF ClientInv, Fresh
  <2>4. Limit(c) = lastSnap /\ Val(chan'[c]) = lastSnap
        /\ (chan'[c] # Empty => lastSnap > 0)
    BY <1>0, <2>1, ChannelValues DEF Limit, Replay
  <2>5. ClientInv(c)'
    <3>1. Fresh(c)'
      BY <2>1, <2>3 DEF Fresh
    <3>2. Ordered(c)'
      BY <1>0, <2>1, <2>2, <2>4 DEF ClientInv, Ordered
    <3>3. Bounded(c)'
      BY <1>0, <1>2, <2>1, <2>4 DEF ClientInv, Bounded
    <3>4. QED
      BY <3>1, <3>2, <3>3 DEF ClientInv
  <2>6. SubscribersFollow'
    BY <1>1, <1>3, <2>1, <2>2 DEF FeedInv, SubscribersFollow
  <2>7. QED
    BY <1>2, <1>4, <1>5, <2>5, <2>6 DEF FeedInv
<1>7. CASE Unfollow(c)
  <2>1. /\ service[c] = "unfollowing" /\ broker # "fanout"
        /\ service'[c] = "closingErrs" /\ closed' = closed
        /\ subs' = IF closed THEN subs ELSE subs \ {c}
        /\ chanClosed' = IF closed THEN chanClosed ELSE chanClosed \cup ({c} \cap subs)
        /\ UNCHANGED <<chan, handler, seen, frame, held>>
    BY <1>0, <1>7 DEF Unfollow, MutexFree, TypeInv, TypeOK
  <2>2. ClientInv(c)'
    BY <1>0, <1>2, <2>1 DEF ClientInv, Fresh, Ordered, Bounded
  <2>3. todo = {}
    BY <1>0, <2>1 DEF TypeInv, Holding
  <2>4. SubscribersFollow'
    <3>1. subs' = {d \in Clients : ~closed' /\ service'[d] \in
                      {"receiving", "handing", "unfollowing"}}
      BY <1>3, <2>1 DEF FeedInv, SubscribersFollow
    <3>2. subs' \cap chanClosed' = {}
      BY <2>1 DEF FeedInv, SubscribersFollow
    <3>3. QED
      BY <1>1, <2>3, <3>1, <3>2 DEF SubscribersFollow
  <2>5. QED
    BY <1>2, <1>4, <1>5, <2>2, <2>4 DEF FeedInv
<1>8. ASSUME UNCHANGED subVars,
             service'[c] \in {"receiving", "handing", "unfollowing"}
               <=> service[c] \in {"receiving", "handing", "unfollowing"}
      PROVE  SubscribersFollow'
  BY <1>1, <1>3, <1>8 DEF FeedInv, SubscribersFollow
<1>9. CASE FollowRefused(c)
  <2>1. /\ service[c] = "following" /\ service'[c] = "closingErrs"
        /\ UNCHANGED <<subVars, chan, handler, seen, frame, held>>
    BY <1>0, <1>9 DEF FollowRefused, TypeInv, TypeOK
  <2>2. ClientInv(c)'
    BY <1>0, <1>2, <2>1 DEF ClientInv, Fresh, Ordered, Bounded
  <2>3. QED
    BY <1>2, <1>4, <1>5, <1>8, <2>1, <2>2 DEF FeedInv
<1>10. CASE Receive(c)
  <2>1. /\ service[c] = "receiving" /\ service'[c] = "handing"
        /\ chan[c] # Empty /\ held'[c] = Val(chan[c]) /\ chan'[c] = Empty
        /\ UNCHANGED <<subVars, handler, seen, frame>>
    BY <1>0, <1>10, ChannelValues DEF Receive, TypeInv, TypeOK
  <2>2. Val(chan'[c]) = 0
    BY <2>1, ChannelValues
  <2>3. Fresh(c)' /\ Ordered(c)' /\ Bounded(c)'
    BY <1>0, <1>2, <2>1, <2>2 DEF ClientInv, Fresh, Ordered, Bounded
  <2>4. QED
    BY <1>2, <1>4, <1>5, <1>8, <2>1, <2>3 DEF FeedInv, ClientInv
<1>11. CASE HandOver(c)
  <2>1. /\ service[c] = "handing" /\ service'[c] = "receiving"
        /\ handler[c] = "selecting" /\ handler'[c] = "writing"
        /\ frame'[c] = held[c] /\ held'[c] = 0
        /\ UNCHANGED <<subVars, chan, seen>>
    BY <1>0, <1>11 DEF HandOver, TypeInv, TypeOK
  <2>2. Fresh(c)' /\ Ordered(c)' /\ Bounded(c)'
    BY <1>0, <1>2, <2>1 DEF ClientInv, Fresh, Ordered, Bounded
  <2>3. QED
    BY <1>2, <1>4, <1>5, <1>8, <2>1, <2>2 DEF FeedInv, ClientInv
<1>12. CASE ServiceReturn(c)
  <2>1. /\ service[c] \in {"receiving", "handing"} /\ service'[c] = "unfollowing"
        /\ held'[c] = 0
        /\ UNCHANGED <<subVars, chan, handler, seen, frame>>
    BY <1>0, <1>12 DEF ServiceReturn, TypeInv, TypeOK
  <2>2. Fresh(c)' /\ Ordered(c)' /\ Bounded(c)'
    BY <1>0, <1>2, <2>1 DEF ClientInv, Fresh, Ordered, Bounded
  <2>3. QED
    BY <1>2, <1>4, <1>5, <1>8, <2>1, <2>2 DEF FeedInv, ClientInv
<1>13. CASE CloseStream(c)
  <2>1. /\ service[c] \in {"closingErrs", "closingData"}
        /\ service'[c] \in {"closingData", "ended"}
        /\ UNCHANGED <<subVars, chan, handler, seen, frame, held>>
    BY <1>0, <1>13 DEF CloseStream, TypeInv, TypeOK
  <2>2. ClientInv(c)'
    BY <1>0, <1>2, <2>1 DEF ClientInv, Fresh, Ordered, Bounded
  <2>3. QED
    BY <1>2, <1>4, <1>5, <1>8, <2>1, <2>2 DEF FeedInv
<1>14. CASE Connect(c)
  <2>1. /\ handler[c] = "none" /\ handler'[c] = "selecting"
        /\ service'[c] = "following"
        /\ UNCHANGED <<subVars, chan, seen, frame, held>>
    BY <1>0, <1>14 DEF Connect, TypeInv, TypeOK
  <2>2. service[c] = "none"
    BY <1>0, <2>1 DEF ClientInv, Fresh
  <2>3. ClientInv(c)'
    BY <1>0, <1>2, <2>1, <2>2 DEF ClientInv, Fresh, Ordered, Bounded
  <2>4. QED
    BY <1>2, <1>4, <1>5, <1>8, <2>1, <2>2, <2>3 DEF FeedInv
<1>15. CASE StreamEnds(c) \/ StreamError(c) \/ Leave(c)
  <2>1. /\ UNCHANGED <<subVars, chan, service, seen, frame, held>>
        /\ handler'[c] = handler[c] \/ handler'[c] = "ended"
    BY <1>0, <1>15 DEF StreamEnds, StreamError, Leave, TypeInv, TypeOK
  <2>2. ClientInv(c)'
    BY <1>0, <1>2, <2>1 DEF ClientInv, Fresh, Ordered, Bounded
  <2>3. QED
    BY <1>2, <1>4, <1>5, <1>8, <2>1, <2>2 DEF FeedInv
<1>16. CASE WriteSnapshot(c) \/ WriteFails(c)
  <2>1. /\ UNCHANGED <<subVars, chan, service, held>>
        /\ handler[c] = "writing" /\ handler'[c] \in {"selecting", "ended"}
        /\ frame'[c] = 0 /\ seen'[c] \in {seen[c], frame[c]}
    BY <1>0, <1>16 DEF WriteSnapshot, WriteFails, TypeInv, TypeOK
  <2>2. seen[c] < frame[c]
    BY <1>0, <2>1 DEF ClientInv, Ordered
  <2>3. Fresh(c)' /\ Ordered(c)' /\ Bounded(c)'
    BY <1>0, <1>2, <2>1, <2>2 DEF ClientInv, Fresh, Ordered, Bounded
  <2>4. QED
    BY <1>2, <1>4, <1>5, <1>8, <2>1, <2>3 DEF FeedInv, ClientInv
<1>17. QED
  BY <1>6, <1>7, <1>9, <1>10, <1>11, <1>12, <1>13, <1>14, <1>15, <1>16
  DEF ServiceNext, HandlerNext

LEMMA FeedStep == FeedInv /\ [Next]_vars => FeedInv'
<1> SUFFICES ASSUME FeedInv, [Next]_vars PROVE FeedInv'
  OBVIOUS
<1> USE DEF daemonVars, queueVars, brokerVars, subVars, serviceVars, handlerVars
<1>1. TypeInv'
  BY TypeStep DEF FeedInv
<1>2. CASE CancelContext \/ StopServing \/ UNCHANGED vars
  <2>1. UNCHANGED <<queueVars, snaps, brokerVars, subVars, chan, serviceVars,
                    handlerVars>>
    BY <1>2 DEF CancelContext, StopServing, vars
  <2>2. \A c \in Clients : ClientInv(c)'
    BY <2>1, ClientStays DEF FeedInv, Limit
  <2>3. SourceOrder' /\ SubscribersFollow' /\ PutsSucceed'
    BY <2>1 DEF FeedInv, SourceOrder, SubscribersFollow, PutsSucceed
  <2>4. QED
    BY <1>1, <2>2, <2>3 DEF FeedInv
<1>3. QED
  BY <1>1, <1>2, FeedQueue, FeedBroker, FeedStream DEF Next, Terminated

LEMMA FeedCorrect == Spec => []FeedInv
BY FeedInit, FeedStep, PTL DEF Spec

-----------------------------------------------------------------------------
(* The safety properties of SnapshotFeed.                                   *)

\* No snapshot is dropped by SendLatest: its put always finds the place empty.
THEOREM NothingDropped == Spec => []PutsSucceed
<1>1. FeedInv => PutsSucceed
  BY DEF FeedInv
<1>2. QED
  BY <1>1, FeedCorrect, PTL

\* The broker serves exactly the goroutines that follow it, on open channels.
THEOREM BrokerServesFollowers == Spec => []SubscribersFollow
<1>1. FeedInv => SubscribersFollow
  BY DEF FeedInv
<1>2. QED
  BY <1>1, FeedCorrect, PTL

-----------------------------------------------------------------------------
(* The refinement of LatestFeed.                                            *)

\* What a handler writes is newer than all it wrote and has been published.
LEMMA WriteMovesForward ==
    ASSUME FeedInv, NEW c \in Clients, handler[c] = "writing"
    PROVE  frame[c] \in seen[c] + 1 .. published
<1>1. seen[c] < frame[c] /\ frame[c] <= Limit(c)
  BY DEF FeedInv, ClientInv, Ordered, Bounded
<1>2. Limit(c) <= published /\ published \in Nat /\ Limit(c) \in Nat
      /\ seen[c] \in Nat /\ frame[c] \in Nat
  BY Numbers DEF FeedInv, SourceOrder, Limit
<1>3. QED
  BY <1>1, <1>2

\* Each step of the daemon is a step of LatestFeed or none.
LEMMA FeedSimulates == FeedInv /\ [Next]_vars => [Feed!Next]_Feed!vars
<1> SUFFICES ASSUME FeedInv, [Next]_vars PROVE [Feed!Next]_Feed!vars
  OBVIOUS
<1> USE DEF daemonVars, queueVars, brokerVars, subVars, serviceVars, handlerVars
<1> DEFINE Live == {c \in Clients : handler[c] \in {"selecting", "writing"}
                                      /\ c \notin left /\ ~ctxDone}
<1>0. TypeInv
  BY DEF FeedInv
<1>1. CASE QueueNext
  <2>1. UNCHANGED <<seen, handler, left, ctxDone>>
    BY <1>1 DEF QueueNext, PublishDrain, PublishPut, QueueStop
  <2>2. published' = published \/ (published < MaxVersion /\ published' = published + 1)
    BY <1>1 DEF QueueNext, PublishDrain, PublishPut, QueueStop
  <2>3. QED
    BY <2>1, <2>2 DEF Feed!Next, Feed!Publish, Feed!vars
<1>2. CASE BrokerNext \/ StopServing \/ UNCHANGED vars
  <2>1. UNCHANGED <<published, seen, handler, left, ctxDone>>
    BY <1>2 DEF BrokerNext, BrokerTake, BrokerStop, FanoutBegin, FanoutDrain,
                FanoutPut, FanoutEnd, BrokerClose, StopServing, vars
  <2>2. QED
    BY <2>1 DEF Feed!vars
<1>3. CASE CancelContext
  <2>1. UNCHANGED <<published, seen>> /\ Live' \in SUBSET Live
    BY <1>3 DEF CancelContext
  <2>2. QED
    BY <2>1 DEF Feed!Next, Feed!End
<1>4. ASSUME NEW c \in Clients, ServiceNext(c) PROVE [Feed!Next]_Feed!vars
  <2>1. UNCHANGED <<published, seen, left, ctxDone>>
    BY <1>4 DEF ServiceNext, Follow, FollowRefused, Receive, HandOver,
                ServiceReturn, Unfollow, CloseStream
  <2>2. \A d \in Clients : handler'[d] \in {"selecting", "writing"}
                             <=> handler[d] \in {"selecting", "writing"}
    BY <1>0, <1>4 DEF ServiceNext, Follow, FollowRefused, Receive, HandOver,
                ServiceReturn, Unfollow, CloseStream, TypeInv, TypeOK
  <2>3. QED
    BY <2>1, <2>2 DEF Feed!vars
<1>5. ASSUME NEW c \in Clients, StreamEnds(c) \/ StreamError(c) \/ WriteFails(c)
                                \/ Leave(c)
      PROVE  [Feed!Next]_Feed!vars
  <2>1. UNCHANGED <<published, seen, ctxDone>> /\ left \subseteq left'
    BY <1>5 DEF StreamEnds, StreamError, WriteFails, Leave
  <2>2. \A d \in Clients : handler'[d] = handler[d] \/ handler'[d] = "ended"
    BY <1>0, <1>5 DEF StreamEnds, StreamError, WriteFails, Leave, TypeInv, TypeOK
  <2>3. Live' \in SUBSET Live
    BY <2>1, <2>2
  <2>4. QED
    BY <2>1, <2>3 DEF Feed!Next, Feed!End
<1>6. ASSUME NEW c \in Clients, WriteSnapshot(c) PROVE [Feed!Next]_Feed!vars
  <2>1. /\ seen' = [seen EXCEPT ![c] = frame[c]] /\ handler[c] = "writing"
        /\ UNCHANGED <<published, left, ctxDone>>
    BY <1>6 DEF WriteSnapshot
  <2>2. \A d \in Clients : handler'[d] \in {"selecting", "writing"}
                             <=> handler[d] \in {"selecting", "writing"}
    BY <1>0, <1>6 DEF WriteSnapshot, TypeInv, TypeOK
  <2>3. frame[c] \in seen[c] + 1 .. published
    BY <2>1, WriteMovesForward
  <2>4. Live' = Live
    BY <2>1, <2>2
  <2>5. Feed!Show(c)
    BY <2>1, <2>3, <2>4 DEF Feed!Show
  <2>6. QED
    BY <2>5 DEF Feed!Next
<1>7. ASSUME NEW c \in Clients, Connect(c) PROVE [Feed!Next]_Feed!vars
  <2>1. /\ UNCHANGED <<published, seen, left, ctxDone>>
        /\ handler[c] = "none" /\ handler'[c] = "selecting"
        /\ \A d \in Clients : d # c => handler'[d] = handler[d]
    BY <1>0, <1>7 DEF Connect, TypeInv, TypeOK
  <2>2. CASE ctxDone \/ c \in left
    <3>1. Live' = Live
      BY <2>1, <2>2
    <3>2. QED
      BY <2>1, <3>1 DEF Feed!vars
  <2>3. CASE ~ctxDone /\ c \notin left
    <3>1. Live' = Live \cup {c}
      BY <2>1, <2>3
    <3>2. QED
      BY <2>1, <3>1 DEF Feed!Next, Feed!Open
  <2>4. QED
    BY <2>2, <2>3
<1>8. QED
  BY <1>1, <1>2, <1>3, <1>4, <1>5, <1>6, <1>7 DEF Next, HandlerNext, Terminated

\* The path of a snapshot implements the promise of LatestFeed: no client is ever
\* shown an older state after a newer one, nor one that was not published.
THEOREM FeedImplements == Spec => ImplementsLatestFeed
<1>1. Init => Feed!Init
  BY DEF Init, Feed!Init
<1>2. QED
  BY <1>1, FeedCorrect, FeedSimulates, PTL
  DEF Spec, ImplementsLatestFeed, Feed!Spec
=============================================================================
