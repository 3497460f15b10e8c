---------------------------- MODULE SnapshotFeed ----------------------------
(***************************************************************************)
(* How the state of the runs reaches the watchers: the queue replaces the  *)
(* snapshot in a channel of one place (utils.SendLatest), the broker fans  *)
(* it out to one such channel for each subscriber, a goroutine of the      *)
(* service (Service.Snapshot) hands it to the handler of GET /run          *)
(* (Router.stream), and the handler writes it to the client.               *)
(*                                                                         *)
(*   - SendLatest is two steps, a drain and a put; the reader of the       *)
(*     channel may come before, between and after them;                    *)
(*   - Follow, Unfollow, fanout and Close exclude one another by b.mu; a   *)
(*     subscriber's own mutex is only taken under it and is left out;      *)
(*   - a client may leave at any moment, and the daemon may stop.          *)
(*                                                                         *)
(* A snapshot is the number of its publication: what it holds, and that    *)
(* every change is published, is RunQueue's part.  Each client has one     *)
(* stream, and its subscriber is named after it.                           *)
(***************************************************************************)
EXTENDS Naturals, Sequences

CONSTANTS
    Clients,     \* the clients that open GET /run
    MaxVersion   \* the snapshots the queue publishes before it falls silent

ASSUME SnapshotFeedAssumption == MaxVersion \in Nat \ {0}

VARIABLES
    ctxDone,     \* RunServer's context is cancelled
    serving,     \* the listener accepts connections
    published,   \* the number of the queue's newest snapshot, 0 for none
    queue,       \* where Queue.Run is: "idle", "putting" or "stopped"
    snaps,       \* q.snaps, a channel of one place
    broker,      \* where Broker.Run is
    current,     \* the snapshot it fans out
    todo,        \* the subscribers fanout has still to serve
    setting,     \* the one it is serving, between drain and put
    lastSnap,    \* b.lastSnap, 0 for nil
    subs,        \* b.subs
    closed,      \* b.closed
    chan,        \* each subscriber's channel of one place
    chanClosed,  \* the subscribers whose channel is closed
    service,     \* where each client's service goroutine is
    held,        \* the snapshot that goroutine is handing over
    errs,        \* what is in each stream's errs channel, of one place
    handler,     \* where each client's handler is
    frame,       \* the snapshot that handler is writing
    seen,        \* the newest snapshot written to each client, 0 for none
    told,        \* the clients that were sent an error frame
    left         \* the clients that went away

daemonVars  == <<ctxDone, serving>>
queueVars   == <<published, queue>>
brokerVars  == <<broker, current, todo, setting, lastSnap>>
subVars     == <<subs, closed, chanClosed>>
serviceVars == <<service, held>>
handlerVars == <<handler, frame, seen, told>>
vars == <<daemonVars, queueVars, snaps, brokerVars, subVars, chan, serviceVars,
          errs, handlerVars, left>>

-----------------------------------------------------------------------------
(* utils.SendLatest on a channel of one place.                              *)

Empty == <<>>

\* Mutant of Drained: the stale value stays in the channel.
NotDrained(ch) == ch

\* The first select takes what is in the channel, if anything.
Drained(ch) == Empty

\* The second select puts v unless the place is taken.
PutInto(ch, v) == IF ch = Empty THEN <<v>> ELSE ch

-----------------------------------------------------------------------------
Init ==
    /\ ctxDone = FALSE /\ serving = TRUE
    /\ published = 0 /\ queue = "idle" /\ snaps = Empty
    /\ broker = "select" /\ current = 0 /\ todo = {} /\ setting = {}
    /\ lastSnap = 0 /\ subs = {} /\ closed = FALSE
    /\ chan = [c \in Clients |-> Empty] /\ chanClosed = {}
    /\ service = [c \in Clients |-> "none"] /\ held = [c \in Clients |-> 0]
    /\ errs = [c \in Clients |-> Empty]
    /\ handler = [c \in Clients |-> "none"] /\ frame = [c \in Clients |-> 0]
    /\ seen = [c \in Clients |-> 0] /\ told = {} /\ left = {}

-----------------------------------------------------------------------------
(* The queue publishes: once at its start, then on the ticks after a change.*)

PublishDrain ==
    /\ queue = "idle" /\ published < MaxVersion
    /\ published' = published + 1
    /\ snaps' = Drained(snaps)
    /\ queue' = "putting"
    /\ UNCHANGED <<daemonVars, brokerVars, subVars, chan, serviceVars, errs,
                   handlerVars, left>>

PublishPut ==
    /\ queue = "putting"
    /\ snaps' = PutInto(snaps, published)
    /\ queue' = "idle"
    /\ UNCHANGED <<daemonVars, published, brokerVars, subVars, chan, serviceVars,
                   errs, handlerVars, left>>

\* Queue.Run returns and closes q.snaps; what is in it can still be taken.
QueueStop ==
    /\ queue = "idle" /\ published > 0 /\ ctxDone
    /\ queue' = "stopped"
    /\ UNCHANGED <<daemonVars, published, snaps, brokerVars, subVars, chan,
                   serviceVars, errs, handlerVars, left>>

-----------------------------------------------------------------------------
(* Broker.Run.                                                              *)

\* Mutant of BrokerTake: ok is not looked at, so a closed channel yields the
\* zero snapshot.
BrokerTakeUnchecked ==
    /\ broker = "select" /\ (snaps # Empty \/ queue = "stopped")
    /\ current' = IF snaps = Empty THEN 0 ELSE Head(snaps)
    /\ snaps' = Empty
    /\ broker' = "locking"
    /\ UNCHANGED <<daemonVars, queueVars, todo, setting, lastSnap, subVars, chan,
                   serviceVars, errs, handlerVars, left>>

BrokerTake ==
    /\ broker = "select" /\ snaps # Empty
    /\ current' = Head(snaps)
    /\ snaps' = Empty
    /\ broker' = "locking"
    /\ UNCHANGED <<daemonVars, queueVars, todo, setting, lastSnap, subVars, chan,
                   serviceVars, errs, handlerVars, left>>

BrokerStop ==
    /\ broker = "select"
    /\ ctxDone \/ (queue = "stopped" /\ snaps = Empty)
    /\ broker' = "closing"
    /\ UNCHANGED <<daemonVars, queueVars, snaps, current, todo, setting, lastSnap,
                   subVars, chan, serviceVars, errs, handlerVars, left>>

\* fanout takes b.mu and holds it until it ends.
FanoutBegin ==
    /\ broker = "locking"
    /\ broker' = "fanout"
    /\ todo' = subs
    /\ UNCHANGED <<daemonVars, queueVars, snaps, current, setting, lastSnap,
                   subVars, chan, serviceVars, errs, handlerVars, left>>

\* The subscribers are served in the order of a map: any.
FanoutDrain(c) ==
    /\ broker = "fanout" /\ setting = {} /\ c \in todo
    /\ chan' = [chan EXCEPT ![c] = Drained(@)]
    /\ setting' = {c}
    /\ UNCHANGED <<daemonVars, queueVars, snaps, broker, current, todo, lastSnap,
                   subVars, serviceVars, errs, handlerVars, left>>

FanoutPut(c) ==
    /\ c \in setting
    /\ chan' = [chan EXCEPT ![c] = PutInto(@, current)]
    /\ setting' = {}
    /\ todo' = todo \ {c}
    /\ UNCHANGED <<daemonVars, queueVars, snaps, broker, current, lastSnap,
                   subVars, serviceVars, errs, handlerVars, left>>

FanoutEnd ==
    /\ broker = "fanout" /\ todo = {}
    /\ lastSnap' = current
    /\ broker' = "select"
    /\ UNCHANGED <<daemonVars, queueVars, snaps, current, todo, setting, subVars,
                   chan, serviceVars, errs, handlerVars, left>>

\* Mutant of BrokerClose: the subscribers are forgotten with open channels.
BrokerCloseForgets ==
    /\ broker = "closing"
    /\ closed' = TRUE
    /\ subs' = {}
    /\ broker' = "ended"
    /\ UNCHANGED <<daemonVars, queueVars, snaps, current, todo, setting, lastSnap,
                   chanClosed, chan, serviceVars, errs, handlerVars, left>>

\* Broker.Close, deferred by Run: under b.mu, all at once.
BrokerClose ==
    /\ broker = "closing"
    /\ closed' = TRUE
    /\ chanClosed' = chanClosed \cup subs
    /\ subs' = {}
    /\ broker' = "ended"
    /\ UNCHANGED <<daemonVars, queueVars, snaps, current, todo, setting, lastSnap,
                   chan, serviceVars, errs, handlerVars, left>>

\* Mutant of MutexFree: Follow and Unfollow do not take b.mu.
NoMutex == TRUE

MutexFree == broker # "fanout"

-----------------------------------------------------------------------------
(* The service goroutine of one stream.  Its context is the request's.      *)

RequestDone(c) == c \in left \/ handler[c] = "ended"

\* Mutant of Replay: a new subscriber waits for the next change.
NoReplay == Empty

\* What a new subscriber's channel starts with.
Replay == IF lastSnap # 0 THEN <<lastSnap>> ELSE Empty

Follow(c) ==
    /\ service[c] = "following" /\ MutexFree
    /\ ~closed
    /\ subs' = subs \cup {c}
    /\ chan' = [chan EXCEPT ![c] = Replay]
    /\ service' = [service EXCEPT ![c] = "receiving"]
    /\ UNCHANGED <<daemonVars, queueVars, snaps, brokerVars, closed, chanClosed,
                   held, errs, handlerVars, left>>

\* The error goes into errs, unless the request has ended too.
FollowRefused(c) ==
    /\ service[c] = "following" /\ MutexFree
    /\ closed
    /\ \/ errs' = [errs EXCEPT ![c] = <<"ErrClosed">>]
       \/ RequestDone(c) /\ UNCHANGED errs
    /\ service' = [service EXCEPT ![c] = "closingErrs"]
    /\ UNCHANGED <<daemonVars, queueVars, snaps, brokerVars, subVars, chan, held,
                   handlerVars, left>>

Receive(c) ==
    /\ service[c] = "receiving" /\ chan[c] # Empty
    /\ held' = [held EXCEPT ![c] = Head(chan[c])]
    /\ chan' = [chan EXCEPT ![c] = Empty]
    /\ service' = [service EXCEPT ![c] = "handing"]
    /\ UNCHANGED <<daemonVars, queueVars, snaps, brokerVars, subVars, errs,
                   handlerVars, left>>

\* data is unbuffered: the handler takes the snapshot as it is sent.
HandOver(c) ==
    /\ service[c] = "handing" /\ handler[c] = "selecting"
    /\ frame' = [frame EXCEPT ![c] = held[c]]
    /\ held' = [held EXCEPT ![c] = 0]
    /\ service' = [service EXCEPT ![c] = "receiving"]
    /\ handler' = [handler EXCEPT ![c] = "writing"]
    /\ UNCHANGED <<daemonVars, queueVars, snaps, brokerVars, subVars, chan, errs,
                   seen, told, left>>

\* The broker closed the channel, or the request is over.
ServiceReturn(c) ==
    /\ \/ service[c] = "receiving" /\ chan[c] = Empty /\ c \in chanClosed
       \/ service[c] \in {"receiving", "handing"} /\ RequestDone(c)
    /\ held' = [held EXCEPT ![c] = 0]
    /\ service' = [service EXCEPT ![c] = "unfollowing"]
    /\ UNCHANGED <<daemonVars, queueVars, snaps, brokerVars, subVars, chan, errs,
                   handlerVars, left>>

\* The deferred Unfollow.  After Close there is nothing left to do.
Unfollow(c) ==
    /\ service[c] = "unfollowing" /\ MutexFree
    /\ chanClosed' = IF closed THEN chanClosed ELSE chanClosed \cup ({c} \cap subs)
    /\ subs' = IF closed THEN subs ELSE subs \ {c}
    /\ service' = [service EXCEPT ![c] = "closingErrs"]
    /\ UNCHANGED <<daemonVars, queueVars, snaps, brokerVars, closed, chan, held,
                   errs, handlerVars, left>>

\* The deferred closes: errs first, then data.
CloseStream(c) ==
    /\ \/ /\ service[c] = "closingErrs"
          /\ service' = [service EXCEPT ![c] = "closingData"]
       \/ /\ service[c] = "closingData"
          /\ service' = [service EXCEPT ![c] = "ended"]
    /\ UNCHANGED <<daemonVars, queueVars, snaps, brokerVars, subVars, chan, held,
                   errs, handlerVars, left>>

ErrsClosed(c) == service[c] \in {"closingData", "ended"}
DataClosed(c) == service[c] = "ended"

-----------------------------------------------------------------------------
(* The handler of GET /run and its client.                                  *)

\* The header is written, the service goroutine started.
Connect(c) ==
    /\ serving /\ handler[c] = "none"
    /\ handler' = [handler EXCEPT ![c] = "selecting"]
    /\ service' = [service EXCEPT ![c] = "following"]
    /\ UNCHANGED <<daemonVars, queueVars, snaps, brokerVars, subVars, chan, held,
                   errs, frame, seen, told, left>>

\* The handler's select finds the request over, errs closed or data closed.
StreamEnds(c) ==
    /\ handler[c] = "selecting"
    /\ \/ c \in left
       \/ ErrsClosed(c) /\ errs[c] = Empty
       \/ DataClosed(c)
    /\ handler' = [handler EXCEPT ![c] = "ended"]
    /\ UNCHANGED <<daemonVars, queueVars, snaps, brokerVars, subVars, chan,
                   serviceVars, errs, frame, seen, told, left>>

\* An error is sent in-band; it reaches a client that is there.
StreamError(c) ==
    /\ handler[c] = "selecting" /\ errs[c] # Empty
    /\ errs' = [errs EXCEPT ![c] = Empty]
    /\ told' = told \cup ({c} \ left)
    /\ handler' = [handler EXCEPT ![c] = "ended"]
    /\ UNCHANGED <<daemonVars, queueVars, snaps, brokerVars, subVars, chan,
                   serviceVars, frame, seen, left>>

WriteSnapshot(c) ==
    /\ handler[c] = "writing"
    /\ seen' = [seen EXCEPT ![c] = frame[c]]
    /\ frame' = [frame EXCEPT ![c] = 0]
    /\ handler' = [handler EXCEPT ![c] = "selecting"]
    /\ UNCHANGED <<daemonVars, queueVars, snaps, brokerVars, subVars, chan,
                   serviceVars, errs, told, left>>

WriteFails(c) ==
    /\ handler[c] = "writing" /\ c \in left
    /\ frame' = [frame EXCEPT ![c] = 0]
    /\ handler' = [handler EXCEPT ![c] = "ended"]
    /\ UNCHANGED <<daemonVars, queueVars, snaps, brokerVars, subVars, chan,
                   serviceVars, errs, seen, told, left>>

Leave(c) ==
    /\ handler[c] \in {"selecting", "writing"} /\ c \notin left
    /\ left' = left \cup {c}
    /\ UNCHANGED <<daemonVars, queueVars, snaps, brokerVars, subVars, chan,
                   serviceVars, errs, handlerVars>>

-----------------------------------------------------------------------------
(* The daemon stops: first the context, then the listener (srv.Shutdown).   *)

CancelContext ==
    /\ ~ctxDone
    /\ ctxDone' = TRUE
    /\ UNCHANGED <<serving, queueVars, snaps, brokerVars, subVars, chan,
                   serviceVars, errs, handlerVars, left>>

StopServing ==
    /\ ctxDone /\ serving
    /\ serving' = FALSE
    /\ UNCHANGED <<ctxDone, queueVars, snaps, brokerVars, subVars, chan,
                   serviceVars, errs, handlerVars, left>>

Terminated ==
    /\ ~serving /\ queue = "stopped" /\ broker = "ended"
    /\ \A c \in Clients : handler[c] \in {"none", "ended"}
                            /\ service[c] \in {"none", "ended"}
    /\ UNCHANGED vars

-----------------------------------------------------------------------------
QueueNext  == PublishDrain \/ PublishPut \/ QueueStop
BrokerNext ==
    \/ BrokerTake \/ BrokerStop \/ FanoutBegin \/ FanoutEnd \/ BrokerClose
    \/ \E c \in Clients : FanoutDrain(c) \/ FanoutPut(c)
ServiceNext(c) ==
    \/ Follow(c) \/ FollowRefused(c) \/ Receive(c) \/ HandOver(c)
    \/ ServiceReturn(c) \/ Unfollow(c) \/ CloseStream(c)
HandlerNext(c) ==
    StreamEnds(c) \/ StreamError(c) \/ WriteSnapshot(c) \/ WriteFails(c)

Next ==
    \/ QueueNext \/ BrokerNext
    \/ \E c \in Clients :
         ServiceNext(c) \/ HandlerNext(c) \/ Connect(c) \/ Leave(c)
    \/ CancelContext \/ StopServing
    \/ Terminated

Spec == Init /\ [][Next]_vars

\* Fairness, with the code that justifies it: goroutines are scheduled; a mutex
\* and a select do not pass over a goroutine for ever, and as the snapshots are
\* bounded that needs no more than weak fairness; a write ends, because the client
\* reads or is gone.  Nothing makes a client come or go, a change happen or the
\* daemon stop.
Fairness ==
    /\ WF_vars(PublishPut)
    /\ WF_vars(BrokerNext)
    /\ \A c \in Clients : WF_vars(ServiceNext(c)) /\ WF_vars(HandlerNext(c))

FairSpec == Spec /\ Fairness

-----------------------------------------------------------------------------
(* Properties.                                                              *)

Versions == 0 .. MaxVersion
Channels == {Empty} \cup {<<v>> : v \in 1 .. MaxVersion}

TypeOK ==
    /\ ctxDone \in BOOLEAN /\ serving \in BOOLEAN
    /\ published \in Versions
    /\ queue \in {"idle", "putting", "stopped"}
    /\ snaps \in Channels
    /\ broker \in {"select", "locking", "fanout", "closing", "ended"}
    /\ current \in Versions
    /\ todo \subseteq Clients /\ setting \subseteq Clients
    /\ lastSnap \in Versions
    /\ subs \subseteq Clients /\ closed \in BOOLEAN
    /\ chan \in [Clients -> Channels] /\ chanClosed \subseteq Clients
    /\ service \in [Clients -> {"none", "following", "receiving", "handing",
                                "unfollowing", "closingErrs", "closingData", "ended"}]
    /\ held \in [Clients -> Versions]
    /\ errs \in [Clients -> {Empty, <<"ErrClosed">>}]
    /\ handler \in [Clients -> {"none", "selecting", "writing", "ended"}]
    /\ frame \in [Clients -> Versions] /\ seen \in [Clients -> Versions]
    /\ told \subseteq Clients /\ left \subseteq Clients

\* SendLatest never gives up a snapshot: between its two steps nobody else fills
\* the place, so the channel always ends up with the latest one.
PutsSucceed ==
    /\ queue = "putting" => snaps = Empty
    /\ \A c \in setting : chan[c] = Empty

\* The broker serves exactly the goroutines that follow it, on channels that are
\* open: no send on a closed channel, and no subscriber outlives its stream.
SubscribersFollow ==
    /\ subs = {c \in Clients :
                 ~closed /\ service[c] \in {"receiving", "handing", "unfollowing"}}
    /\ subs \cap chanClosed = {}
    /\ todo \subseteq subs

\* "Errors after the stream has started are sent in-band as event: error frames"
\* (ARCHITECTURE.md:96): a handler does not return past an error while its client
\* is there.
ErrorsAreSent ==
    \A c \in Clients : handler[c] = "ended" /\ c \notin left => errs[c] = Empty

\* When the client goes, or the daemon stops, the handler and the service
\* goroutine of the stream end: neither is left blocked on the other's channel.
StreamsEnd ==
    \A c \in Clients :
        c \in left \/ (ctxDone /\ handler[c] # "none")
          ~> handler[c] = "ended" /\ service[c] = "ended"

-----------------------------------------------------------------------------
(* The feed implements LatestFeed.                                          *)

Feed == INSTANCE LatestFeed WITH
    Final  <- MaxVersion,
    latest <- published,
    shown  <- seen,
    open   <- {c \in Clients : handler[c] \in {"selecting", "writing"}
                                 /\ c \notin left /\ ~ctxDone}

\* What a client is shown only ever moves forward.
ImplementsLatestFeed == Feed!Spec

\* A slow client misses snapshots, but never the last one, and a new client is
\* shown the present state without waiting for a change.
LatestArrives == Feed!CatchesUp
=============================================================================
