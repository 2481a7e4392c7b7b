--------------------------- MODULE CoinbaseStream ---------------------------
(***************************************************************************)
(* exchange::coinbase::ws::CoinbaseStreamClient: publish/subscribe over one *)
(* WebSocket connection (src/coinbase/ws_streams.cpp).                      *)
(*                                                                         *)
(* Unlike ExchangeWsClient it has no correlation ids: a subscription counts *)
(* as accepted when it is sent, inbound frames are routed by message type,  *)
(* and one mutex, mu_, guards the queue and the handlers. Every critical    *)
(* section of mu_ is one action. What happens after the unlock, the sending *)
(* above all, is an action of its own.                                     *)
(*                                                                         *)
(* The actors are those of WsClient: Callers, the I/O thread, and the       *)
(* transport with the exchange behind it (external). A frame is its kind    *)
(* and the subscription it belongs to; subscriptions are numbered in the    *)
(* order in which they install their handlers.                             *)
(***************************************************************************)
EXTENDS Integers, Sequences, FiniteSets

CONSTANTS
    Callers,        \* threads that call the client's API
    IoThread,       \* the transport's thread; in Callers if callbacks call back
    Channels,       \* channels the application subscribes to
    Observers,      \* of "error" and "subscriptions": observers it may install
    MaxCalls,       \* bound: subscriptions
    MaxInbox,       \* bound: transport events not yet dispatched
    MaxOpens        \* bound: times the transport opens

\* The typed subscriptions: the message types that each channel's callback
\* is installed for.
OrderTypes == {"received", "open", "done", "match", "change", "activate"}
MessageTypes ==
    [ticker |-> {"ticker"},
     matches |-> {"match", "last_match"},
     level2 |-> {"snapshot", "l2update"},
     level2_batch |-> {"snapshot", "l2update"},
     heartbeat |-> {"heartbeat"},
     full |-> OrderTypes,
     user |-> OrderTypes]

ASSUME ChannelsAssumption == Channels \subseteq DOMAIN MessageTypes
ASSUME ObserversAssumption == Observers \subseteq {"error", "subscriptions"}
ASSUME LimitsAssumption == MaxCalls \in Nat /\ MaxInbox \in Nat /\ MaxOpens \in Nat

VARIABLES
    \* the transport and the exchange
    conn_up,        \* is the connection open?
    opens,          \* times it has opened
    inbox,          \* events the I/O thread has still to dispatch, oldest first
    wire,           \* frames sent on the open connection, oldest first
    \* the client
    ready,          \* init() has attached the callbacks
    connected,      \* connected_
    send_queue,     \* send_queue_
    handlers,       \* handlers_: message type -> subscription
    observers,      \* which of on_error_, on_subscriptions_ are set
    \* one entry per subscription
    channel,        \* what it subscribed to
    active,         \* the handle's shared atomic flag
    \* threads
    pc, cur, msg,   \* per caller: step, subscription, frame kind
    io_pc, io_id,   \* the I/O thread: step, subscription whose callback runs
    queued          \* on_open_handler's copy of the queue, less what it has sent

transport == <<conn_up, opens, inbox>>
subs == <<channel, active>>
threads == <<pc, cur, msg>>
io == <<io_pc, io_id, queued>>
vars == <<transport, wire, ready, connected, send_queue, handlers, observers, subs, threads, io>>

-----------------------------------------------------------------------------
Ids == 1..MaxCalls
NoCall == 0
NoChannel == "none"
Types == UNION {MessageTypes[c] : c \in Channels}

Frames == [kind : {"subscribe", "unsubscribe"}, id : Ids]

\* "untyped" is JSON without a string in "type"; "noise" does not parse or has
\* a type nobody handles.
Lifecycle == [type : {"open", "close"}]
Inbound == [type : {"error", "subscriptions", "untyped", "noise"}]
           \cup [type : {"push"}, message : Types]
Events == Lifecycle \cup Inbound

Issued == {id \in Ids : channel[id] # NoChannel}
TypesOf(id) == MessageTypes[channel[id]]
InCallback == io_pc \in {"callback", "observer"}
Alive == io_pc # "terminated"
CanRun(t) == ready /\ Alive /\ (t = IoThread => InCallback)

\* subscribe_raw has returned this handle to the application.
Held(id) == id \in Issued /\ \A t \in Callers : ~(cur[t] = id /\ msg[t] = "subscribe")

Init ==
    /\ conn_up = FALSE /\ opens = 0 /\ inbox = <<>> /\ wire = <<>>
    /\ ready = FALSE /\ connected = FALSE /\ send_queue = <<>>
    /\ handlers = [m \in Types |-> NoCall]
    /\ observers = {}
    /\ channel = [id \in Ids |-> NoChannel]
    /\ active = [id \in Ids |-> FALSE]
    /\ pc = [t \in Callers |-> "idle"]
    /\ cur = [t \in Callers |-> NoCall]
    /\ msg = [t \in Callers |-> "subscribe"]
    /\ io_pc = "idle" /\ io_id = NoCall /\ queued = <<>>

-----------------------------------------------------------------------------
(* The parts of the operations below on which the properties turn, each      *)
(* after the slip that the model-checking of that property is tried against. *)

\* queued.swap(send_queue_)
CopyBacklog == queued' = send_queue /\ UNCHANGED send_queue
SwapBacklog == queued' = send_queue /\ send_queue' = <<>>

\* if (!connected_.load()) { send_queue_.push_back(payload); return; }
AfterQueueing == "send"
AfterQueued == "idle"

\* for (const auto& t : message_types) handlers_.erase(t)
EraseOne(id) == [m \in Types |-> IF m = CHOOSE n \in TypesOf(id) : TRUE THEN NoCall ELSE handlers[m]]
EraseAll(id) == [m \in Types |-> IF m \in TypesOf(id) THEN NoCall ELSE handlers[m]]

\* What the client remembers across a close: the handlers.
CloseDropsHandlers == handlers' = [m \in Types |-> NoCall]
CloseKeepsHandlers == UNCHANGED handlers

\* if (it != handlers_.end()) ... if (handler)
AnyHandler(id) == TRUE
HasHandler(id) == id # NoCall

\* for (const auto& m : queued) conn_->send(m)
FlushNothing == FALSE
FlushMore == queued # <<>>

-----------------------------------------------------------------------------
(* init(): attaches the callbacks, and does not look at the connection.    *)

Attach ==
    /\ ~ready /\ ready' = TRUE
    /\ UNCHANGED <<transport, wire, connected, send_queue, handlers, observers, subs, threads, io>>

-----------------------------------------------------------------------------
(* The application's threads.                                              *)

\* set_on_error, set_on_subscriptions
SetObserver(t, kind) ==
    /\ CanRun(t) /\ pc[t] = "idle"
    /\ observers' = observers \cup {kind}
    /\ UNCHANGED <<transport, wire, ready, connected, send_queue, handlers, subs, threads, io>>

\* subscribe_...: install the callback for every message type of the channel,
\* replacing what is there, and make a handle that is active from the start.
Subscribe(t, c) ==
    \E id \in Ids \ Issued :
       /\ CanRun(t) /\ pc[t] = "idle"
       /\ \A other \in Ids \ Issued : id <= other
       /\ handlers' = [m \in Types |-> IF m \in MessageTypes[c] THEN id ELSE handlers[m]]
       /\ channel' = [channel EXCEPT ![id] = c]
       /\ active' = [active EXCEPT ![id] = TRUE]
       /\ cur' = [cur EXCEPT ![t] = id]
       /\ pc' = [pc EXCEPT ![t] = "enqueue"]
       /\ UNCHANGED <<transport, wire, ready, connected, send_queue, observers, msg, io>>

\* CoinbaseSubscriptionHandle::cancel: an inactive handle returns at once.
CancelExchange(t, id) ==
    /\ CanRun(t) /\ pc[t] = "idle"
    /\ Held(id) /\ active[id]
    /\ active' = [active EXCEPT ![id] = FALSE]
    /\ cur' = [cur EXCEPT ![t] = id]
    /\ msg' = [msg EXCEPT ![t] = "unsubscribe"]
    /\ pc' = [pc EXCEPT ![t] = "erase"]
    /\ UNCHANGED <<transport, wire, ready, connected, send_queue, handlers, observers, channel, io>>

\* remove_handlers: erase the message types, whoever installed the callbacks.
CancelErase(t) ==
    /\ CanRun(t) /\ pc[t] = "erase"
    /\ handlers' = EraseAll(cur[t])
    /\ pc' = [pc EXCEPT ![t] = "enqueue"]
    /\ UNCHANGED <<transport, wire, ready, connected, send_queue, observers, subs, cur, msg, io>>

\* enqueue_or_send: decide under mu_ ...
NewFrame(t) == [kind |-> msg[t], id |-> cur[t]]

Leaves(t, to) ==
    /\ pc' = [pc EXCEPT ![t] = to]
    /\ cur' = [cur EXCEPT ![t] = IF to = "idle" THEN NoCall ELSE @]
    /\ msg' = [msg EXCEPT ![t] = IF to = "idle" THEN "subscribe" ELSE @]

Enqueue(t) ==
    /\ CanRun(t) /\ pc[t] = "enqueue"
    /\ IF connected
       THEN Leaves(t, "send") /\ UNCHANGED send_queue
       ELSE Leaves(t, AfterQueued) /\ send_queue' = Append(send_queue, NewFrame(t))
    /\ UNCHANGED <<transport, wire, ready, connected, handlers, observers, subs, io>>

\* ... and send after the unlock. A transport that is down loses the frame.
OnWire(frame) == IF conn_up THEN Append(wire, frame) ELSE wire

Send(t) ==
    /\ CanRun(t) /\ pc[t] = "send"
    /\ wire' = OnWire(NewFrame(t))
    /\ Leaves(t, "idle")
    /\ UNCHANGED <<transport, ready, connected, send_queue, handlers, observers, subs, io>>

Caller(t) ==
    \/ \E kind \in Observers : SetObserver(t, kind)
    \/ \E c \in Channels : Subscribe(t, c)
    \/ \E id \in Ids : CancelExchange(t, id)
    \/ CancelErase(t) \/ Enqueue(t) \/ Send(t)

-----------------------------------------------------------------------------
(* The I/O thread: one event at a time, in the order they arrived.         *)

Dispatches(type) ==
    /\ ready /\ io_pc = "idle"
    /\ inbox # <<>> /\ Head(inbox).type = type
    /\ inbox' = Tail(inbox)
    /\ UNCHANGED <<conn_up, opens, wire, ready, observers, subs, threads>>

IoDiscard ==
    /\ ~ready /\ inbox # <<>>
    /\ inbox' = Tail(inbox)
    /\ UNCHANGED <<conn_up, opens, wire, ready, connected, send_queue, handlers, observers, subs,
                   threads, io>>

\* on_open_handler: set connected_ and take the queue under mu_ ...
IoOpen ==
    /\ Dispatches("open")
    /\ connected' = TRUE /\ SwapBacklog
    /\ io_pc' = "flush"
    /\ UNCHANGED <<handlers, io_id>>

\* ... and send it after the unlock.
IoFlush ==
    /\ io_pc = "flush" /\ FlushMore
    /\ wire' = OnWire(Head(queued))
    /\ queued' = Tail(queued)
    /\ UNCHANGED <<transport, ready, connected, send_queue, handlers, observers, subs, threads,
                   io_pc, io_id>>

IoFlushed ==
    /\ io_pc = "flush" /\ queued = <<>>
    /\ io_pc' = "idle"
    /\ UNCHANGED <<transport, wire, ready, connected, send_queue, handlers, observers, subs,
                   threads, io_id, queued>>

\* on_close: connected_ is cleared without mu_; the queue and the handlers stay.
IoClose ==
    /\ Dispatches("close")
    /\ connected' = FALSE /\ CloseKeepsHandlers
    /\ UNCHANGED <<send_queue, io>>

\* What does not parse, or has no handler, is dropped.
IoNoise ==
    /\ Dispatches("noise")
    /\ UNCHANGED <<connected, send_queue, handlers, io>>

\* The observer is copied under mu_ and run after the unlock.
IoObserve(kind) ==
    /\ Dispatches(kind)
    /\ io_pc' = IF kind \in observers THEN "observer" ELSE "idle"
    /\ UNCHANGED <<connected, send_queue, handlers, io_id, queued>>

\* The handler too.
IoPush ==
    LET id == handlers[Head(inbox).message] IN
    /\ Dispatches("push")
    /\ IF HasHandler(id)
       THEN io_pc' = "callback" /\ io_id' = id
       ELSE UNCHANGED <<io_pc, io_id>>
    /\ UNCHANGED <<connected, send_queue, handlers, queued>>

\* It returns, by a std::exception or not, once what it called has returned.
IoCallbackReturns ==
    /\ InCallback /\ (IoThread \in Callers => pc[IoThread] = "idle")
    /\ io_pc' = "idle" /\ io_id' = NoCall
    /\ UNCHANGED <<transport, wire, ready, connected, send_queue, handlers, observers, subs,
                   threads, queued>>

\* An exception leaves on_raw_message and so ends the process: any that an
\* observer throws, what is no std::exception from a handler, and what looking
\* for the type of an untyped frame throws.
Escapes ==
    /\ UNCHANGED <<connected, send_queue, handlers, io_id, queued>>
    /\ io_pc' = "terminated"
    /\ \/ Dispatches("untyped")
       \/ /\ InCallback /\ (IoThread \in Callers => pc[IoThread] = "idle")
          /\ UNCHANGED <<transport, wire, ready, observers, subs, threads>>

IoStep ==
    \/ IoDiscard \/ IoOpen \/ IoFlush \/ IoFlushed \/ IoClose \/ IoNoise
    \/ \E kind \in {"error", "subscriptions"} : IoObserve(kind)
    \/ IoPush \/ IoCallbackReturns

-----------------------------------------------------------------------------
(* The transport and the exchange.                                         *)

Receives(event) ==
    /\ Alive /\ conn_up /\ Len(inbox) < MaxInbox
    /\ inbox' = Append(inbox, event)
    /\ UNCHANGED <<conn_up, opens, wire, ready, connected, send_queue, handlers, observers, subs,
                   threads, io>>

ConnOpen ==
    /\ Alive /\ ~conn_up /\ opens < MaxOpens
    /\ conn_up' = TRUE
    /\ opens' = opens + 1
    /\ wire' = <<>>
    /\ inbox' = Append(inbox, [type |-> "open"])
    /\ UNCHANGED <<ready, connected, send_queue, handlers, observers, subs, threads, io>>

\* What the connection carried to the exchange is gone, and perhaps the last
\* part of what it had received.
ConnDrop ==
    /\ Alive /\ conn_up
    /\ conn_up' = FALSE
    /\ wire' = <<>>
    /\ \E kept \in 0..Len(inbox) :
          /\ \A i \in (kept + 1)..Len(inbox) : inbox[i] \in Inbound
          /\ inbox' = Append(SubSeq(inbox, 1, kept), [type |-> "close"])
    /\ UNCHANGED <<opens, ready, connected, send_queue, handlers, observers, subs, threads, io>>

\* The exchange pushes on a channel once it has seen a subscription to it, and
\* tells the state of all subscriptions or an error.
PushOn(i) ==
    /\ wire[i].kind = "subscribe"
    /\ \E m \in Types :
          m \in TypesOf(wire[i].id) /\ Receives([type |-> "push", message |-> m])

Environment ==
    \/ ConnOpen \/ ConnDrop
    \/ \E i \in DOMAIN wire : PushOn(i)
    \/ \E type \in {"error", "subscriptions", "untyped", "noise"} : Receives([type |-> type])

-----------------------------------------------------------------------------
Next ==
    \/ Attach
    \/ \E t \in Callers : Caller(t)
    \/ IoStep \/ Escapes
    \/ Environment

Spec == Init /\ [][Next]_vars

\* A thread inside the client keeps running, init() and the I/O thread too.
\* Nothing is assumed of applications, transport or exchange.
Fairness ==
    /\ WF_vars(Attach) /\ WF_vars(IoStep)
    /\ \A t \in Callers : WF_vars(CancelErase(t)) /\ WF_vars(Enqueue(t)) /\ WF_vars(Send(t))

FairSpec == Spec /\ Fairness

-----------------------------------------------------------------------------
(* Properties.                                                             *)

TypeOK ==
    /\ conn_up \in BOOLEAN /\ opens \in 0..MaxOpens
    /\ inbox \in Seq(Events) /\ wire \in Seq(Frames)
    /\ ready \in BOOLEAN /\ connected \in BOOLEAN /\ send_queue \in Seq(Frames)
    /\ handlers \in [Types -> Ids \cup {NoCall}]
    /\ observers \subseteq Observers
    /\ channel \in [Ids -> Channels \cup {NoChannel}]
    /\ active \in [Ids -> BOOLEAN]
    /\ pc \in [Callers -> {"idle", "erase", "enqueue", "send"}]
    /\ cur \in [Callers -> Ids \cup {NoCall}]
    /\ msg \in [Callers -> {"subscribe", "unsubscribe"}]
    /\ io_pc \in {"idle", "flush", "callback", "observer", "terminated"}
    /\ io_id \in Ids \cup {NoCall} /\ (io_pc = "callback" => io_id \in Ids)
    /\ queued \in Seq(Frames)

\* No frame is stranded: while connected_ is set the queue is empty, so nothing
\* is queued behind an open that has taken the queue.
NoStrandedFrame == connected => send_queue = <<>>

\* Where a frame of this kind for this subscription is: with a thread that
\* prepares it, in the queue, in the flush or on the wire.
Preparing(kind, id) == {t \in Callers : pc[t] # "idle" /\ msg[t] = kind /\ cur[t] = id}
InFlight == send_queue \o queued \o wire
Positions(kind, id) == {i \in DOMAIN InFlight : InFlight[i] = [kind |-> kind, id |-> id]}
Copies(kind, id) == Cardinality(Preparing(kind, id)) + Cardinality(Positions(kind, id))

\* No frame is sent twice, however opens, flushes and cancels of copies of a
\* handle interleave; and until a connection is lost none gets lost: each
\* subscription has its subscribe and each cancelled one its unsubscribe.
SentOnce ==
    \A id \in Issued :
       /\ Copies("subscribe", id) <= 1 /\ Copies("unsubscribe", id) <= 1
       /\ opens = 0 \/ (opens = 1 /\ conn_up) =>
             /\ Copies("subscribe", id) = 1
             /\ Copies("unsubscribe", id) = IF active[id] THEN 0 ELSE 1

\* Two subscriptions are for a common message type.
Overlap(id, other) == TypesOf(id) \cap TypesOf(other) # {}

\* A live handle's callback is installed for each message type of its channel,
\* unless a later subscription to that type replaced it or a cancelled one
\* that overlaps removed it: no close, reopen or other channel does.
LiveHandleRouted ==
    \A id \in Issued : active[id] =>
       \A m \in TypesOf(id) :
          \/ handlers[m] = id
          \/ \E other \in Issued :
                m \in TypesOf(other) /\ (other > id \/ ~active[other])

\* Once cancel() has returned, none of the handle's callbacks is installed, for
\* any message type, whatever other threads and the I/O thread did meanwhile.
CancelledStaysOff ==
    \A id \in Issued :
       ~active[id] /\ (\A t \in Callers : ~(pc[t] = "erase" /\ cur[t] = id)) =>
          \A m \in Types : handlers[m] # id

\* If the connection stays open, and the process alive, every frame is sent. The
\* connection is one that init() found closed: init() does not ask whether it is
\* open, so a client of a connection that is already open queues for ever.
QueueDrains ==
    <>[]conn_up /\ [](conn_up => ready) /\ []Alive => <>[](send_queue = <<>> /\ queued = <<>>)

-----------------------------------------------------------------------------
(* What the repository says of the client and the code does not do.         *)

\* The exchange sees "subscribe + unsubscribe" of a handle
\* (test_coinbase_ws_client.cpp:287), in this order.
SubscribeFirst ==
    \A i, j \in DOMAIN wire :
       wire[i].id = wire[j].id /\ wire[i].kind = "unsubscribe" /\ wire[j].kind = "subscribe" => j < i
=============================================================================
