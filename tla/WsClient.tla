------------------------------ MODULE WsClient ------------------------------
(***************************************************************************)
(* exchange::ws::ExchangeWsClient: request/reply and push dispatch over one *)
(* WebSocket connection (src/exchange/common/ws_client.cpp, ws.cpp,         *)
(* include/exchange/common/ws_client.inl, ix_ws_connection.hpp).            *)
(*                                                                         *)
(* Three kinds of actor interleave:                                        *)
(*   - Callers: application threads inside execute, subscribe, cancel;     *)
(*   - the I/O thread of the transport, which runs every on_... callback;  *)
(*   - the transport and the exchange behind it (external).                *)
(* An action is one critical section, one atomic access or one callback:   *)
(* the client holds no lock between two actions except queue_mu_, which is *)
(* a variable because conn_->send() runs under it.                         *)
(*                                                                         *)
(* A frame is its kind, the id of the call it belongs to and the position  *)
(* (stamp) in which enqueue_or_send took queue_mu_ for it; JSON is left    *)
(* out. pending_ maps a correlation id to a handler that is determined by  *)
(* the call, so it is the set of its keys.                                 *)
(***************************************************************************)
EXTENDS Integers, Sequences

CONSTANTS
    Callers,        \* threads that call the client's API
    IoThread,       \* the transport's thread; in Callers if callbacks call back
    Nobody,         \* the owner of a free mutex
    RouteKeys,      \* routing keys of subscriptions
    MaxCalls,       \* bound: calls issued (next_req_id_ is unbounded in the code)
    MaxInbox,       \* bound: transport events not yet dispatched
    MaxOpens,       \* bound: times the transport opens
    ConnectFirst    \* may the transport open before init() has finished?

ASSUME ThreadsAssumption == Nobody # IoThread /\ Nobody \notin Callers
ASSUME BoundsAssumption == MaxCalls \in Nat /\ MaxInbox \in Nat /\ MaxOpens \in Nat
ASSUME FlagAssumption == ConnectFirst \in BOOLEAN

VARIABLES
    \* the transport and the exchange
    conn_up,        \* IWsConnection::is_connected()
    opens,          \* times it has opened
    inbox,          \* events the I/O thread has still to dispatch, oldest first
    wire,           \* frames sent on the open connection, oldest first
    \* the client
    init_pc,        \* progress of init(): "check", "attach", "ready"
    connected,      \* connected_
    queue_mu,       \* owner of queue_mu_
    send_queue,     \* send_queue_
    next_req_id,    \* next_req_id_
    pending,        \* keys of pending_
    subscriptions,  \* subscriptions_: route key -> call that installed the callback
    \* one entry per call
    call,           \* what was called: operation and route key
    active,         \* the handle's shared atomic flag
    result,         \* what the promise holds
    fut,            \* what the application did with the future
    \* threads
    pc, cur, msg, direct,       \* per caller: step, call, frame kind, connected_ as read
    io_pc, io_id, io_ok,        \* the I/O thread: step, call, verdict of the answer
    flushed,                    \* frames on_open_handler has sent of send_queue_
    stamp                       \* enqueue_or_send critical sections so far

transport == <<conn_up, opens, inbox>>
calls == <<call, active, result, fut>>
threads == <<pc, cur, msg, direct>>
io == <<io_pc, io_id, io_ok, flushed>>
sending == <<queue_mu, send_queue, wire, stamp>>
vars == <<transport, wire, init_pc, connected, queue_mu, send_queue, next_req_id,
          pending, subscriptions, calls, threads, io, stamp>>

-----------------------------------------------------------------------------
Ids == 1..MaxCalls
NoCall == 0
NoRoute == "none"

Ops == [op : {"execute"}, route : {NoRoute}] \cup [op : {"subscribe"}, route : RouteKeys]
Unissued == [op |-> "unissued", route |-> NoRoute]

Frames == [kind : {"request", "unsubscribe"}, id : Ids, stamp : Nat]

Lifecycle == [type : {"open", "close"}]
Inbound == [type : {"response"}, id : Ids, ok : BOOLEAN]
           \cup [type : {"push"}, route : RouteKeys]
           \cup [type : {"noise"}]
Events == Lifecycle \cup Inbound

IsSubscribe(id) == call[id].op = "subscribe"
InCallback == io_pc \in {"callback", "disconnected"}
CanRun(t) == init_pc = "ready" /\ (t = IoThread => InCallback)

Init ==
    /\ conn_up = FALSE /\ opens = 0 /\ inbox = <<>> /\ wire = <<>>
    /\ init_pc = "check" /\ connected = FALSE
    /\ queue_mu = Nobody /\ send_queue = <<>>
    /\ next_req_id = 1
    /\ pending = {}
    /\ subscriptions = [r \in RouteKeys |-> NoCall]
    /\ call = [id \in Ids |-> Unissued]
    /\ active = [id \in Ids |-> FALSE]
    /\ result = [id \in Ids |-> "unset"]
    /\ fut = [id \in Ids |-> "none"]
    /\ pc = [t \in Callers |-> "idle"]
    /\ cur = [t \in Callers |-> NoCall]
    /\ msg = [t \in Callers |-> "request"]
    /\ direct = [t \in Callers |-> FALSE]
    /\ io_pc = "idle" /\ io_id = NoCall /\ io_ok = FALSE /\ flushed = 0
    /\ stamp = 0

-----------------------------------------------------------------------------
(* The parts of the operations below on which the properties turn, each      *)
(* after the slip that the model-checking of that property is tried against. *)

\* enqueue_or_send: std::lock_guard lk(queue_mu_)
NoCallerLock(t) == UNCHANGED queue_mu
CallerLock(t) == queue_mu = Nobody /\ queue_mu' = t

\* on_open_handler: std::lock_guard lk(queue_mu_), before connected_ is set
NoBacklogLock == UNCHANGED queue_mu
BacklogLock == queue_mu = Nobody /\ queue_mu' = IoThread

\* ~lock_guard
Unlock == queue_mu' = Nobody

\* send_queue_.clear()
KeepBacklog == UNCHANGED send_queue
ClearBacklog == send_queue' = <<>>

\* What the client remembers across a close: all of it.
CloseDropsPending == pending' = {} /\ UNCHANGED subscriptions
CloseDropsCallbacks == subscriptions' = [r \in RouteKeys |-> NoCall] /\ UNCHANGED pending
CloseKeeps == UNCHANGED <<pending, subscriptions>>

\* handler = std::move(it->second); pending_.erase(it)
PeekHandler(id) == UNCHANGED pending
TakeHandler(id) == pending' = pending \ {id}

\* active->store(true), the promise still unset
ActivateAndResolve(id) == active' = [active EXCEPT ![id] = TRUE]
                          /\ result' = [result EXCEPT ![id] = "ok"]
Activate(id) == active' = [active EXCEPT ![id] = TRUE] /\ UNCHANGED result

\* if (!active_->exchange(false)) return;
StoreInactive(id) == TRUE
ExchangeInactive(id) == active[id]

\* if (it != subscriptions_.end()) ... if (cb)
AnyCallback(id) == TRUE
HasCallback(id) == id # NoCall

\* fut.wait_for(timeout) == std::future_status::timeout
WaitForever(t) == FALSE
TimedOut(t) == result[cur[t]] = "unset"

-----------------------------------------------------------------------------
(* init(): look at the connection, then install the four callbacks.        *)

InitCheck ==
    /\ init_pc = "check"
    /\ connected' = conn_up
    /\ init_pc' = "attach"
    /\ UNCHANGED <<transport, sending, next_req_id, pending, subscriptions, calls, threads, io>>

InitAttach ==
    /\ init_pc = "attach"
    /\ init_pc' = "ready"
    /\ UNCHANGED <<transport, connected, sending, next_req_id, pending, subscriptions,
                   calls, threads, io>>

-----------------------------------------------------------------------------
(* enqueue_or_send: a caller at "enqueue" takes queue_mu_ and reads         *)
(* connected_, then sends or queues, and releases the mutex.               *)

NewFrame(t) == [kind |-> msg[t], id |-> cur[t], stamp |-> stamp]

\* conn_->send(frame) on a transport that is down loses the frame.
OnWire(frame) == IF conn_up THEN Append(wire, frame) ELSE wire

EnqueueLock(t) ==
    /\ CanRun(t) /\ pc[t] = "enqueue" /\ CallerLock(t)
    /\ direct' = [direct EXCEPT ![t] = connected]
    /\ stamp' = stamp + 1
    /\ pc' = [pc EXCEPT ![t] = "send"]
    /\ UNCHANGED <<transport, wire, init_pc, connected, send_queue, next_req_id, pending,
                   subscriptions, calls, cur, msg, io>>

\* After a request the caller waits on the future (execute, subscribe) or
\* returns it (execute_async, subscribe_async); cancel() returns.
EnqueueSend(t) ==
    /\ CanRun(t) /\ pc[t] = "send"
    /\ IF direct[t]
       THEN wire' = OnWire(NewFrame(t)) /\ UNCHANGED send_queue
       ELSE send_queue' = Append(send_queue, NewFrame(t)) /\ UNCHANGED wire
    /\ Unlock
    /\ direct' = [direct EXCEPT ![t] = FALSE]
    /\ \/ /\ msg[t] = "request"
          /\ pc' = [pc EXCEPT ![t] = "wait"]
          /\ UNCHANGED <<cur, msg>>
       \/ /\ pc' = [pc EXCEPT ![t] = "idle"]
          /\ cur' = [cur EXCEPT ![t] = NoCall]
          /\ msg' = [msg EXCEPT ![t] = "request"]
    /\ UNCHANGED <<transport, init_pc, connected, stamp, next_req_id, pending,
                   subscriptions, calls, io>>

-----------------------------------------------------------------------------
(* execute, execute_async, subscribe, subscribe_async.                     *)

\* gen_req_id
Issue(t, op) ==
    /\ CanRun(t) /\ pc[t] = "idle" /\ next_req_id <= MaxCalls
    /\ next_req_id' = next_req_id + 1
    /\ call' = [call EXCEPT ![next_req_id] = op]
    /\ cur' = [cur EXCEPT ![t] = next_req_id]
    /\ pc' = [pc EXCEPT ![t] = "register"]
    /\ UNCHANGED <<transport, init_pc, connected, sending, pending, subscriptions,
                   active, result, fut, msg, direct, io>>

\* pending_[key] = handler, under pending_mu_
Register(t) ==
    /\ CanRun(t) /\ pc[t] = "register"
    /\ pending' = pending \cup {cur[t]}
    /\ fut' = [fut EXCEPT ![cur[t]] = "open"]
    /\ pc' = [pc EXCEPT ![t] = "enqueue"]
    /\ UNCHANGED <<transport, init_pc, connected, sending, next_req_id, subscriptions,
                   call, active, result, cur, msg, direct, io>>

\* wait_for gave up: the caller gets ok=false and an inactive handle. Nothing
\* takes the entry out of pending_.
Timeout(t) ==
    /\ CanRun(t) /\ pc[t] = "wait" /\ TimedOut(t)
    /\ fut' = [fut EXCEPT ![cur[t]] = "dropped"]
    /\ pc' = [pc EXCEPT ![t] = "idle"]
    /\ cur' = [cur EXCEPT ![t] = NoCall]
    /\ UNCHANGED <<transport, init_pc, connected, sending, next_req_id, pending,
                   subscriptions, call, active, result, msg, direct, io>>

\* fut.get() in a blocked caller
Return(t) ==
    /\ CanRun(t) /\ pc[t] = "wait" /\ result[cur[t]] # "unset"
    /\ fut' = [fut EXCEPT ![cur[t]] = "taken"]
    /\ pc' = [pc EXCEPT ![t] = "idle"]
    /\ cur' = [cur EXCEPT ![t] = NoCall]
    /\ UNCHANGED <<transport, init_pc, connected, sending, next_req_id, pending,
                   subscriptions, call, active, result, msg, direct, io>>

\* fut.get() on a future that execute_async or subscribe_async returned
Collect(t, id) ==
    /\ CanRun(t) /\ pc[t] = "idle"
    /\ fut[id] = "open" /\ result[id] # "unset"
    /\ \A u \in Callers : cur[u] # id
    /\ fut' = [fut EXCEPT ![id] = "taken"]
    /\ UNCHANGED <<transport, init_pc, connected, sending, next_req_id, pending,
                   subscriptions, call, active, result, threads, io>>

-----------------------------------------------------------------------------
(* SubscriptionHandle::cancel, then ExchangeWsClient::cancel_subscription. *)

\* active_->exchange(false): an inactive handle returns at once.
CancelExchange(t, id) ==
    /\ CanRun(t) /\ pc[t] = "idle"
    /\ IsSubscribe(id) /\ fut[id] = "taken" /\ ExchangeInactive(id)
    /\ active' = [active EXCEPT ![id] = FALSE]
    /\ pc' = [pc EXCEPT ![t] = "erase"]
    /\ cur' = [cur EXCEPT ![t] = id]
    /\ msg' = [msg EXCEPT ![t] = "unsubscribe"]
    /\ UNCHANGED <<transport, init_pc, connected, sending, next_req_id, pending,
                   subscriptions, call, result, fut, direct, io>>

\* subscriptions_.erase(route_key), whoever installed the callback
CancelErase(t) ==
    /\ CanRun(t) /\ pc[t] = "erase"
    /\ subscriptions' = [subscriptions EXCEPT ![call[cur[t]].route] = NoCall]
    /\ pc' = [pc EXCEPT ![t] = "enqueue"]
    /\ UNCHANGED <<transport, init_pc, connected, sending, next_req_id, pending, calls,
                   cur, msg, direct, io>>

Caller(t) ==
    \/ \E op \in Ops : Issue(t, op)
    \/ Register(t) \/ EnqueueLock(t) \/ EnqueueSend(t) \/ Timeout(t) \/ Return(t)
    \/ \E id \in Ids : Collect(t, id) \/ CancelExchange(t, id)
    \/ CancelErase(t)

-----------------------------------------------------------------------------
(* The I/O thread: one event at a time, in the order they arrived.         *)

Dispatches(type) ==
    /\ init_pc = "ready" /\ io_pc = "idle"
    /\ inbox # <<>> /\ Head(inbox).type = type
    /\ inbox' = Tail(inbox)

\* Before init() has installed the callbacks the transport has nobody to tell.
IoDiscard ==
    /\ init_pc # "ready" /\ inbox # <<>>
    /\ inbox' = Tail(inbox)
    /\ UNCHANGED <<conn_up, opens, init_pc, connected, sending, next_req_id, pending,
                   subscriptions, calls, threads, io>>

\* on_open_handler: take queue_mu_, set connected_, send the backlog, clear it.
IoOpen ==
    /\ Dispatches("open") /\ BacklogLock
    /\ connected' = TRUE
    /\ io_pc' = "flush"
    /\ UNCHANGED <<conn_up, opens, wire, init_pc, send_queue, stamp, next_req_id, pending,
                   subscriptions, calls, threads, io_id, io_ok, flushed>>

IoFlush ==
    /\ io_pc = "flush" /\ flushed < Len(send_queue)
    /\ wire' = OnWire(send_queue[flushed + 1])
    /\ flushed' = flushed + 1
    /\ UNCHANGED <<transport, init_pc, connected, queue_mu, send_queue, stamp, next_req_id,
                   pending, subscriptions, calls, threads, io_pc, io_id, io_ok>>

IoFlushed ==
    /\ io_pc = "flush" /\ flushed = Len(send_queue)
    /\ ClearBacklog /\ Unlock
    /\ flushed' = 0
    /\ io_pc' = "idle"
    /\ UNCHANGED <<transport, wire, init_pc, connected, stamp, next_req_id, pending,
                   subscriptions, calls, threads, io_id, io_ok>>

\* on_close: connected_ is cleared without queue_mu_; send_queue_, pending_ and
\* subscriptions_ are kept. Then disconnect_cb_, the application's code, runs.
IoClose ==
    /\ Dispatches("close")
    /\ connected' = FALSE /\ CloseKeeps
    /\ io_pc' = "disconnected"
    /\ UNCHANGED <<conn_up, opens, sending, init_pc, next_req_id, calls, threads, io_id, io_ok,
                   flushed>>

\* Unparseable frames, FrameKind::Unknown, responses to no pending call.
IoNoise ==
    /\ Dispatches("noise")
    /\ UNCHANGED <<conn_up, opens, init_pc, connected, sending, next_req_id, pending,
                   subscriptions, calls, threads, io>>

\* MethodResponse: move the handler out of pending_ under pending_mu_ ...
IoResponse ==
    LET id == Head(inbox).id IN
    /\ Dispatches("response")
    /\ IF id \in pending
       THEN /\ TakeHandler(id)
            /\ io_pc' = "invoke" /\ io_id' = id /\ io_ok' = Head(inbox).ok
       ELSE UNCHANGED <<pending, io_pc, io_id, io_ok>>
    /\ UNCHANGED <<conn_up, opens, init_pc, connected, sending, next_req_id, subscriptions,
                   calls, threads, flushed>>

\* ... and invoke it outside the lock. A parse failure of the answer is a
\* failed result. A subscription that was accepted becomes active first.
IoInvoke ==
    /\ io_pc = "invoke"
    /\ IF IsSubscribe(io_id) /\ io_ok
       THEN /\ Activate(io_id)
            /\ io_pc' = "install"
            /\ UNCHANGED <<io_id, io_ok>>
       ELSE /\ result' = [result EXCEPT ![io_id] = IF io_ok THEN "ok" ELSE "failed"]
            /\ io_pc' = "idle" /\ io_id' = NoCall /\ io_ok' = FALSE
            /\ UNCHANGED active
    /\ UNCHANGED <<transport, init_pc, connected, sending, next_req_id, pending,
                   subscriptions, call, fut, threads, flushed>>

\* subscriptions_[rk] = callback, under subs_mu_; a present callback is replaced.
IoInstall ==
    /\ io_pc = "install"
    /\ subscriptions' = [subscriptions EXCEPT ![call[io_id].route] = io_id]
    /\ io_pc' = "resolve"
    /\ UNCHANGED <<transport, init_pc, connected, sending, next_req_id, pending, calls,
                   threads, io_id, io_ok, flushed>>

\* prom->set_value with the handle
IoResolve ==
    /\ io_pc = "resolve"
    /\ result' = [result EXCEPT ![io_id] = "ok"]
    /\ io_pc' = "idle" /\ io_id' = NoCall /\ io_ok' = FALSE
    /\ UNCHANGED <<transport, init_pc, connected, sending, next_req_id, pending,
                   subscriptions, call, active, fut, threads, flushed>>

\* PushMessage: copy the callback under subs_mu_, run it after the unlock.
IoPush ==
    LET id == subscriptions[Head(inbox).route] IN
    /\ Dispatches("push")
    /\ IF HasCallback(id)
       THEN io_pc' = "callback" /\ io_id' = id
       ELSE UNCHANGED <<io_pc, io_id>>
    /\ UNCHANGED <<conn_up, opens, init_pc, connected, sending, next_req_id, pending,
                   subscriptions, calls, threads, io_ok, flushed>>

\* The callback returns, by a throw or not, once what it called has returned.
IoCallbackReturns ==
    /\ InCallback /\ (IoThread \in Callers => pc[IoThread] = "idle")
    /\ io_pc' = "idle" /\ io_id' = NoCall
    /\ UNCHANGED <<transport, init_pc, connected, sending, next_req_id, pending,
                   subscriptions, calls, threads, io_ok, flushed>>

IoStep ==
    \/ IoDiscard \/ IoOpen \/ IoFlush \/ IoFlushed \/ IoClose \/ IoNoise
    \/ IoResponse \/ IoInvoke \/ IoInstall \/ IoResolve
    \/ IoPush \/ IoCallbackReturns

-----------------------------------------------------------------------------
(* The transport and the exchange.                                         *)

Receives(event) ==
    /\ conn_up /\ Len(inbox) < MaxInbox
    /\ inbox' = Append(inbox, event)
    /\ UNCHANGED <<conn_up, opens, wire, init_pc, connected, queue_mu, send_queue, stamp,
                   next_req_id, pending, subscriptions, calls, threads, io>>

ConnOpen ==
    /\ ~conn_up /\ opens < MaxOpens
    /\ ConnectFirst \/ init_pc = "ready"
    /\ conn_up' = TRUE
    /\ opens' = opens + 1
    /\ wire' = <<>>
    /\ inbox' = Append(inbox, [type |-> "open"])
    /\ UNCHANGED <<init_pc, connected, queue_mu, send_queue, stamp, next_req_id, pending,
                   subscriptions, calls, threads, io>>

\* The connection drops: what it was carrying to the exchange is gone, and of
\* what it had received for dispatch the last part may be gone too.
ConnDrop ==
    /\ conn_up
    /\ conn_up' = FALSE
    /\ wire' = <<>>
    /\ \E kept \in 0..Len(inbox) :
          /\ \A i \in (kept + 1)..Len(inbox) : inbox[i] \in Inbound
          /\ inbox' = Append(SubSeq(inbox, 1, kept), [type |-> "close"])
    /\ UNCHANGED <<opens, init_pc, connected, queue_mu, send_queue, stamp, next_req_id,
                   pending, subscriptions, calls, threads, io>>

\* The exchange answers a request it has seen, in any order, and perhaps again:
\* a subscription to several symbols is acknowledged once per symbol.
Answer(i, ok) ==
    /\ wire[i].kind = "request"
    /\ Receives([type |-> "response", id |-> wire[i].id, ok |-> ok])

\* It pushes on a route once it has seen a subscription, also before the ack.
PushOn(i) ==
    /\ wire[i].kind = "request" /\ IsSubscribe(wire[i].id)
    /\ Receives([type |-> "push", route |-> call[wire[i].id].route])

Environment ==
    \/ ConnOpen \/ ConnDrop
    \/ \E i \in DOMAIN wire : \/ \E ok \in BOOLEAN : Answer(i, ok)
                              \/ PushOn(i)
    \/ Receives([type |-> "noise"])

-----------------------------------------------------------------------------
Next ==
    \/ InitCheck \/ InitAttach
    \/ \E t \in Callers : Caller(t)
    \/ IoStep
    \/ Environment

Spec == Init /\ [][Next]_vars

\* A thread inside the client keeps running (a timed wait ends), init() and the
\* I/O thread too. Nothing is assumed of applications, transport or exchange.
Fairness ==
    /\ WF_vars(InitCheck) /\ WF_vars(InitAttach)
    /\ WF_vars(IoStep)
    /\ \A t \in Callers :
          /\ WF_vars(Register(t)) /\ WF_vars(EnqueueLock(t)) /\ WF_vars(EnqueueSend(t))
          /\ WF_vars(Timeout(t)) /\ WF_vars(Return(t)) /\ WF_vars(CancelErase(t))

FairSpec == Spec /\ Fairness

-----------------------------------------------------------------------------
(* Properties.                                                             *)

TypeOK ==
    /\ conn_up \in BOOLEAN /\ opens \in 0..MaxOpens
    /\ inbox \in Seq(Events) /\ wire \in Seq(Frames)
    /\ init_pc \in {"check", "attach", "ready"} /\ connected \in BOOLEAN
    /\ queue_mu \in Callers \cup {IoThread, Nobody} /\ send_queue \in Seq(Frames)
    /\ next_req_id \in 1..(MaxCalls + 1)
    /\ pending \subseteq Ids
    /\ subscriptions \in [RouteKeys -> Ids \cup {NoCall}]
    /\ call \in [Ids -> Ops \cup {Unissued}]
    /\ active \in [Ids -> BOOLEAN]
    /\ result \in [Ids -> {"unset", "ok", "failed"}]
    /\ fut \in [Ids -> {"none", "open", "taken", "dropped"}]
    /\ pc \in [Callers -> {"idle", "register", "enqueue", "send", "wait", "erase"}]
    /\ cur \in [Callers -> Ids \cup {NoCall}]
    /\ msg \in [Callers -> {"request", "unsubscribe"}]
    /\ direct \in [Callers -> BOOLEAN]
    /\ io_pc \in {"idle", "flush", "invoke", "install", "resolve", "callback", "disconnected"}
    /\ io_id \in IF io_pc \in {"idle", "flush", "disconnected"} THEN {NoCall} ELSE Ids
    /\ io_ok \in BOOLEAN
    /\ flushed \in 0..Len(send_queue) /\ stamp \in Nat

\* The backlog that on_open_handler has not sent yet.
Backlog == SubSeq(send_queue, flushed + 1, Len(send_queue))

\* No frame is stranded: while connected_ is set and queue_mu_ is free the queue
\* is empty, so enqueue_or_send never queues behind an open that has passed.
NoStrandedFrame == connected /\ queue_mu = Nobody => send_queue = <<>>

\* Frames reach the exchange, and wait in the backlog, in the order in which
\* enqueue_or_send took queue_mu_ for them (review L1: the flush holds the lock).
SentInOrder ==
    LET frames == wire \o Backlog
    IN  \A i, j \in DOMAIN frames : i < j => frames[i].stamp < frames[j].stamp

\* The I/O thread has taken id's handler out of pending_ and not yet run it.
Handling(id) == io_pc \in {"invoke", "install", "resolve"} /\ io_id = id

\* A request that was queued or sent is registered as long as its promise is
\* unset: whenever the exchange answers, the answer finds the handler.
RegisteredBeforeSent ==
    LET frames == wire \o Backlog
    IN  \A i \in DOMAIN frames :
           LET id == frames[i].id
           IN  frames[i].kind = "request" /\ result[id] = "unset" =>
                  id \in pending \/ Handling(id)

\* A thread is between the two halves of cancel() for this handle.
Cancelling(id) == \E t \in Callers : pc[t] = "erase" /\ cur[t] = id

\* A handle whose is_active() is true, and that the application can hold, has its
\* callback installed unless another subscription of the same route was
\* acknowledged: no disconnect, timeout or cancel of other routes removes it.
LiveHandleRouted ==
    \A id \in Ids :
       active[id] /\ result[id] = "ok" =>
          \/ subscriptions[call[id].route] = id
          \/ \E other \in Ids \ {id} :
                /\ IsSubscribe(other) /\ call[other].route = call[id].route
                /\ result[other] = "ok" \/ Handling(other)

\* Once cancel() has returned for a handle its callback is not installed, and
\* nothing (a late ack, another thread) installs it again: at most the callback
\* the I/O thread has already copied still runs.
CancelledStaysOff ==
    \A id \in Ids :
       IsSubscribe(id) /\ result[id] = "ok" /\ ~active[id] /\ ~Cancelling(id) =>
          subscriptions[call[id].route] # id

\* cancel() is idempotent: however many threads cancel copies of one handle, one
\* unsubscribe frame for it is being prepared, queued or sent.
UnsubscribeOnce ==
    LET frames == wire \o Backlog
        sent(id) == {i \in DOMAIN frames : frames[i].kind = "unsubscribe" /\ frames[i].id = id}
        preparing(id) == {t \in Callers : msg[t] = "unsubscribe" /\ cur[t] = id}
    IN  \A id \in Ids :
           /\ \A i, j \in sent(id) : i = j
           /\ \A t, u \in preparing(id) : t = u
           /\ sent(id) = {} \/ preparing(id) = {}

\* What the contract calls the state of a handle, and the callback that runs.
HandleState == [id \in Ids |-> IF active[id] THEN "live"
                               ELSE IF IsSubscribe(id) /\ result[id] = "ok" THEN "cancelled"
                               ELSE "none"]
Running == IF io_pc = "callback" THEN io_id ELSE NoCall

\* The client implements the contract it offers applications.
Contract == INSTANCE CallContract WITH
    handle <- HandleState, installed <- subscriptions, running <- Running
RefinesContract == Contract!Spec

\* Every call the application makes returns, also one made from a callback on
\* the I/O thread itself, where only the timeout can end the wait.
CallsReturn == \A t \in Callers : pc[t] # "idle" ~> pc[t] = "idle"

\* If the connection stays open, the queue is flushed.
QueueDrains == <>[]conn_up => <>[](send_queue = <<>>)

-----------------------------------------------------------------------------
(* What the repository says of the client and the code does not do.         *)

\* A subscribe() that reported ok=false has no subscription installed
\* (ws_client.inl:122-124): the callback of a call that timed out is never put
\* into subscriptions_, where no handle could remove it.
TimedOutNotInstalled ==
    \A r \in RouteKeys : subscriptions[r] # NoCall => fut[subscriptions[r]] # "dropped"
=============================================================================
