--------------------------- MODULE WsClientProofs ---------------------------
(***************************************************************************)
(* Theorems about WsClient for any set of threads and routes and any        *)
(* bounds. Each rests on an inductive invariant that says what the lock     *)
(* queue_mu_, the thread positions and the queue have to do with each       *)
(* other; TypeInv types the values those invariants speak about.            *)
(***************************************************************************)
EXTENDS WsClient, SequenceTheorems, TLAPS

-----------------------------------------------------------------------------
(* The inductive invariants.                                                *)

\* A thread inside an operation works for a call.
CallersBusy == \A t \in Callers : pc[t] # "idle" => cur[t] \in Ids

TypeInv == TypeOK /\ CallersBusy

\* Until init() is done nothing has happened but the transport's own steps.
InitInv ==
    init_pc # "ready" =>
       io_pc = "idle" /\ send_queue = <<>> /\ \A t \in Callers : pc[t] = "idle"

\* queue_mu_ is held exactly where the code holds it, and callbacks' own calls
\* run only while the I/O thread is in a callback.
LockInv ==
    /\ \A t \in Callers : pc[t] = "send" => queue_mu = t
    /\ io_pc = "flush" => queue_mu = IoThread
    /\ IoThread \in Callers /\ pc[IoThread] # "idle" => InCallback

\* Nobody but on_open_handler, which needs queue_mu_, sets connected_: a caller
\* that read FALSE under the mutex is still right when it queues its frame. One
\* that read TRUE finds the queue empty, even if connected_ is cleared meanwhile.
QueueInv ==
    /\ connected /\ io_pc # "flush" => send_queue = <<>>
    /\ \A t \in Callers : pc[t] = "send" /\ connected => direct[t]
    /\ \A t \in Callers : pc[t] = "send" /\ direct[t] => send_queue = <<>>
    /\ io_pc # "flush" => flushed = 0

StrandInv == InitInv /\ LockInv /\ QueueInv

\* An answer to id would find its handler, or the promise is settled.
Reachable(id) == result[id] = "unset" => id \in pending \/ Handling(id)

\* RegisteredBeforeSent over the whole queue, and for frames still in a thread.
RegisteredInv ==
    /\ \A i \in DOMAIN wire : wire[i].kind = "request" => Reachable(wire[i].id)
    /\ \A i \in DOMAIN send_queue :
          send_queue[i].kind = "request" => Reachable(send_queue[i].id)
    /\ \A t \in Callers :
          pc[t] \in {"enqueue", "send"} /\ msg[t] = "request" => Reachable(cur[t])
    /\ \A t \in Callers : pc[t] = "erase" => msg[t] = "unsubscribe"

\* SentInOrder, element by element, with the stamp a thread is about to use.
OrderInv ==
    /\ \A i, j \in DOMAIN wire : i < j => wire[i].stamp < wire[j].stamp
    /\ \A i, j \in DOMAIN send_queue :
          i < j => send_queue[i].stamp < send_queue[j].stamp
    /\ \A i \in DOMAIN wire, j \in DOMAIN send_queue :
          flushed < j => wire[i].stamp < send_queue[j].stamp
    /\ \A i \in DOMAIN wire : wire[i].stamp <= stamp
    /\ \A i \in DOMAIN send_queue : send_queue[i].stamp <= stamp
    /\ \A t \in Callers : pc[t] = "send" =>
          /\ \A i \in DOMAIN wire : wire[i].stamp < stamp
          /\ \A i \in DOMAIN send_queue : send_queue[i].stamp < stamp

-----------------------------------------------------------------------------
(* Types.                                                                   *)

\* What an event carries, by its type.
LEMMA EventFields ==
    ASSUME NEW e \in Events
    PROVE  /\ e.type = "response" => e.id \in Ids /\ e.ok \in BOOLEAN
           /\ e.type = "push" => e.route \in RouteKeys
BY DEF Events, Lifecycle, Inbound

\* What a frame of a queue carries.
LEMMA FrameFields ==
    ASSUME NEW s \in Seq(Frames), NEW i \in DOMAIN s
    PROVE  s[i] \in Frames /\ s[i].id \in Ids /\ s[i].stamp \in Nat
<1>1. s[i] \in Frames
  BY ElementOfSeq, LenProperties
<1> QED
  BY <1>1 DEF Frames

\* The elements of a sequence one longer.
LEMMA AppendElements ==
    ASSUME NEW S, NEW s \in Seq(S), NEW e \in S
    PROVE  \A i \in DOMAIN Append(s, e) :
              \/ i \in DOMAIN s /\ Append(s, e)[i] = s[i]
              \/ i = Len(s) + 1 /\ Append(s, e)[i] = e
BY AppendProperties, LenProperties

\* What the I/O thread takes from the inbox is an event.
LEMMA DispatchFields ==
    ASSUME TypeOK, NEW type, Dispatches(type)
    PROVE  Head(inbox) \in Events /\ inbox' \in Seq(Events)
BY HeadTailProperties DEF Dispatches, TypeOK

\* A subscription has a route.
LEMMA CallFields ==
    ASSUME NEW c \in Ops \cup {Unissued}
    PROVE  c.op = "subscribe" => c.route \in RouteKeys
BY DEF Ops, Unissued

\* A step of the transport alone keeps TypeInv.
LEMMA TransportKeepsType ==
    ASSUME TypeOK, CallersBusy,
           conn_up' \in BOOLEAN, opens' \in 0..MaxOpens,
           inbox' \in Seq(Events), wire' \in Seq(Frames),
           UNCHANGED <<init_pc, connected, queue_mu, send_queue, stamp, next_req_id, pending,
                       subscriptions, calls, threads, io>>
    PROVE  TypeInv'
BY DEF TypeInv, TypeOK, CallersBusy, calls, threads, io

\* So does the arrival of any event.
LEMMA ReceiveKeepsType ==
    ASSUME TypeOK, CallersBusy, NEW event \in Events, Receives(event)
    PROVE  TypeInv'
<1>1. inbox' \in Seq(Events)
  BY DEF Receives, TypeOK
<1> QED
  BY <1>1, TransportKeepsType DEF Receives, TypeOK

\* TypeInv is an invariant: every variable keeps its type through every callback,
\* call and transport step, and only a thread at work has a current call.
THEOREM TypeInvariant == Spec => []TypeInv
<1> USE ThreadsAssumption, BoundsAssumption, FlagAssumption
<1>1. Init => TypeInv
  <2> SUFFICES ASSUME Init PROVE TypeOK /\ CallersBusy BY DEF TypeInv
  <2>1. opens \in 0..MaxOpens /\ next_req_id \in 1..(MaxCalls + 1)
    BY DEF Init
  <2>2. inbox \in Seq(Events) /\ wire \in Seq(Frames) /\ send_queue \in Seq(Frames)
    BY DEF Init
  <2>3. io_id \in {NoCall} /\ io_pc = "idle" /\ flushed \in 0..Len(send_queue)
    BY DEF Init
  <2> QED
    BY <2>1, <2>2, <2>3 DEF Init, TypeOK, CallersBusy
<1>2. TypeInv /\ [Next]_vars => TypeInv'
  <2> SUFFICES ASSUME TypeOK, CallersBusy, [Next]_vars PROVE TypeInv' BY DEF TypeInv
  <2>1. CASE InitCheck
    BY <2>1 DEF TypeInv, TypeOK, CallersBusy, InitCheck, transport, sending, calls, threads, io
  <2>2. CASE InitAttach
    BY <2>2 DEF TypeInv, TypeOK, CallersBusy, InitAttach, transport, sending, calls, threads, io
  <2>3. ASSUME NEW t \in Callers, NEW op \in Ops, Issue(t, op) PROVE TypeInv'
    BY <2>3 DEF TypeInv, TypeOK, CallersBusy, Issue, CanRun, InCallback, transport, sending, io, Ids
  <2>4. ASSUME NEW t \in Callers, Register(t) PROVE TypeInv'
    BY <2>4 DEF TypeInv, TypeOK, CallersBusy, Register, CanRun, InCallback, transport, sending, io, Ids
  <2>5. ASSUME NEW t \in Callers, EnqueueLock(t) PROVE TypeInv'
    BY <2>5 DEF TypeInv, TypeOK, CallersBusy, EnqueueLock, CallerLock, CanRun, InCallback, transport, sending, io, calls
  <2>6. ASSUME NEW t \in Callers, EnqueueSend(t) PROVE TypeInv'
    <3>1. NewFrame(t) \in Frames
      BY <2>6 DEF EnqueueSend, NewFrame, Frames, TypeOK, CallersBusy
    <3>2. /\ wire' \in Seq(Frames) /\ send_queue' \in Seq(Frames)
          /\ flushed' \in 0..Len(send_queue')
      <4> HIDE DEF NewFrame
      <4>1. Append(wire, NewFrame(t)) \in Seq(Frames)
        BY <3>1 DEF TypeOK
      <4>2. /\ Append(send_queue, NewFrame(t)) \in Seq(Frames)
            /\ Len(Append(send_queue, NewFrame(t))) = Len(send_queue) + 1
            /\ Len(send_queue) \in Nat /\ flushed \in 0..Len(send_queue)
        BY <3>1 DEF TypeOK
      <4>3. wire' \in Seq(Frames)
        BY <2>6, <4>1 DEF EnqueueSend, OnWire, TypeOK
      <4>4. send_queue' = send_queue \/ send_queue' = Append(send_queue, NewFrame(t))
        BY <2>6 DEF EnqueueSend
      <4>5. flushed' = flushed
        BY <2>6 DEF EnqueueSend, io
      <4>6. CASE send_queue' = send_queue
        BY <4>3, <4>5, <4>6 DEF TypeOK
      <4>7. CASE send_queue' = Append(send_queue, NewFrame(t))
        <5>1. Len(send_queue') = Len(send_queue) + 1
          BY <4>2, <4>7
        <5> QED
          BY <4>2, <4>3, <4>5, <4>7, <5>1
      <4> QED
        BY <4>4, <4>6, <4>7
    <3>3. pc' \in [Callers -> {"idle", "register", "enqueue", "send", "wait", "erase"}]
          /\ cur' \in [Callers -> Ids \cup {NoCall}]
          /\ msg' \in [Callers -> {"request", "unsubscribe"}]
          /\ direct' \in [Callers -> BOOLEAN]
          /\ CallersBusy'
      BY <2>6 DEF EnqueueSend, TypeOK, CallersBusy
    <3> QED
      BY <2>6, <3>2, <3>3 DEF EnqueueSend, Unlock, transport, io, calls, TypeInv, TypeOK
  <2>7. ASSUME NEW t \in Callers, Timeout(t) PROVE TypeInv'
    BY <2>7 DEF TypeInv, TypeOK, CallersBusy, Timeout, TimedOut, CanRun, InCallback, transport, sending, io
  <2>8. ASSUME NEW t \in Callers, Return(t) PROVE TypeInv'
    BY <2>8 DEF TypeInv, TypeOK, CallersBusy, Return, CanRun, InCallback, transport, sending, io
  <2>9. ASSUME NEW t \in Callers, NEW id \in Ids, Collect(t, id) PROVE TypeInv'
    BY <2>9 DEF TypeInv, TypeOK, CallersBusy, Collect, CanRun, InCallback, transport, sending, io, threads
  <2>10. ASSUME NEW t \in Callers, NEW id \in Ids, CancelExchange(t, id) PROVE TypeInv'
    BY <2>10 DEF TypeInv, TypeOK, CallersBusy, CancelExchange, CanRun, InCallback, transport, sending, io
  <2>11. ASSUME NEW t \in Callers, CancelErase(t) PROVE TypeInv'
    BY <2>11 DEF TypeInv, TypeOK, CallersBusy, CancelErase, CanRun, InCallback, transport, sending, io, calls
  <2>12. CASE IoDiscard
    BY <2>12 DEF TypeInv, TypeOK, CallersBusy, IoDiscard, sending, calls, threads, io
  <2>13. CASE IoOpen
    BY <2>13, DispatchFields DEF TypeInv, TypeOK, CallersBusy, IoOpen, Dispatches, BacklogLock, calls, threads
  <2>14. CASE IoFlush
    BY <2>14 DEF TypeInv, TypeOK, CallersBusy, IoFlush, OnWire, transport, calls, threads
  <2>15. CASE IoFlushed
    BY <2>15 DEF TypeInv, TypeOK, CallersBusy, IoFlushed, ClearBacklog, Unlock, transport, calls, threads
  <2>16. CASE IoClose
    BY <2>16, DispatchFields DEF TypeInv, TypeOK, CallersBusy, IoClose, CloseKeeps, Dispatches, sending, calls, threads, io
  <2>17. CASE IoNoise
    BY <2>17, DispatchFields DEF TypeInv, TypeOK, CallersBusy, IoNoise, Dispatches, sending, calls, threads, io
  <2>18. CASE IoResponse
    <3>1. Head(inbox) \in Events /\ inbox' \in Seq(Events)
      BY <2>18, DispatchFields DEF IoResponse
    <3>2. Head(inbox).id \in Ids /\ Head(inbox).ok \in BOOLEAN
      BY <2>18, <3>1, EventFields DEF IoResponse, Dispatches
    <3> QED
      BY <2>18, <3>1, <3>2 DEF TypeInv, TypeOK, CallersBusy, IoResponse, Dispatches, TakeHandler, sending, calls, threads
  <2>19. CASE IoInvoke
    BY <2>19 DEF TypeInv, TypeOK, CallersBusy, IoInvoke, Activate, transport, sending, threads
  <2>20. CASE IoInstall
    BY <2>20 DEF TypeInv, TypeOK, CallersBusy, IoInstall, transport, sending, calls, threads
  <2>21. CASE IoResolve
    BY <2>21 DEF TypeInv, TypeOK, CallersBusy, IoResolve, transport, sending, threads
  <2>22. CASE IoPush
    <3>1. Head(inbox) \in Events /\ inbox' \in Seq(Events)
      BY <2>22, DispatchFields DEF IoPush
    <3>2. subscriptions[Head(inbox).route] \in Ids \cup {NoCall}
      BY <2>22, <3>1, EventFields DEF IoPush, Dispatches, TypeOK
    <3> QED
      BY <2>22, <3>1, <3>2 DEF IoPush, Dispatches, HasCallback, TypeInv, TypeOK, CallersBusy, sending, calls, threads
  <2>23. CASE IoCallbackReturns
    BY <2>23 DEF TypeInv, TypeOK, CallersBusy, IoCallbackReturns, InCallback, transport, sending, calls, threads
  <2>24. CASE ConnOpen
    BY <2>24 DEF TypeInv, TypeOK, CallersBusy, ConnOpen, Events, Lifecycle, calls, threads, io
  <2>25. CASE ConnDrop
    <3>1. PICK kept \in 0..Len(inbox) :
              inbox' = Append(SubSeq(inbox, 1, kept), [type |-> "close"])
      BY <2>25 DEF ConnDrop
    <3>2. SubSeq(inbox, 1, kept) \in Seq(Events)
      BY <3>1, SubSeqProperties DEF TypeOK
    <3>3. [type |-> "close"] \in Events
      BY DEF Events, Lifecycle
    <3>4. inbox' \in Seq(Events)
      BY <3>1, <3>2, <3>3
    <3>5. conn_up' \in BOOLEAN /\ opens' \in 0..MaxOpens /\ wire' \in Seq(Frames)
      <4>1. conn_up' = FALSE /\ wire' = <<>> /\ opens' = opens
        BY <2>25 DEF ConnDrop
      <4> QED
        BY <4>1, EmptySeq DEF TypeOK
    <3>6. UNCHANGED <<init_pc, connected, queue_mu, send_queue, stamp, next_req_id, pending,
                      subscriptions, calls, threads, io>>
      BY <2>25 DEF ConnDrop
    <3> QED
      BY <3>4, <3>5, <3>6, TransportKeepsType
  <2>26. ASSUME NEW i \in DOMAIN wire, NEW ok \in BOOLEAN, Answer(i, ok) PROVE TypeInv'
    <3>1. wire[i].id \in Ids
      BY FrameFields DEF TypeOK
    <3>2. [type |-> "response", id |-> wire[i].id, ok |-> ok] \in Events
      BY <3>1 DEF Events, Inbound
    <3> QED
      BY <2>26, <3>2, ReceiveKeepsType DEF Answer
  <2>27. ASSUME NEW i \in DOMAIN wire, PushOn(i) PROVE TypeInv'
    <3>1. wire[i].id \in Ids
      BY FrameFields DEF TypeOK
    <3>2. call[wire[i].id].route \in RouteKeys
      BY <2>27, <3>1, CallFields DEF PushOn, IsSubscribe, TypeOK
    <3>3. [type |-> "push", route |-> call[wire[i].id].route] \in Events
      BY <3>2 DEF Events, Inbound
    <3> QED
      BY <2>27, <3>3, ReceiveKeepsType DEF PushOn
  <2>28. CASE Receives([type |-> "noise"])
    <3>1. [type |-> "noise"] \in Events
      BY DEF Events, Inbound
    <3> QED
      BY <2>28, <3>1, ReceiveKeepsType
  <2>29. CASE UNCHANGED vars
    BY <2>29 DEF TypeInv, TypeOK, CallersBusy, vars, transport, calls, threads, io
  <2> QED
    BY <2>1, <2>2, <2>3, <2>4, <2>5, <2>6, <2>7, <2>8, <2>9, <2>10, <2>11, <2>12, <2>13,
       <2>14, <2>15, <2>16, <2>17, <2>18, <2>19, <2>20, <2>21, <2>22, <2>23, <2>24, <2>25,
       <2>26, <2>27, <2>28, <2>29 DEF Next, Caller, IoStep, Environment
<1> QED
  BY <1>1, <1>2, PTL DEF Spec

\* Every variable of the client and of its transport keeps its type.
THEOREM TypeCorrect == Spec => []TypeOK
BY TypeInvariant, PTL DEF TypeInv

-----------------------------------------------------------------------------
(* No frame is stranded.                                                    *)

\* The lock discipline and the emptiness of the queue are kept by every step.
LEMMA StrandStep ==
    ASSUME TypeInv, StrandInv, [Next]_vars PROVE StrandInv'
<1> USE ThreadsAssumption
<1> USE DEF TypeInv, TypeOK, CallersBusy, StrandInv, InitInv, LockInv, QueueInv, InCallback
<1>1. CASE InitCheck
  BY <1>1 DEF InitCheck, transport, sending, threads, io
<1>2. CASE InitAttach
  BY <1>2 DEF InitAttach, transport, sending, threads, io
<1>3. ASSUME NEW t \in Callers, NEW op \in Ops, Issue(t, op) PROVE StrandInv'
  BY <1>3 DEF Issue, CanRun, InCallback, transport, sending, io
<1>4. ASSUME NEW t \in Callers, Register(t) PROVE StrandInv'
  BY <1>4 DEF Register, CanRun, InCallback, transport, sending, io
<1>5. ASSUME NEW t \in Callers, EnqueueLock(t) PROVE StrandInv'
  BY <1>5 DEF EnqueueLock, CallerLock, CanRun, InCallback, io
<1>6. ASSUME NEW t \in Callers, EnqueueSend(t) PROVE StrandInv'
  <2>1. /\ pc[t] = "send" /\ pc'[t] \in {"wait", "idle"} /\ CanRun(t) /\ queue_mu = t
        /\ \A u \in Callers \ {t} : pc'[u] = pc[u] /\ direct'[u] = direct[u] /\ pc[u] # "send"
        /\ UNCHANGED <<init_pc, connected, flushed, io_pc>>
    BY <1>6 DEF EnqueueSend, CanRun, transport, io
  <2>2. InitInv' /\ LockInv'
    BY <1>6, <2>1 DEF EnqueueSend, CanRun, io
  <2>3. CASE direct[t]
    <3>1. send_queue' = send_queue
      BY <1>6, <2>3 DEF EnqueueSend
    <3> QED
      BY <2>1, <2>2, <3>1
  <2>4. CASE ~direct[t]
    BY <2>1, <2>2, <2>4
  <2> QED
    BY <2>3, <2>4
<1>7. ASSUME NEW t \in Callers, Timeout(t) \/ Return(t) PROVE StrandInv'
  BY <1>7 DEF Timeout, Return, CanRun, InCallback, sending, io
<1>8. ASSUME NEW t \in Callers, NEW id \in Ids, Collect(t, id) PROVE StrandInv'
  BY <1>8 DEF Collect, CanRun, InCallback, sending, io, threads
<1>9. ASSUME NEW t \in Callers, NEW id \in Ids, CancelExchange(t, id) PROVE StrandInv'
  BY <1>9 DEF CancelExchange, CanRun, InCallback, sending, io
<1>10. ASSUME NEW t \in Callers, CancelErase(t) PROVE StrandInv'
  BY <1>10 DEF CancelErase, CanRun, InCallback, sending, io
<1>11. CASE IoOpen
  BY <1>11 DEF IoOpen, Dispatches, BacklogLock, threads
<1>12. CASE IoFlush
  BY <1>12 DEF IoFlush, threads
<1>13. CASE IoFlushed
  BY <1>13 DEF IoFlushed, ClearBacklog, Unlock, threads
<1>14. CASE IoClose
  BY <1>14 DEF IoClose, Dispatches, sending, threads, io
<1>15. CASE IoResponse
  BY <1>15 DEF IoResponse, Dispatches, sending, threads
<1>16. CASE IoInvoke \/ IoInstall \/ IoResolve
  BY <1>16 DEF IoInvoke, IoInstall, IoResolve, sending, threads
<1>17. CASE IoPush
  BY <1>17 DEF IoPush, Dispatches, sending, threads
<1>18. CASE IoCallbackReturns
  BY <1>18 DEF IoCallbackReturns, InCallback, sending, threads
<1>19. CASE IoDiscard \/ IoNoise \/ ConnOpen \/ ConnDrop \/ UNCHANGED vars
  <2>1. UNCHANGED <<init_pc, connected, queue_mu, send_queue, threads, io>>
    BY <1>19 DEF IoDiscard, IoNoise, ConnOpen, ConnDrop, vars, sending
  <2> QED
    BY <2>1 DEF threads, io
<1>20. ASSUME NEW event, Receives(event) PROVE StrandInv'
  BY <1>20 DEF Receives, threads, io
<1> QED
  BY <1>1, <1>2, <1>3, <1>4, <1>5, <1>6, <1>7, <1>8, <1>9, <1>10, <1>11, <1>12, <1>13,
     <1>14, <1>15, <1>16, <1>17, <1>18, <1>19, <1>20
  DEF Next, Caller, IoStep, Environment, Answer, PushOn

\* The queue is empty whenever an open has been handled and nobody holds
\* queue_mu_, and what a thread read of connected_ under it still counts.
THEOREM StrandInvariant == Spec => []StrandInv
<1>1. Init => StrandInv
  BY DEF Init, StrandInv, InitInv, LockInv, QueueInv
<1> QED
  BY <1>1, StrandStep, TypeInvariant, PTL DEF Spec

\* No request waits in send_queue_ for an open that has already been handled,
\* however callers, callbacks, opens and closes interleave.
THEOREM FramesNotStranded == Spec => []NoStrandedFrame
<1>1. StrandInv => NoStrandedFrame
  BY ThreadsAssumption DEF StrandInv, LockInv, QueueInv, NoStrandedFrame
<1> QED
  BY <1>1, StrandInvariant, PTL

-----------------------------------------------------------------------------
(* An answer finds its handler.                                             *)

\* Nothing but the answer to id ends its registration, and that settles the
\* promise before the I/O thread turns to the next event.
LEMMA ReachableStable ==
    ASSUME TypeInv, [Next]_vars, NEW id \in Ids, Reachable(id)
    PROVE  Reachable(id)'
<1> USE DEF TypeInv, TypeOK, CallersBusy, Reachable, Handling
<1>1. CASE \E t \in Callers : Register(t)
  BY <1>1 DEF Register, io
<1>2. CASE IoOpen
  BY <1>2 DEF IoOpen, Dispatches, calls
<1>3. CASE IoFlush \/ IoFlushed
  BY <1>3 DEF IoFlush, IoFlushed, calls
<1>4. CASE IoResponse
  BY <1>4 DEF IoResponse, Dispatches, TakeHandler, calls
<1>5. CASE IoInvoke
  BY <1>5 DEF IoInvoke, Activate
<1>6. CASE IoInstall
  BY <1>6 DEF IoInstall, calls
<1>7. CASE IoResolve
  BY <1>7 DEF IoResolve
<1>8. CASE IoPush
  BY <1>8 DEF IoPush, Dispatches, calls
<1>9. CASE IoCallbackReturns
  BY <1>9 DEF IoCallbackReturns, InCallback, calls
<1>10. CASE InitCheck \/ InitAttach \/ IoDiscard \/ IoNoise \/ ConnOpen \/ ConnDrop \/ UNCHANGED vars
  BY <1>10 DEF InitCheck, InitAttach, IoDiscard, IoNoise, ConnOpen, ConnDrop, vars, calls, io
<1>11. ASSUME NEW event, Receives(event) PROVE Reachable(id)'
  BY <1>11 DEF Receives, calls, io
<1>12. ASSUME NEW t \in Callers,
              \/ \E op \in Ops : Issue(t, op)
              \/ EnqueueLock(t) \/ EnqueueSend(t) \/ Timeout(t) \/ Return(t)
              \/ \E c \in Ids : Collect(t, c) \/ CancelExchange(t, c)
              \/ CancelErase(t)
       PROVE  Reachable(id)'
  <2>1. UNCHANGED <<pending, result, io>>
    BY <1>12 DEF Issue, EnqueueLock, EnqueueSend, Timeout, Return, Collect, CancelExchange,
                 CancelErase, calls
  <2> QED
    BY <2>1 DEF io
<1>13. CASE IoClose
  BY <1>13 DEF IoClose, Dispatches, CloseKeeps, calls
<1> QED
  BY <1>1, <1>2, <1>3, <1>4, <1>5, <1>6, <1>7, <1>8, <1>9, <1>10, <1>11, <1>12, <1>13
  DEF Next, Caller, IoStep, Environment, Answer, PushOn

\* Frames move from a thread to the queue or the wire, and from the queue to the
\* wire; each was registered before the first of these moves.
LEMMA RegisteredStep ==
    ASSUME TypeInv, RegisteredInv, [Next]_vars PROVE RegisteredInv'
<1> USE DEF RegisteredInv
<1>0. /\ \A i \in DOMAIN wire : wire[i].id \in Ids
      /\ \A i \in DOMAIN send_queue : send_queue[i].id \in Ids
      /\ \A t \in Callers : pc[t] # "idle" => cur[t] \in Ids
  BY FrameFields DEF TypeInv, TypeOK, CallersBusy
<1>1. \A id \in Ids : Reachable(id) => Reachable(id)'
  BY ReachableStable
<1>2. CASE UNCHANGED <<wire, send_queue, pc, cur, msg>>
  BY <1>0, <1>1, <1>2
<1>3. CASE wire' = <<>> /\ UNCHANGED <<send_queue, pc, cur, msg>>
  BY <1>0, <1>1, <1>3
<1>4. CASE IoFlushed
  BY <1>0, <1>1, <1>4 DEF IoFlushed, ClearBacklog, threads
<1>5. CASE IoFlush
  <2>1. send_queue[flushed + 1] \in Frames /\ flushed + 1 \in DOMAIN send_queue
    BY <1>5, ElementOfSeq DEF IoFlush, TypeInv, TypeOK
  <2>2. \A i \in DOMAIN wire' : \/ i \in DOMAIN wire /\ wire'[i] = wire[i]
                               \/ wire'[i] = send_queue[flushed + 1]
    BY <1>5, <2>1 DEF IoFlush, OnWire, TypeInv, TypeOK
  <2> QED
    BY <1>0, <1>1, <1>5, <2>1, <2>2 DEF IoFlush, threads
<1>6. ASSUME NEW t \in Callers, NEW op \in Ops, Issue(t, op) PROVE RegisteredInv'
  BY <1>0, <1>1, <1>6 DEF Issue, sending, TypeInv, TypeOK
<1>7. ASSUME NEW t \in Callers, Register(t) PROVE RegisteredInv'
  <2>1. Reachable(cur[t])'
    BY <1>7 DEF Register, Reachable, TypeInv, TypeOK
  <2> QED
    BY <1>0, <1>1, <1>7, <2>1 DEF Register, sending, TypeInv, TypeOK
<1>8. ASSUME NEW t \in Callers, EnqueueLock(t) PROVE RegisteredInv'
  BY <1>0, <1>1, <1>8 DEF EnqueueLock, TypeInv, TypeOK
<1>9. ASSUME NEW t \in Callers, EnqueueSend(t) PROVE RegisteredInv'
  <2>1. NewFrame(t) \in Frames /\ pc[t] = "send"
    BY <1>9 DEF EnqueueSend, NewFrame, Frames, TypeInv, TypeOK, CallersBusy
  <2>2. NewFrame(t).kind = "request" => \E id \in Ids : id = NewFrame(t).id /\ Reachable(id)'
    BY <1>0, <1>1, <2>1 DEF NewFrame
  <2> HIDE DEF NewFrame
  <2>3. \A i \in DOMAIN wire' : \/ i \in DOMAIN wire /\ wire'[i] = wire[i]
                               \/ wire'[i] = NewFrame(t)
    <3>1. wire' = wire \/ wire' = Append(wire, NewFrame(t))
      BY <1>9 DEF EnqueueSend, OnWire
    <3>2. \A i \in DOMAIN Append(wire, NewFrame(t)) :
             \/ i \in DOMAIN wire /\ Append(wire, NewFrame(t))[i] = wire[i]
             \/ Append(wire, NewFrame(t))[i] = NewFrame(t)
      BY <2>1, AppendElements DEF TypeInv, TypeOK
    <3> QED
      BY <3>1, <3>2
  <2>4. \A i \in DOMAIN send_queue' :
           \/ i \in DOMAIN send_queue /\ send_queue'[i] = send_queue[i]
           \/ send_queue'[i] = NewFrame(t)
    <3>1. send_queue' = send_queue \/ send_queue' = Append(send_queue, NewFrame(t))
      BY <1>9 DEF EnqueueSend
    <3>2. \A i \in DOMAIN Append(send_queue, NewFrame(t)) :
             \/ i \in DOMAIN send_queue /\ Append(send_queue, NewFrame(t))[i] = send_queue[i]
             \/ Append(send_queue, NewFrame(t))[i] = NewFrame(t)
      BY <2>1, AppendElements DEF TypeInv, TypeOK
    <3> QED
      BY <3>1, <3>2
  <2>5. \A u \in Callers \ {t} : pc'[u] = pc[u] /\ msg'[u] = msg[u] /\ cur'[u] = cur[u]
    BY <1>9 DEF EnqueueSend, TypeInv, TypeOK
  <2>6. pc'[t] \in {"wait", "idle"}
    BY <1>9 DEF EnqueueSend, TypeInv, TypeOK
  <2> QED
    BY <1>0, <1>1, <2>2, <2>3, <2>4, <2>5, <2>6
<1>10. ASSUME NEW t \in Callers, Timeout(t) \/ Return(t) PROVE RegisteredInv'
  <2>1. /\ pc' = [pc EXCEPT ![t] = "idle"] /\ cur' = [cur EXCEPT ![t] = NoCall]
        /\ UNCHANGED <<msg, wire, send_queue>>
    BY <1>10 DEF Timeout, Return, sending
  <2> QED
    BY <1>0, <1>1, <2>1 DEF TypeInv, TypeOK
<1>11. ASSUME NEW t \in Callers, NEW id \in Ids, CancelExchange(t, id) PROVE RegisteredInv'
  BY <1>0, <1>1, <1>11 DEF CancelExchange, sending, TypeInv, TypeOK
<1>12. ASSUME NEW t \in Callers, CancelErase(t) PROVE RegisteredInv'
  BY <1>0, <1>1, <1>12 DEF CancelErase, sending, TypeInv, TypeOK
<1>13. CASE ConnOpen \/ ConnDrop
  BY <1>3, <1>13 DEF ConnOpen, ConnDrop, threads
<1>14. CASE \/ InitCheck \/ InitAttach \/ IoDiscard \/ IoOpen \/ IoClose \/ IoNoise
            \/ IoResponse \/ IoInvoke \/ IoInstall \/ IoResolve \/ IoPush
            \/ IoCallbackReturns \/ UNCHANGED vars
  BY <1>2, <1>14
  DEF InitCheck, InitAttach, IoDiscard, IoOpen, IoClose, IoNoise, IoResponse, IoInvoke, IoInstall,
      IoResolve, IoPush, IoCallbackReturns, InCallback, vars, sending, threads
<1>15. ASSUME NEW event, Receives(event) PROVE RegisteredInv'
  BY <1>2, <1>15 DEF Receives, threads
<1>16. ASSUME NEW t \in Callers, NEW id \in Ids, Collect(t, id) PROVE RegisteredInv'
  BY <1>2, <1>16 DEF Collect, sending, threads
<1> QED
  BY <1>4, <1>5, <1>6, <1>7, <1>8, <1>9, <1>10, <1>11, <1>12, <1>13, <1>14, <1>15, <1>16
  DEF Next, Caller, IoStep, Environment, Answer, PushOn

\* What is on the wire or in the backlog comes from wire or from send_queue.
LEMMA FramesInFlight ==
    ASSUME TypeOK
    PROVE  /\ wire \o Backlog \in Seq(Frames)
           /\ Len(wire \o Backlog) = Len(wire) + Len(send_queue) - flushed
           /\ \A i \in DOMAIN (wire \o Backlog) :
                 \/ i \in DOMAIN wire /\ (wire \o Backlog)[i] = wire[i]
                 \/ /\ i > Len(wire) /\ i - Len(wire) + flushed \in DOMAIN send_queue
                    /\ (wire \o Backlog)[i] = send_queue[i - Len(wire) + flushed]
<1>1. /\ wire \in Seq(Frames) /\ send_queue \in Seq(Frames) /\ flushed \in 0..Len(send_queue)
      /\ Len(wire) \in Nat /\ Len(send_queue) \in Nat /\ DOMAIN wire = 1..Len(wire)
      /\ DOMAIN send_queue = 1..Len(send_queue)
  BY DEF TypeOK
<1>2. /\ Backlog \in Seq(Frames)
      /\ Len(Backlog) = Len(send_queue) - flushed
      /\ \A j \in 1..(Len(send_queue) - flushed) : Backlog[j] = send_queue[j + flushed]
  <2>1. \A j \in (flushed + 1)..Len(send_queue) : send_queue[j] \in Frames
    BY <1>1, ElementOfSeq
  <2>2. flushed \in Int /\ flushed + 1 \in Int /\ Len(send_queue) \in Int
    BY <1>1
  <2>3. /\ SubSeq(send_queue, flushed + 1, Len(send_queue)) \in Seq(Frames)
        /\ Len(SubSeq(send_queue, flushed + 1, Len(send_queue)))
             = IF flushed + 1 <= Len(send_queue) THEN Len(send_queue) - (flushed + 1) + 1 ELSE 0
        /\ \A i \in 1..(Len(send_queue) - (flushed + 1) + 1) :
              SubSeq(send_queue, flushed + 1, Len(send_queue))[i] = send_queue[flushed + 1 + i - 1]
    BY <2>1, <2>2, SubSeqProperties
  <2> QED
    BY <1>1, <2>3 DEF Backlog
<1> HIDE DEF Backlog
<1>3. /\ wire \o Backlog \in Seq(Frames)
      /\ Len(wire \o Backlog) = Len(wire) + Len(Backlog)
      /\ \A i \in 1..(Len(wire) + Len(Backlog)) :
            (wire \o Backlog)[i] = IF i <= Len(wire) THEN wire[i] ELSE Backlog[i - Len(wire)]
  BY <1>1, <1>2, ConcatProperties
<1>4. DOMAIN (wire \o Backlog) = 1..(Len(wire) + Len(Backlog))
  BY <1>3, LenProperties
<1> QED
  BY <1>1, <1>2, <1>3, <1>4

\* Every request that is queued or sent has its handler in pending_, has it in
\* the I/O thread's hands, or has its result: the answer is never unroutable.
THEOREM RequestsRegistered == Spec => []RegisteredBeforeSent
<1>1. Init => RegisteredInv
  BY DEF Init, RegisteredInv
<1>2. TypeInv /\ RegisteredInv => RegisteredBeforeSent
  BY FramesInFlight DEF TypeInv, RegisteredInv, RegisteredBeforeSent, Reachable
<1> QED
  BY <1>1, <1>2, RegisteredStep, TypeInvariant, PTL DEF Spec

-----------------------------------------------------------------------------
(* Frames go out in the order of the critical sections.                     *)

\* A frame gets the newest stamp and is appended behind all others: behind the
\* queue when it is queued, to the wire only when the queue is empty.
LEMMA OrderStep ==
    ASSUME TypeInv, StrandInv, OrderInv, [Next]_vars PROVE OrderInv'
<1> USE DEF OrderInv
<1>0. /\ stamp \in Nat
      /\ \A i \in DOMAIN wire : wire[i].stamp \in Nat
      /\ \A i \in DOMAIN send_queue : send_queue[i].stamp \in Nat
      /\ DOMAIN wire = 1..Len(wire) /\ DOMAIN send_queue = 1..Len(send_queue)
      /\ Len(wire) \in Nat /\ Len(send_queue) \in Nat /\ flushed \in 0..Len(send_queue)
  BY FrameFields, LenProperties DEF TypeInv, TypeOK
<1>1. CASE UNCHANGED <<send_queue, stamp, flushed>> /\ wire' \in {wire, <<>>}
           /\ \A t \in Callers : pc'[t] = "send" => pc[t] = "send"
  BY <1>1
<1>2. ASSUME NEW t \in Callers, EnqueueLock(t) PROVE OrderInv'
  <2>1. \A u \in Callers : pc[u] # "send"
    BY <1>2, ThreadsAssumption DEF EnqueueLock, CallerLock, StrandInv, LockInv
  <2> QED
    BY <1>0, <1>2, <2>1 DEF EnqueueLock, io
<1>3. ASSUME NEW t \in Callers, EnqueueSend(t) PROVE OrderInv'
  <2>1. NewFrame(t) \in Frames /\ NewFrame(t).stamp = stamp
    BY <1>3 DEF EnqueueSend, NewFrame, Frames, TypeInv, TypeOK, CallersBusy
  <2>2. /\ UNCHANGED <<stamp, flushed>>
        /\ \/ UNCHANGED <<wire, send_queue>>
           \/ wire' = Append(wire, NewFrame(t)) /\ send_queue' = <<>> /\ send_queue = <<>>
           \/ send_queue' = Append(send_queue, NewFrame(t)) /\ wire' = wire
    BY <1>3 DEF EnqueueSend, OnWire, io, StrandInv, QueueInv
  <2>3. \A u \in Callers : pc'[u] # "send"
    BY <1>3, ThreadsAssumption DEF EnqueueSend, StrandInv, LockInv, TypeInv, TypeOK
  <2>4. /\ \A i \in DOMAIN wire : wire[i].stamp < stamp
        /\ \A i \in DOMAIN send_queue : send_queue[i].stamp < stamp
    BY <1>3 DEF EnqueueSend
  <2> HIDE DEF NewFrame
  <2>5. CASE UNCHANGED <<wire, send_queue>>
    BY <1>0, <2>2, <2>3, <2>5
  <2>6. CASE wire' = Append(wire, NewFrame(t)) /\ send_queue' = <<>> /\ send_queue = <<>>
    <3>1. \A i \in DOMAIN wire' :
             \/ i \in 1..Len(wire) /\ wire'[i] = wire[i]
             \/ i = Len(wire) + 1 /\ wire'[i].stamp = stamp
      BY <1>0, <2>1, <2>6, AppendElements DEF TypeInv, TypeOK
    <3> QED
      BY <1>0, <2>2, <2>3, <2>4, <2>6, <3>1
  <2>7. CASE send_queue' = Append(send_queue, NewFrame(t)) /\ wire' = wire
    <3>1. \A i \in DOMAIN send_queue' :
             \/ i \in 1..Len(send_queue) /\ send_queue'[i] = send_queue[i]
             \/ i = Len(send_queue) + 1 /\ send_queue'[i].stamp = stamp
      BY <1>0, <2>1, <2>7, AppendElements DEF TypeInv, TypeOK
    <3> QED
      BY <1>0, <2>2, <2>3, <2>4, <2>7, <3>1
  <2> QED
    BY <2>2, <2>5, <2>6, <2>7
<1>4. CASE IoFlush
  <2>1. /\ flushed' = flushed + 1 /\ flushed + 1 \in DOMAIN send_queue
        /\ UNCHANGED <<send_queue, stamp, pc>>
        /\ wire' = wire \/ wire' = Append(wire, send_queue[flushed + 1])
        /\ send_queue[flushed + 1] \in Frames
    <3>1. flushed' = flushed + 1 /\ flushed < Len(send_queue)
      BY <1>4 DEF IoFlush
    <3>2. UNCHANGED <<send_queue, stamp, pc>>
          /\ (wire' = wire \/ wire' = Append(wire, send_queue[flushed + 1]))
      BY <1>4 DEF IoFlush, OnWire, threads
    <3>3. flushed + 1 \in DOMAIN send_queue
      BY <1>0, <3>1
    <3> QED
      BY <3>1, <3>2, <3>3, FrameFields DEF TypeInv, TypeOK
  <2>2. \A t \in Callers : pc[t] # "send"
    BY <1>4, ThreadsAssumption DEF IoFlush, StrandInv, LockInv, InCallback, TypeInv, TypeOK
  <2>3. CASE wire' = wire
    BY <1>0, <2>1, <2>2, <2>3
  <2>4. CASE wire' = Append(wire, send_queue[flushed + 1])
    <3>1. \A i \in DOMAIN wire' :
             \/ i \in 1..Len(wire) /\ wire'[i] = wire[i]
             \/ i = Len(wire) + 1 /\ wire'[i] = send_queue[flushed + 1]
      BY <1>0, <2>1, <2>4, AppendElements DEF TypeInv, TypeOK
    <3>2. /\ \A i \in DOMAIN wire : wire[i].stamp < send_queue[flushed + 1].stamp
          /\ \A j \in DOMAIN send_queue :
                flushed + 1 < j => send_queue[flushed + 1].stamp < send_queue[j].stamp
      BY <1>0, <2>1
    <3>3. \A i, j \in DOMAIN wire' : i < j => wire'[i].stamp < wire'[j].stamp
      BY <1>0, <3>1, <3>2
    <3>4. \A i \in DOMAIN wire', j \in DOMAIN send_queue' :
             flushed' < j => wire'[i].stamp < send_queue'[j].stamp
      BY <1>0, <2>1, <3>1, <3>2
    <3>5. \A i \in DOMAIN wire' : wire'[i].stamp <= stamp'
      BY <2>1, <3>1
    <3> QED
      BY <2>1, <2>2, <3>3, <3>4, <3>5
  <2> QED
    BY <2>1, <2>3, <2>4
<1>5. CASE IoFlushed
  BY <1>0, <1>5 DEF IoFlushed, ClearBacklog, threads
<1>6. ASSUME NEW t \in Callers,
             \/ \E op \in Ops : Issue(t, op)
             \/ Register(t) \/ Timeout(t) \/ Return(t)
             \/ \E id \in Ids : Collect(t, id) \/ CancelExchange(t, id)
             \/ CancelErase(t)
      PROVE  OrderInv'
  <2>1. UNCHANGED <<sending, io>> /\ \A u \in Callers : pc'[u] = "send" => pc[u] = "send"
    BY <1>6 DEF Issue, Register, Timeout, Return, Collect, CancelExchange, CancelErase,
                threads, TypeInv, TypeOK
  <2> QED
    BY <1>1, <2>1 DEF sending, io
<1>7. CASE \/ InitCheck \/ InitAttach \/ IoDiscard \/ IoOpen \/ IoClose \/ IoNoise
           \/ IoResponse \/ IoInvoke \/ IoInstall \/ IoResolve \/ IoPush
           \/ IoCallbackReturns \/ UNCHANGED vars
  BY <1>1, <1>7
  DEF InitCheck, InitAttach, IoDiscard, IoOpen, IoClose, IoNoise, IoResponse, IoInvoke, IoInstall,
      IoResolve, IoPush, IoCallbackReturns, InCallback, vars, sending, threads, io
<1>8. CASE ConnOpen \/ ConnDrop
  BY <1>1, <1>8 DEF ConnOpen, ConnDrop, threads, io
<1>9. ASSUME NEW event, Receives(event) PROVE OrderInv'
  BY <1>1, <1>9 DEF Receives, threads, io
<1> QED
  BY <1>2, <1>3, <1>4, <1>5, <1>6, <1>7, <1>8, <1>9
  DEF Next, Caller, IoStep, Environment, Answer, PushOn

\* Frames are sent, and wait, in the order in which their threads took
\* queue_mu_: neither the flush on open nor a close or a second connection lets
\* a later request overtake an earlier one.
THEOREM FramesSentInOrder == Spec => []SentInOrder
<1>1. Init => OrderInv
  BY DEF Init, OrderInv
<1>2. TypeInv /\ OrderInv => SentInOrder
  <2> SUFFICES ASSUME TypeInv, OrderInv,
                      NEW i \in DOMAIN (wire \o Backlog), NEW j \in DOMAIN (wire \o Backlog), i < j
               PROVE  (wire \o Backlog)[i].stamp < (wire \o Backlog)[j].stamp
    BY DEF SentInOrder
  <2>1. /\ i \in Nat /\ j \in Nat /\ Len(wire) \in Nat /\ flushed \in Nat
        /\ DOMAIN wire = 1..Len(wire) /\ DOMAIN send_queue = 1..Len(send_queue)
    BY FramesInFlight, LenProperties DEF TypeInv, TypeOK
  <2>2. /\ \/ i \in DOMAIN wire /\ (wire \o Backlog)[i] = wire[i]
           \/ /\ i > Len(wire) /\ i - Len(wire) + flushed \in DOMAIN send_queue
              /\ (wire \o Backlog)[i] = send_queue[i - Len(wire) + flushed]
        /\ \/ j \in DOMAIN wire /\ (wire \o Backlog)[j] = wire[j]
           \/ /\ j > Len(wire) /\ j - Len(wire) + flushed \in DOMAIN send_queue
              /\ (wire \o Backlog)[j] = send_queue[j - Len(wire) + flushed]
    BY FramesInFlight DEF TypeInv
  <2>3. CASE j \in DOMAIN wire
    BY <2>1, <2>2, <2>3 DEF OrderInv
  <2>4. CASE i \in DOMAIN wire /\ j > Len(wire)
    <3>1. flushed < j - Len(wire) + flushed
      BY <2>1, <2>4
    <3> QED
      BY <2>1, <2>2, <2>4, <3>1 DEF OrderInv
  <2>5. CASE i > Len(wire) /\ j > Len(wire)
    <3>1. i - Len(wire) + flushed < j - Len(wire) + flushed
      BY <2>1
    <3>2. /\ i - Len(wire) + flushed \in DOMAIN send_queue
          /\ j - Len(wire) + flushed \in DOMAIN send_queue
          /\ (wire \o Backlog)[i] = send_queue[i - Len(wire) + flushed]
          /\ (wire \o Backlog)[j] = send_queue[j - Len(wire) + flushed]
      BY <2>1, <2>2, <2>5
    <3>3. \A a, b \in DOMAIN send_queue : a < b => send_queue[a].stamp < send_queue[b].stamp
      BY DEF OrderInv
    <3> QED
      BY <3>1, <3>2, <3>3
  <2> QED
    BY <2>1, <2>2, <2>3, <2>4, <2>5
<1> QED
  BY <1>1, <1>2, OrderStep, TypeInvariant, StrandInvariant, PTL DEF Spec
=============================================================================
