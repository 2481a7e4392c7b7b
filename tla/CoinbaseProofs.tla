--------------------------- MODULE CoinbaseProofs ---------------------------
(***************************************************************************)
(* Theorems about CoinbaseStream for any set of threads and channels and    *)
(* any bounds: its types, that no frame is stranded, how the handles and    *)
(* the installed callbacks keep together, and where each frame is.          *)
(***************************************************************************)
EXTENDS CoinbaseStream, SequenceTheorems, FiniteSetTheorems, TLAPS

-----------------------------------------------------------------------------
(* The inductive invariants.                                                *)

\* A thread inside an operation works for a subscription.
CallersBusy == \A t \in Callers : pc[t] # "idle" => cur[t] \in Ids

TypeInv == TypeOK /\ CallersBusy

\* Subscriptions are issued in order.
IssuedInOrder == \A id \in Issued, other \in Ids \ Issued : id < other

\* A callback is installed for types of its own channel only.
RoutedByType ==
    \A m \in Types : handlers[m] # NoCall => handlers[m] \in Issued /\ m \in TypesOf(handlers[m])

\* Only what was subscribed, and whose handle is off by then, is erased.
ErasedIsOff ==
    \A t \in Callers : pc[t] = "erase" => cur[t] \in Issued /\ ~active[cur[t]]

RouteInv ==
    /\ IssuedInOrder /\ RoutedByType /\ ErasedIsOff
    /\ LiveHandleRouted /\ CancelledStaysOff

\* A sequence holds a frame, and none twice.
Holds(s, f) == \E i \in DOMAIN s : s[i] = f
Distinct(s) == \A i, j \in DOMAIN s : s[i] = s[j] => i = j

\* A thread prepares a frame, from its first critical section to its last.
Carries(t, f) == pc[t] # "idle" /\ NewFrame(t) = f

\* A frame is somewhere on its way, and is due to be or have been.
OnItsWay(f) ==
    Holds(send_queue, f) \/ Holds(queued, f) \/ Holds(wire, f) \/ \E t \in Callers : Carries(t, f)
Due(f) == f.id \in Issued /\ (f.kind = "unsubscribe" => ~active[f.id])

\* A frame is in one place, at most once, and only if it is due.
CopiesInv ==
    /\ Distinct(send_queue) /\ Distinct(queued) /\ Distinct(wire)
    /\ \A f \in Frames :
          /\ ~(Holds(send_queue, f) /\ Holds(queued, f))
          /\ ~(Holds(send_queue, f) /\ Holds(wire, f))
          /\ ~(Holds(queued, f) /\ Holds(wire, f))
    /\ \A t \in Callers, f \in Frames : Carries(t, f) =>
          ~Holds(send_queue, f) /\ ~Holds(queued, f) /\ ~Holds(wire, f)
    /\ \A t, u \in Callers, f \in Frames : Carries(t, f) /\ Carries(u, f) => t = u
    /\ \A f \in Frames : OnItsWay(f) => Due(f)
    /\ \A t \in Callers : pc[t] = "idle" => msg[t] = "subscribe"

\* Before the first open the I/O thread has had nothing to do, and the open
\* handler's copy is empty but while it sends.
QuietInv ==
    /\ opens = 0 =>
          /\ ~conn_up /\ inbox = <<>> /\ wire = <<>> /\ ~connected /\ io_pc = "idle"
          /\ \A t \in Callers : pc[t] # "send"
    /\ io_pc # "flush" => queued = <<>>

\* Until a connection is lost, what is due is on its way.
Unbroken == opens = 0 \/ (opens = 1 /\ conn_up)
PresentInv == Unbroken => \A f \in Frames : Due(f) => OnItsWay(f)

FramesInv == CopiesInv /\ QuietInv /\ PresentInv

-----------------------------------------------------------------------------
(* Types.                                                                   *)

\* What a push carries.
LEMMA EventFields ==
    ASSUME NEW e \in Events
    PROVE  e.type = "push" => e.message \in Types
BY DEF Events, Lifecycle, Inbound

\* What the I/O thread takes from the inbox is an event.
LEMMA DispatchFields ==
    ASSUME TypeOK, NEW type, Dispatches(type)
    PROVE  Head(inbox) \in Events /\ inbox' \in Seq(Events)
BY HeadTailProperties DEF Dispatches, TypeOK

\* A step of the transport alone keeps TypeInv.
LEMMA TransportKeepsType ==
    ASSUME TypeOK, CallersBusy,
           conn_up' \in BOOLEAN, opens' \in 0..MaxOpens,
           inbox' \in Seq(Events), wire' \in Seq(Frames),
           UNCHANGED <<ready, connected, send_queue, handlers, observers, subs, threads, io>>
    PROVE  TypeInv'
BY DEF TypeInv, TypeOK, CallersBusy, subs, threads, io

\* So does the arrival of any event.
LEMMA ReceiveKeepsType ==
    ASSUME TypeOK, CallersBusy, NEW event \in Events, Receives(event)
    PROVE  TypeInv'
<1>1. inbox' \in Seq(Events)
  BY DEF Receives, TypeOK
<1> QED
  BY <1>1, TransportKeepsType DEF Receives, TypeOK

\* TypeInv is an invariant: every variable keeps its type through every callback,
\* subscription and transport step, and only a thread at work has a current
\* subscription.
THEOREM TypeInvariant == Spec => []TypeInv
<1> USE LimitsAssumption
<1>1. Init => TypeInv
  <2> SUFFICES ASSUME Init PROVE TypeOK /\ CallersBusy BY DEF TypeInv
  <2>1. opens \in 0..MaxOpens
    BY DEF Init
  <2>2. /\ inbox \in Seq(Events) /\ wire \in Seq(Frames)
        /\ send_queue \in Seq(Frames) /\ queued \in Seq(Frames)
    BY EmptySeq DEF Init
  <2> QED
    BY <2>1, <2>2 DEF Init, TypeOK, CallersBusy
<1>2. TypeInv /\ [Next]_vars => TypeInv'
  <2> SUFFICES ASSUME TypeOK, CallersBusy, [Next]_vars PROVE TypeInv' BY DEF TypeInv
  <2>1. CASE Attach
    BY <2>1 DEF TypeInv, TypeOK, CallersBusy, Attach, transport, subs, threads, io
  <2>2. ASSUME NEW t \in Callers, NEW kind \in Observers, SetObserver(t, kind) PROVE TypeInv'
    BY <2>2 DEF TypeInv, TypeOK, CallersBusy, SetObserver, transport, subs, threads, io
  <2>3. ASSUME NEW t \in Callers, NEW c \in Channels, Subscribe(t, c) PROVE TypeInv'
    BY <2>3 DEF TypeInv, TypeOK, CallersBusy, Subscribe, transport, io, Ids
  <2>4. ASSUME NEW t \in Callers, NEW id \in Ids, CancelExchange(t, id) PROVE TypeInv'
    BY <2>4 DEF TypeInv, TypeOK, CallersBusy, CancelExchange, transport, io
  <2>5. ASSUME NEW t \in Callers, CancelErase(t) PROVE TypeInv'
    BY <2>5 DEF TypeInv, TypeOK, CallersBusy, CancelErase, EraseAll, transport, subs, io
  <2>6. ASSUME NEW t \in Callers, Enqueue(t) PROVE TypeInv'
    <3>1. NewFrame(t) \in Frames
      BY <2>6 DEF Enqueue, NewFrame, Frames, TypeOK, CallersBusy
    <3>2. send_queue' \in Seq(Frames)
      <4> HIDE DEF NewFrame
      <4>1. Append(send_queue, NewFrame(t)) \in Seq(Frames)
        BY <3>1 DEF TypeOK
      <4> QED
        BY <2>6, <4>1 DEF Enqueue, TypeOK
    <3>3. /\ pc' \in [Callers -> {"idle", "erase", "enqueue", "send"}]
          /\ cur' \in [Callers -> Ids \cup {NoCall}]
          /\ msg' \in [Callers -> {"subscribe", "unsubscribe"}]
          /\ CallersBusy'
      BY <2>6 DEF Enqueue, Leaves, AfterQueued, TypeOK, CallersBusy
    <3> QED
      BY <2>6, <3>2, <3>3 DEF Enqueue, TypeInv, TypeOK, transport, subs, io
  <2>7. ASSUME NEW t \in Callers, Send(t) PROVE TypeInv'
    <3>1. NewFrame(t) \in Frames
      BY <2>7 DEF Send, NewFrame, Frames, TypeOK, CallersBusy
    <3>2. wire' \in Seq(Frames)
      <4> HIDE DEF NewFrame
      <4> QED
        BY <2>7, <3>1 DEF Send, OnWire, TypeOK
    <3>3. /\ pc' \in [Callers -> {"idle", "erase", "enqueue", "send"}]
          /\ cur' \in [Callers -> Ids \cup {NoCall}]
          /\ msg' \in [Callers -> {"subscribe", "unsubscribe"}]
          /\ CallersBusy'
      BY <2>7 DEF Send, Leaves, TypeOK, CallersBusy
    <3> QED
      BY <2>7, <3>2, <3>3 DEF Send, TypeInv, TypeOK, transport, subs, io
  <2>8. CASE IoDiscard
    BY <2>8 DEF TypeInv, TypeOK, CallersBusy, IoDiscard, subs, threads, io
  <2>9. CASE IoOpen
    BY <2>9, DispatchFields DEF TypeInv, TypeOK, CallersBusy, IoOpen, SwapBacklog, Dispatches, subs, threads
  <2>10. CASE IoFlush
    BY <2>10 DEF TypeInv, TypeOK, CallersBusy, IoFlush, FlushMore, OnWire, transport, subs, threads
  <2>11. CASE IoFlushed
    BY <2>11 DEF TypeInv, TypeOK, CallersBusy, IoFlushed, transport, subs, threads
  <2>12. CASE IoClose
    BY <2>12, DispatchFields DEF TypeInv, TypeOK, CallersBusy, IoClose, CloseKeepsHandlers, Dispatches, subs, threads, io
  <2>13. CASE IoNoise
    BY <2>13, DispatchFields DEF TypeInv, TypeOK, CallersBusy, IoNoise, Dispatches, subs, threads, io
  <2>14. ASSUME NEW kind, IoObserve(kind) PROVE TypeInv'
    BY <2>14, DispatchFields DEF TypeInv, TypeOK, CallersBusy, IoObserve, Dispatches, subs, threads
  <2>15. CASE IoPush
    <3>1. Head(inbox) \in Events /\ inbox' \in Seq(Events)
      BY <2>15, DispatchFields DEF IoPush
    <3>2. handlers[Head(inbox).message] \in Ids \cup {NoCall}
      BY <2>15, <3>1, EventFields DEF IoPush, Dispatches, TypeOK
    <3> QED
      BY <2>15, <3>1, <3>2 DEF TypeInv, TypeOK, CallersBusy, IoPush, HasHandler, Dispatches, subs, threads
  <2>16. CASE IoCallbackReturns
    BY <2>16 DEF TypeInv, TypeOK, CallersBusy, IoCallbackReturns, transport, subs, threads
  <2>17. CASE Escapes
    <3>1. inbox' \in Seq(Events)
      BY <2>17, DispatchFields DEF Escapes, transport, TypeOK
    <3> QED
      BY <2>17, <3>1 DEF TypeInv, TypeOK, CallersBusy, Escapes, Dispatches, transport, subs, threads
  <2>18. CASE ConnOpen
    BY <2>18 DEF TypeInv, TypeOK, CallersBusy, ConnOpen, Events, Lifecycle, subs, threads, io
  <2>19. CASE ConnDrop
    <3>1. PICK kept \in 0..Len(inbox) :
              inbox' = Append(SubSeq(inbox, 1, kept), [type |-> "close"])
      BY <2>19 DEF ConnDrop
    <3>2. SubSeq(inbox, 1, kept) \in Seq(Events)
      BY <3>1, SubSeqProperties DEF TypeOK
    <3>3. [type |-> "close"] \in Events
      BY DEF Events, Lifecycle
    <3>4. inbox' \in Seq(Events)
      BY <3>1, <3>2, <3>3
    <3>5. conn_up' \in BOOLEAN /\ opens' \in 0..MaxOpens /\ wire' \in Seq(Frames)
      <4>1. conn_up' = FALSE /\ wire' = <<>> /\ opens' = opens
        BY <2>19 DEF ConnDrop
      <4> QED
        BY <4>1, EmptySeq DEF TypeOK
    <3> QED
      BY <2>19, <3>4, <3>5, TransportKeepsType DEF ConnDrop
  <2>20. ASSUME NEW i \in DOMAIN wire, PushOn(i) PROVE TypeInv'
    <3>1. PICK m \in Types : Receives([type |-> "push", message |-> m])
      BY <2>20 DEF PushOn
    <3>2. [type |-> "push", message |-> m] \in Events
      BY DEF Events, Inbound
    <3> QED
      BY <3>1, <3>2, ReceiveKeepsType
  <2>21. ASSUME NEW type \in {"error", "subscriptions", "untyped", "noise"},
                Receives([type |-> type])
         PROVE TypeInv'
    <3>1. [type |-> type] \in Events
      BY DEF Events, Inbound
    <3> QED
      BY <2>21, <3>1, ReceiveKeepsType
  <2>22. CASE UNCHANGED vars
    BY <2>22 DEF TypeInv, TypeOK, CallersBusy, vars, transport, subs, threads, io
  <2> QED
    BY <2>1, <2>2, <2>3, <2>4, <2>5, <2>6, <2>7, <2>8, <2>9, <2>10, <2>11, <2>12, <2>13,
       <2>14, <2>15, <2>16, <2>17, <2>18, <2>19, <2>20, <2>21, <2>22
       DEF Next, Caller, IoStep, Environment
<1> QED
  BY <1>1, <1>2, PTL DEF Spec

\* Every variable of the Coinbase client and of its transport keeps its type.
THEOREM TypeCorrect == Spec => []TypeOK
BY TypeInvariant, PTL DEF TypeInv

-----------------------------------------------------------------------------
(* No frame is stranded.                                                    *)

\* NoStrandedFrame for all instances: one critical section sets connected_ and
\* takes the queue, another decides between queueing and sending.
THEOREM FramesNotStranded == Spec => []NoStrandedFrame
<1>1. Init => NoStrandedFrame
  BY DEF Init, NoStrandedFrame
<1>2. TypeInv /\ NoStrandedFrame /\ [Next]_vars => NoStrandedFrame'
  <2> SUFFICES ASSUME TypeOK, NoStrandedFrame, [Next]_vars PROVE NoStrandedFrame'
    BY DEF TypeInv
  <2>1. ASSUME NEW t \in Callers, Caller(t) PROVE NoStrandedFrame'
    BY <2>1 DEF Caller, SetObserver, Subscribe, CancelExchange, CancelErase, Enqueue, Send,
                NoStrandedFrame
  <2>2. CASE IoStep
    BY <2>2 DEF IoStep, IoDiscard, IoOpen, SwapBacklog, IoFlush, IoFlushed, IoClose, IoNoise,
                IoObserve, IoPush, IoCallbackReturns, NoStrandedFrame
  <2>3. CASE Attach \/ Escapes \/ Environment \/ UNCHANGED vars
    BY <2>3 DEF Attach, Escapes, Environment, ConnOpen, ConnDrop, PushOn, Receives, vars,
                NoStrandedFrame
  <2> QED
    BY <2>1, <2>2, <2>3 DEF Next
<1> QED
  BY <1>1, <1>2, TypeInvariant, PTL DEF Spec

-----------------------------------------------------------------------------
(* Handles and callbacks.                                                   *)

\* RouteInv speaks of handlers, handles and threads only.
LEMMA RoutesStable ==
    ASSUME RouteInv, UNCHANGED <<handlers, subs, pc, cur>>
    PROVE  RouteInv'
BY DEF RouteInv, IssuedInOrder, RoutedByType, ErasedIsOff, LiveHandleRouted, CancelledStaysOff,
       Issued, TypesOf, subs

\* What a thread that is not erasing does next keeps RouteInv.
LEMMA RoutesKeptOutsideErase ==
    ASSUME RouteInv, TypeInv, NEW t \in Callers, pc[t] # "erase",
           UNCHANGED <<handlers, subs>>,
           NEW to \in {"idle", "enqueue", "send"}, pc' = [pc EXCEPT ![t] = to],
           \A u \in Callers \ {t} : cur'[u] = cur[u]
    PROVE  RouteInv'
<1>1. \A u \in Callers : (pc'[u] = "erase" <=> pc[u] = "erase")
                        /\ (pc[u] = "erase" => cur'[u] = cur[u])
  BY DEF TypeInv, TypeOK
<1>2. Issued' = Issued /\ (\A id : TypesOf(id)' = TypesOf(id))
  BY DEF Issued, TypesOf, subs
<1>3. ErasedIsOff'
  BY <1>1, <1>2 DEF RouteInv, ErasedIsOff, subs
<1>4. CancelledStaysOff'
  BY <1>1, <1>2 DEF RouteInv, CancelledStaysOff, subs
<1>5. IssuedInOrder' /\ RoutedByType' /\ LiveHandleRouted'
  BY <1>2 DEF RouteInv, IssuedInOrder, RoutedByType, LiveHandleRouted, subs
<1> QED
  BY <1>3, <1>4, <1>5 DEF RouteInv

\* A new subscription keeps RouteInv: it is the latest, and so what it replaces
\* was replaced by a later one.
LEMMA SubscribeKeepsRoutes ==
    ASSUME TypeInv, RouteInv, NEW t \in Callers, NEW c \in Channels, Subscribe(t, c)
    PROVE  RouteInv'
<1>1. PICK new \in Ids \ Issued :
          /\ \A other \in Ids \ Issued : new <= other
          /\ handlers' = [m \in Types |-> IF m \in MessageTypes[c] THEN new ELSE handlers[m]]
          /\ channel' = [channel EXCEPT ![new] = c]
          /\ active' = [active EXCEPT ![new] = TRUE]
          /\ cur' = [cur EXCEPT ![t] = new]
          /\ pc' = [pc EXCEPT ![t] = "enqueue"]
  BY DEF Subscribe
<1>2. c # NoChannel /\ Issued' = Issued \cup {new}
  <2>1. c # NoChannel
    BY ChannelsAssumption DEF MessageTypes, NoChannel
  <2> QED
    BY <1>1, <2>1 DEF Issued, TypeInv, TypeOK
<1>3. TypesOf(new)' = MessageTypes[c] /\ (\A id \in Issued : TypesOf(id)' = TypesOf(id))
  BY <1>1 DEF TypesOf, TypeInv, TypeOK, Issued
<1>4. active'[new] /\ (\A id \in Issued : active'[id] = active[id])
  BY <1>1 DEF TypeInv, TypeOK, Issued
<1>5. \A id \in Issued : id < new
  BY <1>1 DEF RouteInv, IssuedInOrder
<1>6. IssuedInOrder'
  <2>1. ASSUME NEW id \in Issued', NEW other \in Ids \ Issued' PROVE id < other
    <3>1. id \in Ids /\ new \in Ids /\ other \in Ids \ Issued /\ new <= other /\ new # other
      BY <1>1, <1>2 DEF Issued
    <3>2. CASE id = new
      BY <3>1, <3>2 DEF Ids
    <3>3. CASE id \in Issued
      BY <3>1, <3>3 DEF RouteInv, IssuedInOrder
    <3> QED
      BY <1>2, <3>2, <3>3
  <2> QED
    BY <2>1 DEF IssuedInOrder
<1>7. RoutedByType'
  BY <1>1, <1>2, <1>3 DEF RouteInv, RoutedByType
<1>8. ErasedIsOff'
  <2>1. \A u \in Callers : pc'[u] = "erase" => pc[u] = "erase" /\ cur'[u] = cur[u]
    BY <1>1 DEF TypeInv, TypeOK
  <2> QED
    BY <2>1, <1>2, <1>4 DEF RouteInv, ErasedIsOff
<1>9. LiveHandleRouted'
  <2>1. ASSUME NEW id \in Issued', active'[id], NEW m \in TypesOf(id)'
        PROVE  \/ handlers'[m] = id
               \/ \E other \in Issued' : m \in TypesOf(other)' /\ (other > id \/ ~active'[other])
    <3>1. CASE id = new
      <4>1. m \in Types
        BY <1>3, <2>1, <3>1 DEF Types
      <4> QED
        BY <1>1, <1>3, <3>1, <4>1
    <3>2. CASE id \in Issued /\ m \in MessageTypes[c]
      <4>1. id \in Ids /\ new \in Ids /\ new > id
        BY <1>5, <3>2 DEF Issued, Ids
      <4> QED
        BY <1>2, <1>3, <3>2, <4>1
    <3>3. CASE id \in Issued /\ m \notin MessageTypes[c]
      <4>1. m \in TypesOf(id) /\ active[id]
        BY <1>3, <1>4, <2>1, <3>3
      <4>2. m \in Types
        BY <3>3, <4>1 DEF TypesOf, Types, Issued, TypeInv, TypeOK
      <4>3. handlers'[m] = handlers[m]
        BY <1>1, <3>3, <4>2
      <4> QED
        BY <1>2, <1>3, <1>4, <3>3, <4>1, <4>3 DEF RouteInv, LiveHandleRouted
    <3> QED
      BY <1>2, <3>1, <3>2, <3>3
  <2> QED
    BY <2>1 DEF LiveHandleRouted
<1>10. CancelledStaysOff'
  <2>1. ASSUME NEW id \in Issued', ~active'[id],
               \A u \in Callers : ~(pc'[u] = "erase" /\ cur'[u] = id),
               NEW m \in Types
        PROVE  handlers'[m] # id
    <3>1. id \in Issued /\ ~active[id] /\ id # new
      BY <1>1, <1>2, <1>4, <2>1
    <3>2. \A u \in Callers : ~(pc[u] = "erase" /\ cur[u] = id)
      <4>1. pc[t] = "idle"
        BY DEF Subscribe
      <4> QED
        BY <1>1, <2>1, <4>1 DEF TypeInv, TypeOK
    <3>3. handlers[m] # id
      BY <2>1, <3>1, <3>2 DEF RouteInv, CancelledStaysOff
    <3> QED
      BY <1>1, <3>1, <3>3
  <2> QED
    BY <2>1 DEF CancelledStaysOff
<1> QED
  BY <1>6, <1>7, <1>8, <1>9, <1>10 DEF RouteInv

\* The first half of a cancel keeps RouteInv: the handle is off, and its
\* thread about to erase.
LEMMA CancelKeepsRoutes ==
    ASSUME TypeInv, RouteInv, NEW t \in Callers, NEW id \in Ids, CancelExchange(t, id)
    PROVE  RouteInv'
<1>1. /\ id \in Issued /\ pc[t] = "idle"
      /\ UNCHANGED <<handlers, channel>>
      /\ active' = [active EXCEPT ![id] = FALSE]
      /\ cur' = [cur EXCEPT ![t] = id]
      /\ pc' = [pc EXCEPT ![t] = "erase"]
  BY DEF CancelExchange, Held
<1>2. Issued' = Issued /\ (\A i : TypesOf(i)' = TypesOf(i))
  BY <1>1 DEF Issued, TypesOf
<1>3. ~active'[id] /\ (\A i \in Ids : active'[i] => active[i])
      /\ (\A i \in Ids \ {id} : active'[i] = active[i])
  BY <1>1 DEF TypeInv, TypeOK
<1>4. pc'[t] = "erase" /\ cur'[t] = id
      /\ (\A u \in Callers \ {t} : pc'[u] = pc[u] /\ cur'[u] = cur[u])
  BY <1>1 DEF TypeInv, TypeOK
<1>5. Issued \subseteq Ids
  BY DEF Issued
<1>6. IssuedInOrder' /\ RoutedByType'
  BY <1>1, <1>2 DEF RouteInv, IssuedInOrder, RoutedByType
<1>7. ErasedIsOff'
  BY <1>1, <1>2, <1>3, <1>4, <1>5 DEF RouteInv, ErasedIsOff
<1>8. LiveHandleRouted'
  BY <1>1, <1>2, <1>3, <1>5 DEF RouteInv, LiveHandleRouted
<1>9. CancelledStaysOff'
  BY <1>1, <1>2, <1>3, <1>4, <1>5 DEF RouteInv, CancelledStaysOff
<1> QED
  BY <1>6, <1>7, <1>8, <1>9 DEF RouteInv

\* The second half keeps it: all the types of the handle's channel are erased.
LEMMA EraseKeepsRoutes ==
    ASSUME TypeInv, RouteInv, NEW t \in Callers, CancelErase(t)
    PROVE  RouteInv'
<1>1. /\ pc[t] = "erase" /\ UNCHANGED <<subs, cur>>
      /\ handlers' = [m \in Types |-> IF m \in TypesOf(cur[t]) THEN NoCall ELSE handlers[m]]
      /\ pc' = [pc EXCEPT ![t] = "enqueue"]
  BY DEF CancelErase, EraseAll
<1>2. Issued' = Issued /\ (\A i : TypesOf(i)' = TypesOf(i))
  BY <1>1 DEF Issued, TypesOf, subs
<1>3. cur[t] \in Issued /\ ~active[cur[t]] /\ active' = active
  BY <1>1 DEF RouteInv, ErasedIsOff, subs
<1>4. \A u \in Callers : pc'[u] = "erase" <=> pc[u] = "erase" /\ u # t
  BY <1>1 DEF TypeInv, TypeOK
<1>5. Issued \subseteq Ids /\ NoCall \notin Ids
  BY DEF Issued, Ids, NoCall
<1>6. IssuedInOrder'
  BY <1>2 DEF RouteInv, IssuedInOrder
<1>7. RoutedByType'
  BY <1>1, <1>2 DEF RouteInv, RoutedByType
<1>8. ErasedIsOff'
  BY <1>1, <1>2, <1>3, <1>4 DEF RouteInv, ErasedIsOff
<1>9. LiveHandleRouted'
  <2>1. ASSUME NEW id \in Issued, active[id], NEW m \in TypesOf(id)
        PROVE  \/ handlers'[m] = id
               \/ \E other \in Issued : m \in TypesOf(other) /\ (other > id \/ ~active[other])
    <3>1. m \in Types
      BY <2>1 DEF TypesOf, Types, Issued, TypeInv, TypeOK
    <3>2. CASE m \in TypesOf(cur[t])
      BY <1>3, <3>2
    <3>3. CASE m \notin TypesOf(cur[t])
      <4>1. handlers'[m] = handlers[m]
        BY <1>1, <3>1, <3>3
      <4> QED
        BY <2>1, <4>1 DEF RouteInv, LiveHandleRouted
    <3> QED
      BY <3>2, <3>3
  <2> QED
    BY <1>2, <1>3, <2>1 DEF LiveHandleRouted
<1>10. CancelledStaysOff'
  <2>1. ASSUME NEW id \in Issued, ~active[id],
               \A u \in Callers : ~(pc'[u] = "erase" /\ cur[u] = id),
               NEW m \in Types
        PROVE  handlers'[m] # id
    <3>1. CASE id = cur[t]
      BY <1>1, <1>5, <2>1, <3>1 DEF RouteInv, RoutedByType
    <3>2. CASE id # cur[t]
      <4>1. handlers[m] # id
        BY <1>4, <2>1, <3>2 DEF RouteInv, CancelledStaysOff
      <4> QED
        BY <1>1, <1>5, <2>1, <4>1
    <3> QED
      BY <3>1, <3>2
  <2>2. cur' = cur
    BY <1>1
  <2> QED
    BY <1>2, <1>3, <2>1, <2>2 DEF CancelledStaysOff
<1> QED
  BY <1>6, <1>7, <1>8, <1>9, <1>10 DEF RouteInv

\* RouteInv is an invariant: only subscriptions and cancels touch what it is about.
THEOREM RouteInvariant == Spec => []RouteInv
<1>1. Init => RouteInv
  BY DEF Init, RouteInv, IssuedInOrder, RoutedByType, ErasedIsOff, LiveHandleRouted,
         CancelledStaysOff, Issued, Ids, NoCall
<1>2. TypeInv /\ RouteInv /\ [Next]_vars => RouteInv'
  <2> SUFFICES ASSUME TypeInv, RouteInv, [Next]_vars PROVE RouteInv'
    OBVIOUS
  <2>1. ASSUME NEW t \in Callers, NEW c \in Channels, Subscribe(t, c) PROVE RouteInv'
    BY <2>1, SubscribeKeepsRoutes
  <2>2. ASSUME NEW t \in Callers, NEW id \in Ids, CancelExchange(t, id) PROVE RouteInv'
    BY <2>2, CancelKeepsRoutes
  <2>3. ASSUME NEW t \in Callers, CancelErase(t) PROVE RouteInv'
    BY <2>3, EraseKeepsRoutes
  <2>4. ASSUME NEW t \in Callers, Enqueue(t) \/ Send(t) PROVE RouteInv'
    <3>1. PICK to \in {"idle", "send"} : Leaves(t, to)
      BY <2>4 DEF Enqueue, Send, AfterQueued
    <3>2. pc[t] # "erase" /\ UNCHANGED <<handlers, subs>>
      BY <2>4 DEF Enqueue, Send
    <3>3. pc' = [pc EXCEPT ![t] = to] /\ (\A u \in Callers \ {t} : cur'[u] = cur[u])
      BY <3>1 DEF Leaves, TypeInv, TypeOK
    <3> QED
      BY <3>2, <3>3, RoutesKeptOutsideErase
  <2>5. ASSUME NEW t \in Callers, NEW kind, SetObserver(t, kind) PROVE RouteInv'
    BY <2>5, RoutesStable DEF SetObserver, threads
  <2>6. CASE IoStep
    BY <2>6, RoutesStable DEF IoStep, IoDiscard, IoOpen, IoFlush, IoFlushed, IoClose,
       CloseKeepsHandlers, IoNoise, IoObserve, IoPush, IoCallbackReturns, Dispatches, threads
  <2>7. CASE Attach \/ Escapes \/ Environment \/ UNCHANGED vars
    BY <2>7, RoutesStable DEF Attach, Escapes, Dispatches, Environment, ConnOpen, ConnDrop,
       PushOn, Receives, vars, threads
  <2> QED
    BY <2>1, <2>2, <2>3, <2>4, <2>5, <2>6, <2>7 DEF Next, Caller
<1> QED
  BY <1>1, <1>2, TypeInvariant, PTL DEF Spec

\* LiveHandleRouted for all instances: a live handle's callbacks stay installed but
\* for later subscriptions, and cancelled ones, of a common message type.
THEOREM LiveHandlesRouted == Spec => []LiveHandleRouted
BY RouteInvariant, PTL DEF RouteInv

\* CancelledStaysOff for all instances: nothing brings the callbacks of a cancelled
\* handle back.
THEOREM CancelledHandlesStayOff == Spec => []CancelledStaysOff
BY RouteInvariant, PTL DEF RouteInv

-----------------------------------------------------------------------------
(* Where each frame is.                                                     *)

LEMMA EmptyHolds == Distinct(<<>>) /\ \A f : ~Holds(<<>>, f)
BY DEF Distinct, Holds

\* Append adds one frame.
LEMMA AppendHolds ==
    ASSUME NEW s \in Seq(Frames), NEW e \in Frames
    PROVE  /\ \A f : Holds(Append(s, e), f) <=> Holds(s, f) \/ f = e
           /\ Distinct(s) /\ ~Holds(s, e) => Distinct(Append(s, e))
<1>1. /\ Len(s) \in Nat /\ DOMAIN s = 1..Len(s) /\ DOMAIN Append(s, e) = 1..(Len(s) + 1)
      /\ \A i \in 1..Len(s) : Append(s, e)[i] = s[i]
      /\ Append(s, e)[Len(s) + 1] = e
  BY AppendProperties, LenProperties
<1>2. \A i \in 1..(Len(s) + 1) : i \in 1..Len(s) \/ i = Len(s) + 1
  BY <1>1
<1>3. \A i \in 1..Len(s) : i \in 1..(Len(s) + 1)
  BY <1>1
<1>4. Len(s) + 1 \in 1..(Len(s) + 1)
  BY <1>1
<1>5. ASSUME NEW f PROVE Holds(Append(s, e), f) <=> Holds(s, f) \/ f = e
  BY <1>1, <1>2, <1>3, <1>4 DEF Holds
<1>6. ASSUME Distinct(s), ~Holds(s, e) PROVE Distinct(Append(s, e))
  BY <1>1, <1>2, <1>6 DEF Holds, Distinct
<1> QED
  BY <1>5, <1>6

\* Head and Tail share a sequence between them.
LEMMA TailHolds ==
    ASSUME NEW s \in Seq(Frames), s # <<>>
    PROVE  /\ Head(s) \in Frames /\ Tail(s) \in Seq(Frames)
           /\ \A f : Holds(s, f) <=> f = Head(s) \/ Holds(Tail(s), f)
           /\ Distinct(s) => Distinct(Tail(s)) /\ ~Holds(Tail(s), Head(s))
<1>1. /\ Head(s) \in Frames /\ Tail(s) \in Seq(Frames) /\ Head(s) = s[1]
      /\ Len(s) \in Nat /\ Len(s) > 0 /\ DOMAIN s = 1..Len(s) /\ DOMAIN Tail(s) = 1..(Len(s) - 1)
      /\ \A i \in 1..(Len(s) - 1) : Tail(s)[i] = s[i + 1]
  BY HeadTailProperties, LenProperties, EmptySeq
<1>2. \A i \in 1..Len(s) : i = 1 \/ (i - 1 \in 1..(Len(s) - 1) /\ (i - 1) + 1 = i)
  BY <1>1
<1>3. \A i \in 1..(Len(s) - 1) : i + 1 \in 1..Len(s) /\ i + 1 # 1
  BY <1>1
<1>4. 1 \in 1..Len(s)
  BY <1>1
<1>5. ASSUME NEW f PROVE Holds(s, f) <=> f = Head(s) \/ Holds(Tail(s), f)
  <2>1. ASSUME Holds(s, f), f # Head(s) PROVE Holds(Tail(s), f)
    <3>1. PICK i \in 1..Len(s) : s[i] = f
      BY <1>1, <2>1 DEF Holds
    <3>2. i - 1 \in 1..(Len(s) - 1) /\ Tail(s)[i - 1] = f
      BY <1>1, <1>2, <2>1, <3>1
    <3> QED
      BY <1>1, <3>2 DEF Holds
  <2> QED
    BY <1>1, <1>3, <1>4, <2>1 DEF Holds
<1>6. ASSUME Distinct(s) PROVE Distinct(Tail(s)) /\ ~Holds(Tail(s), Head(s))
  <2>1. ASSUME NEW i \in 1..(Len(s) - 1), NEW j \in 1..(Len(s) - 1), Tail(s)[i] = Tail(s)[j]
        PROVE  i = j
    <3>1. i + 1 = j + 1
      BY <1>1, <1>3, <1>6, <2>1 DEF Distinct
    <3> QED
      BY <3>1
  <2>2. \A i \in 1..(Len(s) - 1) : Tail(s)[i] # Head(s)
    BY <1>1, <1>3, <1>4, <1>6 DEF Distinct
  <2> QED
    BY <1>1, <2>1, <2>2 DEF Distinct, Holds
<1> QED
  BY <1>1, <1>5, <1>6

\* A busy thread prepares one frame, an idle one none.
LEMMA CarriedFrames ==
    ASSUME TypeInv
    PROVE  \A t \in Callers : pc[t] # "idle" => NewFrame(t) \in Frames
BY DEF TypeInv, TypeOK, CallersBusy, NewFrame, Frames

\* CopiesInv and PresentInv when no frame moves and none becomes due.
LEMMA NothingMoves ==
    ASSUME FramesInv, QuietInv',
           UNCHANGED <<send_queue, queued, subs, msg, cur>>,
           wire' = wire \/ (wire' = <<>> /\ (Unbroken' => wire = <<>>)),
           \A t \in Callers : pc'[t] = "idle" <=> pc[t] = "idle",
           Unbroken' => Unbroken
    PROVE  FramesInv'
<1>1. /\ \A f : \A t \in Callers : Carries(t, f)' <=> Carries(t, f)
      /\ \A f : Due(f)' <=> Due(f)
  BY DEF Carries, NewFrame, Due, Issued, subs
<1>2. Distinct(wire') /\ (\A f : Holds(wire', f) => Holds(wire, f))
      /\ (Unbroken' => wire' = wire)
  BY EmptyHolds DEF FramesInv, CopiesInv
<1> HIDE DEF Carries, Due, Holds, Distinct
<1>3. CopiesInv'
  BY <1>1, <1>2 DEF FramesInv, CopiesInv, OnItsWay
<1>4. PresentInv'
  BY <1>1, <1>2 DEF FramesInv, PresentInv, OnItsWay
<1> QED
  BY <1>3, <1>4 DEF FramesInv

\* A thread begins with a frame that was not due so far.
LEMMA FrameBegins ==
    ASSUME TypeInv, FramesInv, QuietInv', NEW t \in Callers, NEW new \in Frames,
           pc[t] = "idle", pc'[t] # "idle", NewFrame(t)' = new,
           ~Due(new), \A f \in Frames : Due(f)' <=> Due(f) \/ f = new,
           \A u \in Callers \ {t} : pc'[u] = pc[u] /\ cur'[u] = cur[u] /\ msg'[u] = msg[u],
           UNCHANGED <<send_queue, queued, wire, opens, conn_up>>
    PROVE  FramesInv'
<1>1. /\ \A f : \A u \in Callers \ {t} : Carries(u, f)' <=> Carries(u, f)
      /\ \A f : ~Carries(t, f) /\ (Carries(t, f)' <=> f = new)
      /\ Unbroken' <=> Unbroken
      /\ \A u \in Callers : pc'[u] = "idle" => u # t /\ pc[u] = "idle" /\ msg'[u] = msg[u]
  BY DEF Carries, NewFrame, Unbroken
<1>2. ~OnItsWay(new)
  BY DEF FramesInv, CopiesInv
<1> HIDE DEF Carries, Due, Holds, Distinct, NewFrame
<1>3. CopiesInv'
  BY <1>1, <1>2 DEF FramesInv, CopiesInv, OnItsWay
<1>4. PresentInv'
  BY <1>1 DEF FramesInv, PresentInv, OnItsWay
<1> QED
  BY <1>3, <1>4 DEF FramesInv

\* A thread ends: its frame is appended to the queue or the wire, or it is lost
\* on a connection that is lost.
LEMMA FrameLeaves ==
    ASSUME TypeInv, FramesInv, QuietInv', NEW t \in Callers, pc[t] # "idle", pc'[t] = "idle",
           msg'[t] = "subscribe",
           \/ send_queue' = Append(send_queue, NewFrame(t)) /\ wire' = wire
           \/ wire' = Append(wire, NewFrame(t)) /\ send_queue' = send_queue
           \/ UNCHANGED <<wire, send_queue>> /\ ~Unbroken,
           \A u \in Callers \ {t} : pc'[u] = pc[u] /\ cur'[u] = cur[u] /\ msg'[u] = msg[u],
           UNCHANGED <<queued, subs, opens, conn_up>>
    PROVE  FramesInv'
<1> DEFINE e == NewFrame(t)
<1>1. /\ \A f : \A u \in Callers \ {t} : Carries(u, f)' <=> Carries(u, f)
      /\ \A f : ~Carries(t, f)' /\ (Carries(t, f) <=> f = e)
      /\ Unbroken' <=> Unbroken
      /\ \A f : Due(f)' <=> Due(f)
  BY DEF Carries, NewFrame, Unbroken, Due, Issued, subs
<1>2. e \in Frames
  BY CarriedFrames
<1>3. send_queue \in Seq(Frames) /\ wire \in Seq(Frames)
  BY DEF TypeInv, TypeOK
<1> HIDE DEF Carries, Due, Holds, Distinct, e
<1>4. ~Holds(send_queue, e) /\ ~Holds(queued, e) /\ ~Holds(wire, e)
      /\ \A u \in Callers \ {t} : ~Carries(u, e)
  BY <1>1, <1>2 DEF FramesInv, CopiesInv
<1>5. /\ \A f : Holds(Append(wire, e), f) <=> Holds(wire, f) \/ f = e
      /\ \A f : Holds(Append(send_queue, e), f) <=> Holds(send_queue, f) \/ f = e
      /\ Distinct(Append(wire, e)) /\ Distinct(Append(send_queue, e))
  BY <1>2, <1>3, <1>4, AppendHolds DEF FramesInv, CopiesInv
<1>6. CASE send_queue' = Append(send_queue, e) /\ wire' = wire
  <2>1. CopiesInv'
    BY <1>1, <1>4, <1>5, <1>6 DEF FramesInv, CopiesInv, OnItsWay
  <2>2. PresentInv'
    BY <1>1, <1>5, <1>6 DEF FramesInv, PresentInv, OnItsWay
  <2> QED
    BY <2>1, <2>2 DEF FramesInv
<1>7. CASE wire' = Append(wire, e) /\ send_queue' = send_queue
  <2>1. CopiesInv'
    BY <1>1, <1>4, <1>5, <1>7 DEF FramesInv, CopiesInv, OnItsWay
  <2>2. PresentInv'
    BY <1>1, <1>5, <1>7 DEF FramesInv, PresentInv, OnItsWay
  <2> QED
    BY <2>1, <2>2 DEF FramesInv
<1>8. CASE UNCHANGED <<wire, send_queue>> /\ ~Unbroken
  <2>1. CopiesInv'
    BY <1>1, <1>8 DEF FramesInv, CopiesInv, OnItsWay
  <2> QED
    BY <1>1, <1>8, <2>1 DEF FramesInv, PresentInv
<1> QED
  BY <1>6, <1>7, <1>8 DEF e

\* The open handler sends the first frame of its copy, or loses it.
LEMMA FlushMoves ==
    ASSUME TypeInv, FramesInv, QuietInv', IoFlush
    PROVE  FramesInv'
<1> DEFINE e == Head(queued)  rest == Tail(queued)
<1>1. /\ queued \in Seq(Frames) /\ queued # <<>> /\ wire \in Seq(Frames)
      /\ UNCHANGED <<send_queue, subs, threads, opens, conn_up>> /\ queued' = rest
      /\ io_pc = "flush" /\ opens # 0
      /\ wire' = IF conn_up THEN Append(wire, e) ELSE wire
  BY DEF IoFlush, FlushMore, OnWire, transport, TypeInv, TypeOK, FramesInv, QuietInv
<1>2. /\ \A f : \A u \in Callers : Carries(u, f)' <=> Carries(u, f)
      /\ Unbroken' <=> Unbroken
      /\ \A f : Due(f)' <=> Due(f)
      /\ UNCHANGED <<pc, msg>>
  BY <1>1 DEF Carries, NewFrame, Unbroken, Due, Issued, subs, threads
<1>3. /\ e \in Frames
      /\ \A f : Holds(queued, f) <=> f = e \/ Holds(rest, f)
      /\ Distinct(rest) /\ ~Holds(rest, e)
  BY <1>1, TailHolds DEF FramesInv, CopiesInv
<1> HIDE DEF Carries, Due, Holds, Distinct, e, rest
<1>4. ~Holds(wire, e)
  BY <1>3 DEF FramesInv, CopiesInv
<1>5. /\ \A f : Holds(Append(wire, e), f) <=> Holds(wire, f) \/ f = e
      /\ Distinct(Append(wire, e))
  BY <1>1, <1>3, <1>4, AppendHolds DEF FramesInv, CopiesInv
<1>6. CASE conn_up
  <2>1. wire' = Append(wire, e)
    BY <1>1, <1>6
  <2>2. CopiesInv'
    BY <1>1, <1>2, <1>3, <1>4, <1>5, <2>1 DEF FramesInv, CopiesInv, OnItsWay
  <2>3. PresentInv'
    BY <1>1, <1>2, <1>3, <1>5, <2>1 DEF FramesInv, PresentInv, OnItsWay
  <2> QED
    BY <2>2, <2>3 DEF FramesInv
<1>7. CASE ~conn_up
  <2>1. wire' = wire /\ ~Unbroken
    BY <1>1, <1>7 DEF Unbroken
  <2>2. CopiesInv'
    BY <1>1, <1>2, <1>3, <2>1 DEF FramesInv, CopiesInv, OnItsWay
  <2> QED
    BY <1>2, <2>1, <2>2 DEF FramesInv, PresentInv
<1> QED
  BY <1>6, <1>7

\* The open handler takes the whole queue, and its last copy is all sent.
LEMMA OpenMoves ==
    ASSUME TypeInv, FramesInv, QuietInv', IoOpen
    PROVE  FramesInv'
<1>1. /\ queued' = send_queue /\ send_queue' = <<>> /\ queued = <<>>
      /\ UNCHANGED <<wire, subs, threads, opens, conn_up>>
  BY DEF IoOpen, SwapBacklog, Dispatches, FramesInv, QuietInv
<1>2. /\ \A f : \A u \in Callers : Carries(u, f)' <=> Carries(u, f)
      /\ Unbroken' <=> Unbroken
      /\ \A f : Due(f)' <=> Due(f)
      /\ UNCHANGED <<pc, msg>>
  BY <1>1 DEF Carries, NewFrame, Unbroken, Due, Issued, subs, threads
<1>3. /\ \A f : ~Holds(queued, f) /\ ~Holds(send_queue', f)
      /\ Distinct(send_queue')
  BY <1>1, EmptyHolds
<1> HIDE DEF Carries, Due, Holds, Distinct
<1>4. CopiesInv'
  BY <1>1, <1>2, <1>3 DEF FramesInv, CopiesInv, OnItsWay
<1>5. PresentInv'
  BY <1>1, <1>2, <1>3 DEF FramesInv, PresentInv, OnItsWay
<1> QED
  BY <1>4, <1>5 DEF FramesInv

\* Nothing reaches the client before the first open, and the open handler leaves
\* when it has sent everything.
LEMMA QuietStep ==
    ASSUME TypeInv, QuietInv, [Next]_vars PROVE QuietInv'
<1> USE DEF QuietInv, TypeInv, TypeOK
<1>1. ASSUME NEW t \in Callers, Enqueue(t) PROVE QuietInv'
  BY <1>1 DEF Enqueue, Leaves, AfterQueued, transport, io
<1>2. ASSUME NEW t \in Callers, Send(t) PROVE QuietInv'
  BY <1>2 DEF Send, Leaves, transport, io
<1>3. ASSUME NEW t \in Callers, NEW kind, SetObserver(t, kind) PROVE QuietInv'
  BY <1>3 DEF SetObserver, transport, io, threads
<1>4. ASSUME NEW t \in Callers, NEW c \in Channels, Subscribe(t, c) PROVE QuietInv'
  BY <1>4 DEF Subscribe, transport, io
<1>5. ASSUME NEW t \in Callers, NEW id \in Ids, CancelExchange(t, id) PROVE QuietInv'
  BY <1>5 DEF CancelExchange, transport, io
<1>6. ASSUME NEW t \in Callers, CancelErase(t) PROVE QuietInv'
  BY <1>6 DEF CancelErase, transport, io
<1>7. CASE IoDiscard \/ IoFlush \/ IoFlushed
  BY <1>7 DEF IoDiscard, IoFlush, FlushMore, IoFlushed, transport, io, threads
<1>8. CASE IoOpen \/ IoClose \/ IoNoise \/ IoPush \/ \E kind : IoObserve(kind)
  BY <1>8 DEF IoOpen, IoClose, IoNoise, IoPush, IoObserve, Dispatches, io, threads
<1>9. CASE IoCallbackReturns \/ Escapes
  BY <1>9 DEF IoCallbackReturns, Escapes, InCallback, Dispatches, transport, threads
<1>10. CASE ConnOpen
  BY <1>10, LimitsAssumption DEF ConnOpen, threads, io
<1>11. CASE ConnDrop \/ Attach \/ UNCHANGED vars
  BY <1>11 DEF ConnDrop, Attach, vars, transport, threads, io
<1>12. ASSUME NEW event, Receives(event) PROVE QuietInv'
  BY <1>12 DEF Receives, threads, io
<1> QED
  BY <1>1, <1>2, <1>3, <1>4, <1>5, <1>6, <1>7, <1>8, <1>9, <1>10, <1>11, <1>12
  DEF Next, Caller, IoStep, Environment, PushOn

\* FramesInv is kept: a frame moves on from its thread to the queue or the wire,
\* with the queue to the open handler, and from there to the wire.
LEMMA FramesStep ==
    ASSUME TypeInv, FramesInv, [Next]_vars PROVE FramesInv'
<1> USE DEF TypeInv, TypeOK
<1>0. QuietInv'
  BY QuietStep DEF FramesInv
<1>1. CASE UNCHANGED <<send_queue, queued, wire, subs, threads, opens, conn_up>>
  BY <1>0, <1>1, NothingMoves DEF threads, Unbroken
<1>2. ASSUME NEW t \in Callers, NEW c \in Channels, Subscribe(t, c) PROVE FramesInv'
  <2>1. PICK id \in Ids \ Issued :
            /\ channel' = [channel EXCEPT ![id] = c] /\ active' = [active EXCEPT ![id] = TRUE]
            /\ cur' = [cur EXCEPT ![t] = id] /\ pc' = [pc EXCEPT ![t] = "enqueue"]
            /\ pc[t] = "idle" /\ msg' = msg /\ UNCHANGED <<send_queue, queued, wire, opens, conn_up>>
    BY <1>2 DEF Subscribe, transport, io
  <2> DEFINE new == [kind |-> "subscribe", id |-> id]
  <2>2. new \in Frames /\ new.id = id /\ new.kind = "subscribe"
    BY DEF Frames
  <2>3. pc'[t] # "idle" /\ NewFrame(t)' = new
    BY <2>1 DEF NewFrame, FramesInv, CopiesInv
  <2>4. c # NoChannel /\ Issued' = Issued \cup {id} /\ active'[id]
    <3>1. c # NoChannel
      BY ChannelsAssumption DEF MessageTypes, NoChannel
    <3>2. active'[id] /\ \A n \in Ids : channel'[n] = IF n = id THEN c ELSE channel[n]
      BY <2>1
    <3> QED
      BY <3>1, <3>2 DEF Issued
  <2>5. ~Due(new)
    BY <2>2 DEF Due
  <2>6. ASSUME NEW f \in Frames PROVE Due(f)' <=> Due(f) \/ f = new
    <3>1. /\ f.id \in Ids /\ f.kind \in {"subscribe", "unsubscribe"}
          /\ (f.id = id /\ f.kind = "subscribe" => f = new)
      BY DEF Frames
    <3>2. CASE f.id = id
      BY <2>1, <2>2, <2>4, <3>1, <3>2 DEF Due
    <3>3. CASE f.id # id
      BY <2>1, <2>2, <2>4, <3>1, <3>3 DEF Due
    <3> QED
      BY <3>2, <3>3
  <2> HIDE DEF new
  <2>7. \A u \in Callers \ {t} : pc'[u] = pc[u] /\ cur'[u] = cur[u] /\ msg'[u] = msg[u]
    BY <2>1
  <2> QED
    BY <1>0, <2>1, <2>2, <2>3, <2>5, <2>6, <2>7, FrameBegins
<1>3. ASSUME NEW t \in Callers, NEW id \in Ids, CancelExchange(t, id) PROVE FramesInv'
  <2>1. /\ channel' = channel /\ active' = [active EXCEPT ![id] = FALSE]
        /\ cur' = [cur EXCEPT ![t] = id] /\ pc' = [pc EXCEPT ![t] = "erase"]
        /\ msg' = [msg EXCEPT ![t] = "unsubscribe"] /\ id \in Issued /\ active[id]
        /\ pc[t] = "idle" /\ UNCHANGED <<send_queue, queued, wire, opens, conn_up>>
    BY <1>3 DEF CancelExchange, Held, transport, io
  <2> DEFINE new == [kind |-> "unsubscribe", id |-> id]
  <2>2. new \in Frames /\ new.id = id /\ new.kind = "unsubscribe"
    BY DEF Frames
  <2>3. pc'[t] # "idle" /\ NewFrame(t)' = new
    BY <2>1 DEF NewFrame
  <2>4. Issued' = Issued /\ ~active'[id]
    BY <2>1 DEF Issued
  <2>5. ~Due(new)
    BY <2>1, <2>2 DEF Due
  <2>6. ASSUME NEW f \in Frames PROVE Due(f)' <=> Due(f) \/ f = new
    <3>1. /\ f.id \in Ids /\ f.kind \in {"subscribe", "unsubscribe"}
          /\ (f.id = id /\ f.kind = "unsubscribe" => f = new)
      BY DEF Frames
    <3>2. CASE f.id = id
      BY <2>1, <2>2, <2>4, <3>1, <3>2 DEF Due
    <3>3. CASE f.id # id
      BY <2>1, <2>2, <2>4, <3>1, <3>3 DEF Due
    <3> QED
      BY <3>2, <3>3
  <2> HIDE DEF new
  <2>7. \A u \in Callers \ {t} : pc'[u] = pc[u] /\ cur'[u] = cur[u] /\ msg'[u] = msg[u]
    BY <2>1
  <2> QED
    BY <1>0, <2>1, <2>2, <2>3, <2>5, <2>6, <2>7, FrameBegins
<1>4. ASSUME NEW t \in Callers, Enqueue(t) PROVE FramesInv'
  <2>1. /\ pc[t] = "enqueue" /\ UNCHANGED <<wire, queued, subs, opens, conn_up>>
        /\ \A u \in Callers \ {t} : pc'[u] = pc[u] /\ cur'[u] = cur[u] /\ msg'[u] = msg[u]
    BY <1>4 DEF Enqueue, Leaves, transport, io
  <2>2. CASE connected
    <3>1. pc' = [pc EXCEPT ![t] = "send"] /\ cur' = cur /\ msg' = msg /\ send_queue' = send_queue
      BY <1>4, <2>2 DEF Enqueue, Leaves
    <3>2. \A u \in Callers : pc'[u] = "idle" <=> pc[u] = "idle"
      BY <2>1, <3>1
    <3> QED
      BY <1>0, <2>1, <3>1, <3>2, NothingMoves DEF Unbroken
  <2>3. CASE ~connected
    <3>1. pc'[t] = "idle" /\ msg'[t] = "subscribe" /\ send_queue' = Append(send_queue, NewFrame(t))
      BY <1>4, <2>3 DEF Enqueue, Leaves, AfterQueued
    <3> HIDE DEF NewFrame
    <3> QED
      BY <1>0, <2>1, <3>1, FrameLeaves
  <2> QED
    BY <2>2, <2>3
<1>5. ASSUME NEW t \in Callers, Send(t) PROVE FramesInv'
  <2>1. /\ pc[t] = "send" /\ UNCHANGED <<send_queue, queued, subs, opens, conn_up>>
        /\ \A u \in Callers \ {t} : pc'[u] = pc[u] /\ cur'[u] = cur[u] /\ msg'[u] = msg[u]
        /\ pc'[t] = "idle" /\ msg'[t] = "subscribe"
    BY <1>5 DEF Send, Leaves, transport, io
  <2>2. wire' = Append(wire, NewFrame(t)) \/ (wire' = wire /\ ~conn_up)
    BY <1>5 DEF Send, OnWire
  <2>3. opens # 0
    BY <2>1 DEF FramesInv, QuietInv
  <2> HIDE DEF NewFrame
  <2> QED
    BY <1>0, <2>1, <2>2, <2>3, FrameLeaves DEF Unbroken
<1>6. ASSUME NEW t \in Callers, CancelErase(t) PROVE FramesInv'
  <2>1. /\ pc' = [pc EXCEPT ![t] = "enqueue"] /\ pc[t] = "erase"
        /\ UNCHANGED <<send_queue, queued, wire, subs, cur, msg, opens, conn_up>>
    BY <1>6 DEF CancelErase, transport, io
  <2>2. \A u \in Callers : pc'[u] = "idle" <=> pc[u] = "idle"
    BY <2>1
  <2> QED
    BY <1>0, <2>1, <2>2, NothingMoves DEF Unbroken
<1>7. ASSUME NEW t \in Callers, NEW kind, SetObserver(t, kind) PROVE FramesInv'
  BY <1>1, <1>7 DEF SetObserver, transport, io
<1>8. CASE ConnOpen \/ ConnDrop
  <2>1. /\ UNCHANGED <<send_queue, queued, subs, threads>> /\ wire' = <<>>
        /\ (Unbroken' => wire = <<>> /\ Unbroken)
    BY <1>8 DEF ConnOpen, ConnDrop, io, FramesInv, QuietInv, Unbroken
  <2> QED
    BY <1>0, <2>1, NothingMoves DEF threads
<1>9. CASE IoOpen
  BY <1>0, <1>9, OpenMoves
<1>10. CASE IoFlush
  BY <1>0, <1>10, FlushMoves
<1>11. CASE IoDiscard \/ IoFlushed \/ IoClose \/ IoNoise \/ IoPush \/ IoCallbackReturns
            \/ \E kind : IoObserve(kind)
  BY <1>1, <1>11 DEF IoDiscard, IoFlushed, IoClose, IoNoise, IoPush, IoCallbackReturns, IoObserve,
                     Dispatches, transport, io
<1>12. CASE Attach \/ Escapes \/ UNCHANGED vars
  BY <1>1, <1>12 DEF Attach, Escapes, Dispatches, vars, transport, io
<1>13. ASSUME NEW event, Receives(event) PROVE FramesInv'
  BY <1>1, <1>13 DEF Receives, io
<1> QED
  BY <1>2, <1>3, <1>4, <1>5, <1>6, <1>7, <1>8, <1>9, <1>10, <1>11, <1>12, <1>13
  DEF Next, Caller, IoStep, Environment, PushOn

\* A set without two different elements is empty or has one.
LEMMA AtMostOne ==
    ASSUME NEW S, \A x, y \in S : x = y
    PROVE  Cardinality(S) = IF S = {} THEN 0 ELSE 1
<1>1. CASE S = {}
  BY <1>1, FS_EmptySet
<1>2. CASE S # {}
  <2>1. PICK x \in S : S = {x}
    BY <1>2
  <2> QED
    BY <1>2, <2>1, FS_Singleton
<1> QED
  BY <1>1, <1>2

\* Concatenation puts the frames of two sequences together.
LEMMA ConcatHolds ==
    ASSUME NEW s1 \in Seq(Frames), NEW s2 \in Seq(Frames)
    PROVE  /\ s1 \o s2 \in Seq(Frames)
           /\ \A f : Holds(s1 \o s2, f) <=> Holds(s1, f) \/ Holds(s2, f)
           /\ Distinct(s1) /\ Distinct(s2) /\ (\A f \in Frames : ~(Holds(s1, f) /\ Holds(s2, f)))
                => Distinct(s1 \o s2)
<1> DEFINE s == s1 \o s2  n1 == Len(s1)  n2 == Len(s2)
<1>1. /\ s \in Seq(Frames) /\ n1 \in Nat /\ n2 \in Nat
      /\ DOMAIN s = 1..(n1 + n2) /\ DOMAIN s1 = 1..n1 /\ DOMAIN s2 = 1..n2
      /\ \A i \in 1..(n1 + n2) : s[i] = IF i <= n1 THEN s1[i] ELSE s2[i - n1]
  BY ConcatProperties, LenProperties
<1> HIDE DEF s, n1, n2
<1>2. \A i \in 1..(n1 + n2) : \/ i \in 1..n1 /\ s[i] = s1[i]
                              \/ i - n1 \in 1..n2 /\ s[i] = s2[i - n1]
  <2> TAKE i \in 1..(n1 + n2)
  <2>1. CASE i <= n1
    <3>1. i \in 1..n1
      BY <1>1, <2>1
    <3>2. s[i] = s1[i]
      BY <1>1, <2>1
    <3> QED
      BY <3>1, <3>2
  <2>2. CASE ~(i <= n1)
    <3>1. i - n1 \in 1..n2
      BY <1>1, <2>2
    <3> QED
      BY <1>1, <2>2, <3>1
  <2> QED
    BY <2>1, <2>2
<1>3. \A i \in 1..n1 : i \in 1..(n1 + n2) /\ s[i] = s1[i]
  BY <1>1
<1>4. \A i \in 1..n2 : i + n1 \in 1..(n1 + n2) /\ s[i + n1] = s2[i]
  <2> SUFFICES ASSUME NEW i \in 1..n2 PROVE i + n1 \in 1..(n1 + n2) /\ s[i + n1] = s2[i]
    OBVIOUS
  <2>1. i + n1 \in 1..(n1 + n2) /\ ~(i + n1 <= n1) /\ i + n1 - n1 = i
    BY <1>1
  <2> QED
    BY <1>1, <2>1
<1>5. \A f : Holds(s, f) <=> Holds(s1, f) \/ Holds(s2, f)
  <2> TAKE f
  <2>1. DOMAIN s = 1..(n1 + n2) /\ DOMAIN s1 = 1..n1 /\ DOMAIN s2 = 1..n2
    BY <1>1
  <2>2. ASSUME Holds(s, f) PROVE Holds(s1, f) \/ Holds(s2, f)
    BY <1>2, <2>1, <2>2 DEF Holds
  <2>3. ASSUME Holds(s1, f) PROVE Holds(s, f)
    BY <1>3, <2>1, <2>3 DEF Holds
  <2>4. ASSUME Holds(s2, f) PROVE Holds(s, f)
    BY <1>4, <2>1, <2>4 DEF Holds
  <2> QED
    BY <2>2, <2>3, <2>4
<1>6. ASSUME Distinct(s1), Distinct(s2), \A f \in Frames : ~(Holds(s1, f) /\ Holds(s2, f))
      PROVE  Distinct(s)
  <2> SUFFICES ASSUME NEW i \in 1..(n1 + n2), NEW j \in 1..(n1 + n2), s[i] = s[j]
               PROVE  i = j
    BY <1>1 DEF Distinct
  <2>1. \A a \in 1..n1, b \in 1..n2 : s1[a] # s2[b]
    <3> SUFFICES ASSUME NEW a \in 1..n1, NEW b \in 1..n2, s1[a] = s2[b] PROVE FALSE
      OBVIOUS
    <3>1. s1[a] \in Frames /\ Holds(s1, s1[a])
      BY <1>1, ElementOfSeq DEF Holds, n1
    <3>2. Holds(s2, s1[a])
      BY <1>1 DEF Holds
    <3> QED
      BY <1>6, <3>1, <3>2
  <2>2. CASE i \in 1..n1 /\ s[i] = s1[i] /\ j \in 1..n1 /\ s[j] = s1[j]
    BY <1>1, <1>6, <2>2 DEF Distinct
  <2>3. CASE i - n1 \in 1..n2 /\ s[i] = s2[i - n1] /\ j - n1 \in 1..n2 /\ s[j] = s2[j - n1]
    <3>1. i - n1 = j - n1
      BY <1>1, <1>6, <2>3 DEF Distinct
    <3> QED
      BY <1>1, <3>1
  <2> QED
    BY <1>2, <2>1, <2>2, <2>3
<1> QED
  BY <1>1, <1>5, <1>6 DEF s

\* There is one copy of a frame that is on its way, and none of another.
LEMMA CopiesCounted ==
    ASSUME TypeInv, CopiesInv, NEW kind \in {"subscribe", "unsubscribe"}, NEW id \in Ids
    PROVE  Copies(kind, id) = IF OnItsWay([kind |-> kind, id |-> id]) THEN 1 ELSE 0
<1> DEFINE f == [kind |-> kind, id |-> id]
<1>1. f \in Frames
  BY DEF Frames
<1>2. Preparing(kind, id) = {t \in Callers : Carries(t, f)}
  BY DEF Preparing, Carries, NewFrame
<1>3. Positions(kind, id) = {i \in DOMAIN InFlight : InFlight[i] = f}
  BY DEF Positions
<1> HIDE DEF f
<1>4. Cardinality(Preparing(kind, id)) = IF \E t \in Callers : Carries(t, f) THEN 1 ELSE 0
  <2>1. \A t, u \in Preparing(kind, id) : t = u
    BY <1>1, <1>2 DEF CopiesInv
  <2>2. Preparing(kind, id) = {} <=> ~\E t \in Callers : Carries(t, f)
    BY <1>2
  <2> QED
    BY <2>1, <2>2, AtMostOne
<1>5. send_queue \in Seq(Frames) /\ queued \in Seq(Frames) /\ wire \in Seq(Frames)
  BY DEF TypeInv, TypeOK
<1> HIDE DEF Holds, Distinct
<1>6. /\ send_queue \o queued \in Seq(Frames) /\ Distinct(send_queue \o queued)
      /\ \A g : Holds(send_queue \o queued, g) <=> Holds(send_queue, g) \/ Holds(queued, g)
  BY <1>5, ConcatHolds DEF CopiesInv
<1>7. /\ Distinct(InFlight)
      /\ Holds(InFlight, f) <=> Holds(send_queue, f) \/ Holds(queued, f) \/ Holds(wire, f)
  <2> DEFINE ahead == send_queue \o queued
  <2>1. \A g \in Frames : ~(Holds(ahead, g) /\ Holds(wire, g))
    BY <1>6 DEF CopiesInv
  <2>2. InFlight = ahead \o wire
    BY DEF InFlight
  <2>3. ahead \in Seq(Frames) /\ Distinct(ahead) /\ Distinct(wire)
        /\ (Holds(ahead, f) <=> Holds(send_queue, f) \/ Holds(queued, f))
    BY <1>6 DEF CopiesInv
  <2> HIDE DEF ahead
  <2> QED
    BY <1>5, <2>1, <2>2, <2>3, ConcatHolds
<1> HIDE DEF InFlight
<1>8. Cardinality(Positions(kind, id)) = IF Holds(InFlight, f) THEN 1 ELSE 0
  <2>1. \A i, j \in Positions(kind, id) : i = j
    BY <1>3, <1>7 DEF Distinct
  <2>2. Positions(kind, id) = {} <=> ~Holds(InFlight, f)
    BY <1>3 DEF Holds
  <2> QED
    BY <2>1, <2>2, AtMostOne
<1>9. ~(Holds(InFlight, f) /\ \E t \in Callers : Carries(t, f))
  BY <1>1, <1>7 DEF CopiesInv
<1>10. OnItsWay(f) <=> Holds(InFlight, f) \/ \E t \in Callers : Carries(t, f)
  BY <1>7 DEF OnItsWay
<1> QED
  BY <1>4, <1>8, <1>9, <1>10 DEF Copies, f

\* SentOnce for all instances: threads, queue, open handler and connection pass
\* each frame on without copying it, and lose none before a connection is lost.
THEOREM FramesSentOnce == Spec => []SentOnce
<1>1. Init => FramesInv
  <2> SUFFICES ASSUME Init PROVE FramesInv
    OBVIOUS
  <2>1. /\ \A f : ~OnItsWay(f)
        /\ \A f : ~Due(f)
    BY EmptyHolds DEF Init, OnItsWay, Carries, Due, Issued
  <2>2. CopiesInv
    BY <2>1, EmptyHolds DEF Init, CopiesInv, Carries
  <2>3. QuietInv
    BY DEF Init, QuietInv
  <2> QED
    BY <2>1, <2>2, <2>3 DEF FramesInv, PresentInv
<1>2. TypeInv /\ FramesInv => SentOnce
  <2> SUFFICES ASSUME TypeInv, FramesInv, NEW id \in Issued
               PROVE  /\ Copies("subscribe", id) <= 1 /\ Copies("unsubscribe", id) <= 1
                      /\ Unbroken =>
                            /\ Copies("subscribe", id) = 1
                            /\ Copies("unsubscribe", id) = IF active[id] THEN 0 ELSE 1
    BY DEF SentOnce, Unbroken
  <2> DEFINE sub == [kind |-> "subscribe", id |-> id]  unsub == [kind |-> "unsubscribe", id |-> id]
  <2>1. /\ id \in Ids /\ sub \in Frames /\ unsub \in Frames
        /\ Due(sub) /\ (Due(unsub) <=> ~active[id])
    BY DEF Issued, Frames, Due
  <2>2. /\ Copies("subscribe", id) = IF OnItsWay(sub) THEN 1 ELSE 0
        /\ Copies("unsubscribe", id) = IF OnItsWay(unsub) THEN 1 ELSE 0
    BY <2>1, CopiesCounted DEF FramesInv
  <2> HIDE DEF sub, unsub
  <2>3. /\ OnItsWay(unsub) => ~active[id]
        /\ Unbroken => OnItsWay(sub) /\ (~active[id] => OnItsWay(unsub))
    BY <2>1 DEF FramesInv, CopiesInv, PresentInv
  <2> QED
    BY <2>2, <2>3
<1> QED
  BY <1>1, <1>2, FramesStep, TypeInvariant, PTL DEF Spec
=============================================================================
