------------------------------ MODULE Teardown ------------------------------
(***************************************************************************)
(* The end of a WebSocket client and of its connection: who holds the last  *)
(* reference, on which thread things are destroyed, and what the I/O thread *)
(* of the socket is doing meanwhile.                                        *)
(*                                                                         *)
(* The owner has made a client and connected it; then it takes it down, in  *)
(* one of these ways (use):                                                 *)
(*   url               made from a URL: only the client holds the           *)
(*                     connection; the owner releases the client             *)
(*   conn              made from a connection the owner keeps: it releases   *)
(*                     the client, disconnects and drops the connection     *)
(*   cryptocom         the same, with a client of make_cryptocom_..._client, *)
(*                     which puts a HeartbeatResponder in between           *)
(*   conn_joined, cryptocom_joined   disconnecting before releasing          *)
(*                                                                         *)
(* Callbacks take the client by a weak_ptr and hold it while they run, as   *)
(* does SubscriptionHandle::cancel() on any thread; the responder's takes   *)
(* the responder by its address. What a callback does is in WsClient.       *)
(***************************************************************************)
EXTENDS Integers, Sequences

CONSTANTS
    Owner,          \* the thread that made the client
    IoThread,       \* ix::WebSocket's own thread
    Cancellers,     \* threads with a subscription handle to cancel
    Uses            \* the ways to consider

ASSUME ThreadsAssumption == Owner # IoThread /\ {Owner, IoThread} \cap Cancellers = {}
ASSUME UsesAssumption ==
    Uses \subseteq {"url", "conn", "cryptocom", "conn_joined", "cryptocom_joined"}

VARIABLES
    use,            \* how the owner made the client and takes it down
    todo,           \* what is left of that
    at,             \* where each thread is
    socket,         \* the I/O thread: "running", told to stop, last event delivered, joined
    client_refs,    \* the threads that hold the client
    conn_refs,      \* who holds the connection: the owner, the client
    alive           \* what has not been destroyed

vars == <<use, todo, at, socket, client_refs, conn_refs, alive>>

Threads == {Owner, IoThread} \cup Cancellers

-----------------------------------------------------------------------------
Steps ==
    [url |-> <<"release">>,
     conn |-> <<"release", "disconnect", "drop">>,
     cryptocom |-> <<"release", "disconnect", "drop">>,
     conn_joined |-> <<"disconnect", "release", "drop">>,
     cryptocom_joined |-> <<"disconnect", "release", "drop">>]
HasResponder(u) == u \in {"cryptocom", "cryptocom_joined"}

\* A factory that took the connection over.
ConnTakenOver(u) == {"client"}
ConnRefs(u) == IF u = "url" THEN {"client"} ELSE {"client", "owner"}

Init ==
    /\ use \in Uses
    /\ todo = Steps[use]
    /\ at = [t \in Threads |-> IF t = IoThread THEN "polling" ELSE "idle"]
    /\ socket = "running"
    /\ client_refs = {Owner}
    /\ conn_refs = ConnRefs(use)
    /\ alive = {"client", "callbacks", "socket"}
               \cup IF HasResponder(use) THEN {"responder"} ELSE {}

Goes(t, place) == at' = [at EXCEPT ![t] = place]
Rest(t) == IF t = Owner THEN "idle" ELSE IF t = IoThread THEN "polling" ELSE "done"

-----------------------------------------------------------------------------
(* References and destructors, on whatever thread they run *)

\* weak_ptr::lock(); a callback that captured this would not ask.
CapturesThis == TRUE
CanLock == client_refs # {}

Lock(t, holding, rest) ==
    /\ IF CanLock THEN client_refs' = client_refs \cup {t} /\ Goes(t, holding)
                  ELSE UNCHANGED client_refs /\ Goes(t, rest)
    /\ UNCHANGED <<use, todo, socket, conn_refs, alive>>

ReleaseClient(t) ==
    /\ client_refs' = client_refs \ {t}
    /\ Goes(t, IF client_refs' = {} THEN "client_dies" ELSE Rest(t))
    /\ UNCHANGED <<use, socket, conn_refs, alive>>

\* ~ExchangeWsClient, and the responder's that only it holds
ClientDies(t) ==
    /\ at[t] = "client_dies"
    /\ alive' = alive \ {"client", "responder"}
    /\ conn_refs' = conn_refs \ {"client"}
    /\ Goes(t, IF conn_refs' = {} THEN "conn_dies" ELSE Rest(t))
    /\ UNCHANGED <<use, todo, socket, client_refs>>

\* ~IxWsConnection: the callbacks were declared after ws_ and go before it.
ConnDies(t) ==
    /\ at[t] = "conn_dies"
    /\ alive' = alive \ {"callbacks"}
    /\ Goes(t, "stop")
    /\ UNCHANGED <<use, todo, socket, client_refs, conn_refs>>

\* ix::WebSocket::stop(), from disconnect() or its destructor: it asks the I/O
\* thread to end and joins it.
StopNotAsked == UNCHANGED socket
StopAsked == socket' = "stopping"
Stop(t) ==
    /\ at[t] = "stop" /\ socket # "joined"
    /\ StopAsked
    /\ Goes(t, "join")
    /\ UNCHANGED <<use, todo, client_refs, conn_refs, alive>>

Stopped(t) ==
    /\ \/ at[t] = "stop" /\ socket = "joined"
       \/ at[t] = "join" /\ at[IoThread] = "exited"
    /\ socket' = "joined"
    /\ alive' = IF conn_refs = {} THEN alive \ {"socket"} ELSE alive
    /\ Goes(t, Rest(t))
    /\ UNCHANGED <<use, todo, client_refs, conn_refs>>

Destroys(t) == ClientDies(t) \/ ConnDies(t) \/ Stop(t) \/ Stopped(t)

-----------------------------------------------------------------------------
(* The owner *)

Doing(step) == at[Owner] = "idle" /\ todo # <<>> /\ Head(todo) = step /\ todo' = Tail(todo)

Release == Doing("release") /\ ReleaseClient(Owner)

Disconnect ==
    /\ Doing("disconnect")
    /\ Goes(Owner, "stop")
    /\ UNCHANGED <<use, socket, client_refs, conn_refs, alive>>

Drop ==
    /\ Doing("drop")
    /\ conn_refs' = conn_refs \ {"owner"}
    /\ Goes(Owner, IF conn_refs' = {} THEN "conn_dies" ELSE Rest(Owner))
    /\ UNCHANGED <<use, socket, client_refs, alive>>

OwnerStep == Release \/ Disconnect \/ Drop \/ Destroys(Owner)

(* SubscriptionHandle::cancel() *)

Cancel(t) == at[t] = "idle" /\ Lock(t, "cancelling", "done")
CancelReturns(t) == at[t] = "cancelling" /\ ReleaseClient(t) /\ UNCHANGED todo

Canceller(t) == Cancel(t) \/ CancelReturns(t) \/ Destroys(t)

-----------------------------------------------------------------------------
(* The I/O thread *)

IoReceives ==
    /\ at[IoThread] = "polling" /\ socket = "running"
    /\ \E what \in {"message", "event"} : Goes(IoThread, what)
    /\ UNCHANGED <<use, todo, socket, client_refs, conn_refs, alive>>

\* Told to stop, it delivers a last event, the close, and ends.
IoCloses ==
    /\ at[IoThread] = "polling" /\ socket = "stopping"
    /\ socket' = "closing" /\ Goes(IoThread, "event")
    /\ UNCHANGED <<use, todo, client_refs, conn_refs, alive>>
IoExits ==
    /\ at[IoThread] = "polling" /\ socket = "closing"
    /\ Goes(IoThread, "exited")
    /\ UNCHANGED <<use, todo, socket, client_refs, conn_refs, alive>>

\* The callback of IxWsConnection::connect, in it msg_cb_ or another
IoMessage ==
    /\ at[IoThread] = "message"
    /\ Goes(IoThread, IF HasResponder(use) THEN "responder" ELSE "callback")
    /\ UNCHANGED <<use, todo, socket, client_refs, conn_refs, alive>>
IoEvent ==
    /\ at[IoThread] = "event"
    /\ Goes(IoThread, "callback")
    /\ UNCHANGED <<use, todo, socket, client_refs, conn_refs, alive>>

\* HeartbeatResponder::handle_inbound: answers, or calls forward_
IoResponder ==
    /\ at[IoThread] = "responder"
    /\ Goes(IoThread, "polling") \/ Goes(IoThread, "forward")
    /\ UNCHANGED <<use, todo, socket, client_refs, conn_refs, alive>>

\* The callbacks of ExchangeWsClient::init
IoLocks == at[IoThread] \in {"callback", "forward"} /\ Lock(IoThread, "handler", "polling")
IoReturns == at[IoThread] = "handler" /\ ReleaseClient(IoThread) /\ UNCHANGED todo

IoStep ==
    IoCloses \/ IoExits \/ IoMessage \/ IoEvent \/ IoResponder \/ IoLocks \/ IoReturns
    \/ Destroys(IoThread)

-----------------------------------------------------------------------------
Done ==
    /\ todo = <<>> /\ at[IoThread] = "exited" /\ at[Owner] = "idle"
    /\ \A t \in Cancellers : at[t] = "done"
    /\ UNCHANGED vars

Next == OwnerStep \/ IoReceives \/ IoStep \/ (\E t \in Cancellers : Canceller(t)) \/ Done

\* A thread that is inside the library goes on, and an owner that has begun its
\* teardown finishes it. Nothing need ever arrive, and no handle need be cancelled.
Fairness ==
    /\ WF_vars(OwnerStep /\ todo' # Steps[use]) /\ WF_vars(Destroys(Owner))
    /\ WF_vars(IoStep)
    /\ \A t \in Cancellers : WF_vars(CancelReturns(t) \/ Destroys(t))

Spec == Init /\ [][Next]_vars /\ Fairness

-----------------------------------------------------------------------------
(* Properties *)

Objects == {"client", "responder", "callbacks", "socket"}
InDestructors == {"client_dies", "conn_dies", "stop", "join"}
PlacesOf(t) ==
    InDestructors \cup
    IF t = Owner THEN {"idle"}
    ELSE IF t = IoThread THEN {"polling", "message", "event", "responder", "forward", "callback",
                               "handler", "exited"}
    ELSE {"idle", "cancelling", "done"}

\* The client is there as long as somebody holds it.
TypeOK ==
    /\ use \in Uses
    /\ \A t \in Threads : at[t] \in PlacesOf(t)
    /\ socket \in {"running", "stopping", "closing", "joined"}
    /\ client_refs \subseteq Threads /\ conn_refs \subseteq {"client", "owner"}
    /\ alive \subseteq Objects
    /\ client_refs # {} => "client" \in alive /\ "client" \in conn_refs
    /\ conn_refs # {} => {"callbacks", "socket"} \subseteq alive

\* Whatever the I/O thread calls into exists at that moment, and so does the client
\* for a handle that is being cancelled.
CallbackOnLiving ==
    /\ at[IoThread] \in {"message", "event", "callback"} => "callbacks" \in alive
    /\ at[IoThread] \in {"responder", "forward"} => {"callbacks", "responder"} \subseteq alive
    /\ at[IoThread] = "handler" => "client" \in alive
    /\ \A t \in Cancellers : at[t] = "cancelling" => "client" \in alive

\* The I/O thread never destroys the connection it serves, so that it never waits
\* for its own end.
NoSelfJoin == at[IoThread] \notin {"conn_dies", "stop", "join"}

\* A teardown that has begun comes to its end: the I/O thread is joined and nothing
\* is left, though a callback may have been running and a handle being cancelled.
EverythingReleased ==
    todo # Steps[use] ~> alive = {} /\ socket = "joined" /\ todo = <<>>
=============================================================================
