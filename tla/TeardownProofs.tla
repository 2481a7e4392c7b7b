--------------------------- MODULE TeardownProofs ---------------------------
(* The theorems about Teardown: for any number of threads that cancel handles. *)
EXTENDS Teardown, TLAPS

Places == InDestructors \cup
    {"idle", "cancelling", "done", "polling", "message", "event", "responder", "forward",
     "callback", "handler", "exited"}

\* References only go, and the thread that let the last one go destroys.
References ==
    /\ at \in [Threads -> Places]
    /\ TypeOK
    /\ \A t \in Threads : at[t] = "client_dies" => client_refs = {}
    /\ \A t \in Threads : at[t] = "conn_dies" => conn_refs = {}

-----------------------------------------------------------------------------
LEMMA ThreadsApart ==
    /\ Owner \in Threads /\ IoThread \in Threads /\ Cancellers \subseteq Threads
    /\ Owner # IoThread /\ Owner \notin Cancellers /\ IoThread \notin Cancellers
BY ThreadsAssumption DEF Threads

LEMMA ReferencesInit == Init => References
<1> SUFFICES ASSUME Init PROVE References OBVIOUS
<1> USE ThreadsApart DEF Init
<1>1. at \in [Threads -> Places] BY DEF Places
<1>2. \A t \in Threads : at[t] \in PlacesOf(t) /\ at[t] \notin {"client_dies", "conn_dies"}
    BY DEF PlacesOf, Threads
<1>3. conn_refs \subseteq {"client", "owner"} /\ "client" \in conn_refs BY DEF ConnRefs
<1>4. alive \subseteq Objects /\ {"client", "callbacks", "socket"} \subseteq alive BY DEF Objects
<1> QED BY <1>1, <1>2, <1>3, <1>4 DEF References, TypeOK

\* What moving a thread does.
LEMMA Moves ==
    ASSUME NEW t \in Threads, NEW place \in PlacesOf(t), at \in [Threads -> Places], Goes(t, place),
           \A u \in Threads : at[u] \in PlacesOf(u)
    PROVE  /\ at' \in [Threads -> Places]
           /\ at'[t] = place
           /\ \A u \in Threads : u # t => at'[u] = at[u]
           /\ \A u \in Threads : at'[u] \in PlacesOf(u)
<1>1. place \in Places BY DEF PlacesOf, Places
<1> QED BY <1>1 DEF Goes

LEMMA RestIsAPlace == \A t \in Threads : Rest(t) \in PlacesOf(t) /\ Rest(t) \notin InDestructors
BY ThreadsApart DEF Threads, Rest, PlacesOf, InDestructors

LEMMA DestructorsArePlaces == \A t \in Threads : InDestructors \subseteq PlacesOf(t)
BY DEF PlacesOf

LEMMA LockKeepsReferences ==
    ASSUME References, NEW t \in Threads, NEW held \in PlacesOf(t), NEW rest \in PlacesOf(t),
           {held, rest} \cap InDestructors = {}, Lock(t, held, rest)
    PROVE  References'
<1>1. CASE CanLock
    <2>1. client_refs' = client_refs \cup {t} /\ Goes(t, held) BY <1>1 DEF Lock
    <2>2. \A u \in Threads : at[u] # "client_dies" BY <1>1 DEF CanLock, References
    <2>3. \A u \in Threads : at'[u] # "client_dies" /\ at'[u] \in PlacesOf(u)
        BY <2>1, <2>2, Moves DEF References, TypeOK, InDestructors
    <2>4. \A u \in Threads : at'[u] = "conn_dies" => at[u] = "conn_dies"
        BY <2>1, Moves DEF References, TypeOK, InDestructors
    <2> QED BY <1>1, <2>1, <2>3, <2>4, Moves DEF References, TypeOK, Lock, CanLock
<1>2. CASE ~CanLock
    <2>1. client_refs' = client_refs /\ Goes(t, rest) BY <1>2 DEF Lock
    <2>2. \A u \in Threads : at'[u] \in {"client_dies", "conn_dies"} => at'[u] = at[u]
        BY <2>1, Moves DEF References, TypeOK, InDestructors
    <2> QED BY <2>1, <2>2, Moves DEF References, TypeOK, Lock
<1> QED BY <1>1, <1>2

LEMMA ReleaseKeepsReferences ==
    ASSUME References, NEW t \in Threads, ReleaseClient(t)
    PROVE  References'
<1>1. /\ client_refs' = client_refs \ {t}
      /\ Goes(t, IF client_refs' = {} THEN "client_dies" ELSE Rest(t))
      /\ UNCHANGED <<use, socket, conn_refs, alive>>
    BY DEF ReleaseClient
<1>2. (IF client_refs' = {} THEN "client_dies" ELSE Rest(t)) \in PlacesOf(t)
    BY RestIsAPlace, DestructorsArePlaces DEF InDestructors
<1>3. \A u \in Threads : at'[u] = "conn_dies" => at[u] = "conn_dies"
    BY <1>1, <1>2, RestIsAPlace, Moves DEF References, TypeOK, InDestructors
<1>4. \A u \in Threads : at'[u] = "client_dies" => client_refs' = {}
    <2> TAKE u \in Threads
    <2>1. CASE u = t BY <2>1, <1>1, <1>2, RestIsAPlace, Moves DEF References, TypeOK, InDestructors
    <2>2. CASE u # t BY <2>2, <1>1, <1>2, Moves DEF References, TypeOK
    <2> QED BY <2>1, <2>2
<1> QED BY <1>1, <1>2, <1>3, <1>4, Moves DEF References, TypeOK

LEMMA DestructionKeepsReferences ==
    ASSUME References, NEW t \in Threads, Destroys(t)
    PROVE  References'
<1> USE RestIsAPlace, DestructorsArePlaces DEF InDestructors
<1>1. CASE ClientDies(t)
    <2>1. /\ at[t] = "client_dies" /\ client_refs = {} /\ client_refs' = {}
          /\ conn_refs' = conn_refs \ {"client"}
          /\ alive' = alive \ {"client", "responder"}
          /\ UNCHANGED <<use, socket>>
          /\ Goes(t, IF conn_refs' = {} THEN "conn_dies" ELSE Rest(t))
        BY <1>1 DEF ClientDies, References
    <2>2. (IF conn_refs' = {} THEN "conn_dies" ELSE Rest(t)) \in PlacesOf(t) OBVIOUS
    <2>3. \A u \in Threads : at'[u] = "conn_dies" => conn_refs' = {}
        <3> TAKE u \in Threads
        <3>1. CASE u = t BY <3>1, <2>1, <2>2, Moves DEF References, TypeOK
        <3>2. CASE u # t BY <3>2, <2>1, <2>2, Moves DEF References, TypeOK
        <3> QED BY <3>1, <3>2
    <2> QED BY <2>1, <2>2, <2>3, Moves DEF References, TypeOK
<1>2. CASE ConnDies(t)
    <2>1. /\ conn_refs = {} /\ conn_refs' = {} /\ client_refs = {} /\ client_refs' = {}
          /\ alive' = alive \ {"callbacks"} /\ Goes(t, "stop") /\ UNCHANGED <<use, socket>>
        BY <1>2 DEF ConnDies, References, TypeOK
    <2> QED BY <2>1, Moves DEF References, TypeOK
<1>3. CASE Stop(t)
    <2>1. Goes(t, "join") /\ socket' = "stopping" /\ UNCHANGED <<use, client_refs, conn_refs, alive>>
        BY <1>3 DEF Stop, StopAsked
    <2>2. \A u \in Threads : at'[u] \in {"client_dies", "conn_dies"} => at'[u] = at[u]
        BY <2>1, Moves DEF References, TypeOK
    <2> QED BY <2>1, <2>2, Moves DEF References, TypeOK
<1>4. CASE Stopped(t)
    <2>1. /\ Goes(t, Rest(t)) /\ socket' = "joined" /\ UNCHANGED <<use, client_refs, conn_refs>>
          /\ alive' = IF conn_refs = {} THEN alive \ {"socket"} ELSE alive
        BY <1>4 DEF Stopped
    <2>2. \A u \in Threads : at'[u] \in {"client_dies", "conn_dies"} => at'[u] = at[u]
        BY <2>1, Moves DEF References, TypeOK
    <2>3. client_refs # {} => conn_refs # {} BY DEF References, TypeOK
    <2> QED BY <2>1, <2>2, <2>3, Moves DEF References, TypeOK
<1> QED BY <1>1, <1>2, <1>3, <1>4 DEF Destroys

LEMMA OwnerKeepsReferences == ASSUME References, Release \/ Disconnect \/ Drop PROVE References'
<1> USE ThreadsApart, RestIsAPlace, DestructorsArePlaces DEF InDestructors
<1>1. CASE Release BY <1>1, ReleaseKeepsReferences DEF Release
<1>2. CASE Disconnect
    <2>1. Goes(Owner, "stop") /\ UNCHANGED <<use, socket, client_refs, conn_refs, alive>>
        BY <1>2 DEF Disconnect
    <2>2. \A u \in Threads : at'[u] \in {"client_dies", "conn_dies"} => at'[u] = at[u]
        BY <2>1, Moves DEF References, TypeOK
    <2> QED BY <2>1, <2>2, Moves DEF References, TypeOK
<1>3. CASE Drop
    <2>1. /\ conn_refs' = conn_refs \ {"owner"} /\ UNCHANGED <<use, socket, client_refs, alive>>
          /\ Goes(Owner, IF conn_refs' = {} THEN "conn_dies" ELSE Rest(Owner))
        BY <1>3 DEF Drop
    <2>2. (IF conn_refs' = {} THEN "conn_dies" ELSE Rest(Owner)) \in PlacesOf(Owner) OBVIOUS
    <2>3. \A u \in Threads : at'[u] = "client_dies" => at[u] = "client_dies"
        BY <2>1, <2>2, Moves DEF References, TypeOK
    <2>4. \A u \in Threads : at'[u] = "conn_dies" => conn_refs' = {}
        <3> TAKE u \in Threads
        <3>1. CASE u = Owner BY <3>1, <2>1, <2>2, Moves DEF References, TypeOK
        <3>2. CASE u # Owner BY <3>2, <2>1, <2>2, Moves DEF References, TypeOK
        <3> QED BY <3>1, <3>2
    <2> QED BY <2>1, <2>2, <2>3, <2>4, Moves DEF References, TypeOK
<1> QED BY <1>1, <1>2, <1>3

LEMMA CancelKeepsReferences ==
    ASSUME References, NEW c \in Cancellers, Cancel(c) \/ CancelReturns(c) PROVE References'
<1>1. c \in Threads /\ {"cancelling", "done"} \subseteq PlacesOf(c) BY ThreadsApart DEF PlacesOf
<1>2. CASE Cancel(c)
    BY <1>1, <1>2, LockKeepsReferences DEF Cancel, InDestructors
<1>3. CASE CancelReturns(c) BY <1>1, <1>3, ReleaseKeepsReferences DEF CancelReturns
<1> QED BY <1>2, <1>3

\* The steps of the I/O thread that hold no reference.
IoWalks == IoReceives \/ IoCloses \/ IoExits \/ IoMessage \/ IoEvent \/ IoResponder

IoPlaces == {"polling", "message", "event", "responder", "forward", "callback", "handler", "exited"}

LEMMA IoWalksTo ==
    ASSUME IoWalks
    PROVE  /\ UNCHANGED <<use, todo, client_refs, conn_refs, alive>>
           /\ socket' \in {socket, "closing"}
           /\ socket' # socket => socket = "stopping"
           /\ at[IoThread] \in IoPlaces \ {"exited"}
           /\ \E place \in IoPlaces : Goes(IoThread, place)
<1>1. CASE IoReceives BY <1>1 DEF IoReceives, IoPlaces
<1>2. CASE IoCloses BY <1>2 DEF IoCloses, IoPlaces
<1>3. CASE IoExits BY <1>3 DEF IoExits, IoPlaces
<1>4. CASE IoMessage BY <1>4 DEF IoMessage, IoPlaces
<1>5. CASE IoEvent BY <1>5 DEF IoEvent, IoPlaces
<1>6. CASE IoResponder BY <1>6 DEF IoResponder, IoPlaces
<1> QED BY <1>1, <1>2, <1>3, <1>4, <1>5, <1>6 DEF IoWalks

LEMMA IoIsAPlace == IoPlaces \subseteq PlacesOf(IoThread) /\ IoPlaces \cap InDestructors = {}
BY ThreadsApart DEF IoPlaces, PlacesOf, InDestructors

LEMMA IoKeepsReferences ==
    ASSUME References, IoWalks \/ IoLocks \/ IoReturns PROVE References'
<1> USE ThreadsApart
<1>1. CASE IoWalks
    <2>1. PICK place \in IoPlaces : Goes(IoThread, place) BY <1>1, IoWalksTo
    <2>2. \A u \in Threads : at'[u] \in {"client_dies", "conn_dies"} => at'[u] = at[u]
        BY <2>1, IoIsAPlace, Moves DEF References, TypeOK, InDestructors
    <2> QED BY <1>1, <2>1, <2>2, IoIsAPlace, IoWalksTo, Moves DEF References, TypeOK
<1>2. CASE IoLocks
    BY <1>2, IoIsAPlace, LockKeepsReferences DEF IoLocks, IoPlaces
<1>3. CASE IoReturns BY <1>3, ReleaseKeepsReferences DEF IoReturns
<1> QED BY <1>1, <1>2, <1>3

\* Every step is one of these.
LEMMA StepsOf ==
    ASSUME Next
    PROVE  \/ Release \/ Disconnect \/ Drop
           \/ \E t \in Threads : Destroys(t)
           \/ \E c \in Cancellers : Cancel(c) \/ CancelReturns(c)
           \/ IoWalks \/ IoLocks \/ IoReturns
           \/ UNCHANGED vars
BY ThreadsApart DEF Next, OwnerStep, IoStep, Canceller, Done, IoWalks

LEMMA ReferencesKept == References /\ [Next]_vars => References'
<1> SUFFICES ASSUME References, [Next]_vars PROVE References' OBVIOUS
<1>1. CASE UNCHANGED vars BY <1>1 DEF vars, References, TypeOK
<1> QED BY <1>1, StepsOf, OwnerKeepsReferences, DestructionKeepsReferences, CancelKeepsReferences,
           IoKeepsReferences

\* A client that somebody holds is alive and holds its connection, and a connection that
\* somebody holds is alive, whichever thread lets go of what: the ownership of
\* ExchangeWsClient::conn_ and of the callbacks' weak references.
THEOREM HeldIsAlive == Spec => []TypeOK
<1>1. References => TypeOK BY DEF References
<1> QED BY <1>1, ReferencesInit, ReferencesKept, PTL DEF Spec

-----------------------------------------------------------------------------
(* The owner that keeps the connection *)

\* What can be left of the teardown.
TodoOf(u) ==
    IF u \in {"conn_joined", "cryptocom_joined"}
    THEN {<<"disconnect", "release", "drop">>, <<"release", "drop">>, <<"drop">>, <<>>}
    ELSE {<<"release", "disconnect", "drop">>, <<"disconnect", "drop">>, <<"drop">>, <<>>}

Disconnected == todo \in {<<"release", "drop">>, <<"drop">>, <<>>}

\* The connection is kept until the I/O thread has been joined.
JoinedFirst ==
    /\ use \in Uses
    /\ todo \in TodoOf(use)
    /\ "owner" \in conn_refs <=> todo # <<>>
    /\ todo = <<>> => socket = "joined"
    /\ Disconnected /\ at[Owner] \notin {"stop", "join"} => socket = "joined"
    /\ use \in {"conn_joined", "cryptocom_joined"} /\ todo = <<"drop">> => socket = "joined"
    /\ socket = "joined" => at[IoThread] = "exited"
    /\ NoSelfJoin

LEMMA JoinedFirstInit == ASSUME "url" \notin Uses, Init PROVE JoinedFirst
<1> USE ThreadsApart DEF Init
<1>1. use \in {"conn", "cryptocom", "conn_joined", "cryptocom_joined"} BY UsesAssumption
<1>2. todo \in TodoOf(use) /\ todo # <<>> /\ ~Disconnected /\ todo # <<"drop">>
    BY <1>1 DEF Steps, TodoOf, Disconnected
<1>3. "owner" \in conn_refs BY <1>1 DEF ConnRefs
<1>4. at[IoThread] = "polling" BY DEF Threads
<1> QED BY <1>1, <1>2, <1>3, <1>4 DEF JoinedFirst, NoSelfJoin

LEMMA TodosApart ==
    /\ <<"drop">> # <<>> /\ <<"release", "drop">> # <<>> /\ <<"disconnect", "drop">> # <<>>
    /\ <<"release", "drop">> # <<"drop">> /\ <<"disconnect", "drop">> # <<"drop">>
    /\ <<"release", "drop">> # <<"disconnect", "drop">>
<1>1. Len(<<>>) = 0 /\ Len(<<"drop">>) = 1 /\ Len(<<"release", "drop">>) = 2
      /\ Len(<<"disconnect", "drop">>) = 2
    OBVIOUS
<1>2. Head(<<"release", "drop">>) = "release" /\ Head(<<"disconnect", "drop">>) = "disconnect"
    OBVIOUS
<1> QED BY <1>1, <1>2

\* What is left of the teardown when the owner takes a step of it.
LEMMA TodoAfter ==
    ASSUME todo \in TodoOf(use), todo # <<>>, todo' = Tail(todo)
    PROVE  /\ todo' \in TodoOf(use)
           /\ todo' = <<>> <=> Head(todo) = "drop"
           /\ Head(todo) = "drop" => Disconnected
           /\ Head(todo) = "disconnect" => todo' = <<"drop">> \/ todo' = <<"release", "drop">>
           /\ Head(todo) = "release" =>
                 \/ todo = <<"release", "drop">> /\ todo' = <<"drop">>
                 \/ use \notin {"conn_joined", "cryptocom_joined"} /\ todo' = <<"disconnect", "drop">>
           /\ todo' = <<"drop">> /\ use \in {"conn_joined", "cryptocom_joined"} =>
                 todo = <<"release", "drop">>
<1> USE TodosApart
<1>1. CASE use \in {"conn_joined", "cryptocom_joined"}
    <2>1. CASE todo = <<"disconnect", "release", "drop">>
        <3>1. todo' = <<"release", "drop">> /\ Head(todo) = "disconnect" BY <2>1
        <3> QED BY <1>1, <3>1 DEF TodoOf, Disconnected
    <2>2. CASE todo = <<"release", "drop">>
        <3>1. todo' = <<"drop">> /\ Head(todo) = "release" BY <2>2
        <3> QED BY <1>1, <2>2, <3>1 DEF TodoOf, Disconnected
    <2>3. CASE todo = <<"drop">>
        <3>1. todo' = <<>> /\ Head(todo) = "drop" BY <2>3
        <3> QED BY <1>1, <2>3, <3>1 DEF TodoOf, Disconnected
    <2> QED BY <1>1, <2>1, <2>2, <2>3 DEF TodoOf
<1>2. CASE use \notin {"conn_joined", "cryptocom_joined"}
    <2>1. CASE todo = <<"release", "disconnect", "drop">>
        <3>1. todo' = <<"disconnect", "drop">> /\ Head(todo) = "release" BY <2>1
        <3> QED BY <1>2, <3>1 DEF TodoOf, Disconnected
    <2>2. CASE todo = <<"disconnect", "drop">>
        <3>1. todo' = <<"drop">> /\ Head(todo) = "disconnect" BY <2>2
        <3> QED BY <1>2, <3>1 DEF TodoOf, Disconnected
    <2>3. CASE todo = <<"drop">>
        <3>1. todo' = <<>> /\ Head(todo) = "drop" BY <2>3
        <3> QED BY <1>2, <2>3, <3>1 DEF TodoOf, Disconnected
    <2> QED BY <1>2, <2>1, <2>2, <2>3 DEF TodoOf
<1> QED BY <1>1, <1>2

LEMMA OwnerKeepsJoinedFirst ==
    ASSUME References, JoinedFirst, Release \/ Disconnect \/ Drop PROVE JoinedFirst'
<1> USE ThreadsApart, RestIsAPlace, DestructorsArePlaces DEF InDestructors
<1>0. at[Owner] = "idle" /\ todo # <<>> /\ todo' = Tail(todo) BY DEF Release, Disconnect, Drop, Doing
<1>1. /\ todo' \in TodoOf(use) /\ use' = use /\ use \in Uses /\ socket' = socket
    BY <1>0, TodoAfter DEF JoinedFirst, Release, ReleaseClient, Disconnect, Drop
<1>2. todo' \in TodoOf(use)' BY <1>1 DEF TodoOf
<1>3. Disconnected => socket = "joined" BY <1>0 DEF JoinedFirst
<1>4. CASE Release
    <2>1. Head(todo) = "release" /\ conn_refs' = conn_refs /\ at'[IoThread] = at[IoThread]
        <3>1. \E place \in PlacesOf(Owner) : Goes(Owner, place)
            BY <1>4 DEF Release, ReleaseClient
        <3> QED BY <1>4, <3>1, Moves DEF Release, ReleaseClient, Doing, References, TypeOK
    <2>2. todo' # <<>> /\ (Disconnected' => Disconnected)
        BY <1>0, <2>1, TodoAfter, TodosApart DEF JoinedFirst, Disconnected
    <2>3. todo' = <<"drop">> => Disconnected' BY DEF Disconnected
    <2> QED BY <1>0, <1>1, <1>2, <1>3, <2>1, <2>2, <2>3 DEF JoinedFirst, NoSelfJoin
<1>5. CASE Disconnect
    <2>1. Head(todo) = "disconnect" /\ conn_refs' = conn_refs /\ at'[IoThread] = at[IoThread]
          /\ at'[Owner] = "stop"
        BY <1>5, Moves DEF Disconnect, Doing, References, TypeOK
    <2>2. todo' # <<>> /\ (use \in {"conn_joined", "cryptocom_joined"} => todo' # <<"drop">>)
        <3>1. todo = <<"release", "drop">> => Head(todo) = "release" OBVIOUS
        <3> QED BY <1>0, <2>1, <3>1, TodoAfter DEF JoinedFirst
    <2> QED BY <1>0, <1>1, <1>2, <2>1, <2>2 DEF JoinedFirst, NoSelfJoin
<1>6. CASE Drop
    <2>1. Head(todo) = "drop" /\ conn_refs' = conn_refs \ {"owner"} /\ at'[IoThread] = at[IoThread]
        <3>1. \E place \in PlacesOf(Owner) : Goes(Owner, place) BY <1>6 DEF Drop
        <3> QED BY <1>6, <3>1, Moves DEF Drop, Doing, References, TypeOK
    <2>2. todo' = <<>> /\ socket = "joined"
        BY <1>0, <1>3, <2>1, TodoAfter DEF JoinedFirst
    <2> QED BY <1>1, <1>2, <2>1, <2>2 DEF JoinedFirst, NoSelfJoin
<1> QED BY <1>4, <1>5, <1>6

\* No step of another thread changes what the owner has left to do.
LEMMA DestructionKeepsJoinedFirst ==
    ASSUME References, JoinedFirst, NEW t \in Threads, Destroys(t) PROVE JoinedFirst'
<1> USE ThreadsApart, RestIsAPlace, DestructorsArePlaces DEF InDestructors
<1>0. todo' = todo /\ use' = use /\ use \in Uses /\ todo' \in TodoOf(use)' /\ (Disconnected' <=> Disconnected)
    BY DEF Destroys, ClientDies, ConnDies, Stop, Stopped, JoinedFirst, TodoOf, Disconnected
<1>1. CASE ClientDies(t)
    <2>1. /\ at[t] = "client_dies" /\ socket' = socket /\ conn_refs' = conn_refs \ {"client"}
          /\ Goes(t, IF conn_refs' = {} THEN "conn_dies" ELSE Rest(t))
        BY <1>1 DEF ClientDies
    <2>2. (IF conn_refs' = {} THEN "conn_dies" ELSE Rest(t)) \in PlacesOf(t) OBVIOUS
    <2>3. CASE t = IoThread
        <3>1. "owner" \in conn_refs' BY <2>1, <2>3 DEF JoinedFirst
        <3>2. at'[IoThread] = Rest(IoThread) /\ at'[Owner] = at[Owner]
            BY <2>1, <2>2, <2>3, <3>1, Moves DEF References, TypeOK
        <3>3. socket # "joined" BY <2>1, <2>3 DEF JoinedFirst
        <3> QED BY <1>0, <2>1, <3>1, <3>2, <3>3 DEF JoinedFirst, NoSelfJoin
    <2>4. CASE t # IoThread
        <3>1. at'[IoThread] = at[IoThread] BY <2>1, <2>2, <2>4, Moves DEF References, TypeOK
        <3>2. at[Owner] \in {"stop", "join"} => at'[Owner] = at[Owner]
            BY <2>1, <2>2, Moves DEF References, TypeOK
        <3> QED BY <1>0, <2>1, <3>1, <3>2 DEF JoinedFirst, NoSelfJoin
    <2> QED BY <2>3, <2>4
<1>2. CASE ConnDies(t)
    <2>1. at[t] = "conn_dies" /\ Goes(t, "stop") /\ UNCHANGED <<socket, conn_refs>>
        BY <1>2 DEF ConnDies
    <2>2. at'[IoThread] = at[IoThread]
        BY <2>1, Moves DEF References, TypeOK, JoinedFirst, NoSelfJoin
    <2>3. at[Owner] \in {"stop", "join"} => at'[Owner] = at[Owner]
        BY <2>1, Moves DEF References, TypeOK
    <2> QED BY <1>0, <2>1, <2>2, <2>3 DEF JoinedFirst, NoSelfJoin
<1>3. CASE Stop(t)
    <2>1. /\ at[t] = "stop" /\ socket # "joined" /\ socket' = "stopping" /\ conn_refs' = conn_refs
          /\ Goes(t, "join")
        BY <1>3 DEF Stop, StopAsked
    <2>2. at'[IoThread] = at[IoThread]
        BY <2>1, Moves DEF References, TypeOK, JoinedFirst, NoSelfJoin
    <2>3. at[Owner] \in {"stop", "join"} => at'[Owner] \in {"stop", "join"}
        BY <2>1, Moves DEF References, TypeOK
    <2> QED BY <1>0, <2>1, <2>2, <2>3 DEF JoinedFirst, NoSelfJoin
<1>4. CASE Stopped(t)
    <2>1. /\ at[t] \in {"stop", "join"} /\ at[IoThread] = "exited" /\ socket' = "joined"
          /\ conn_refs' = conn_refs /\ Goes(t, Rest(t))
        BY <1>4 DEF Stopped, JoinedFirst
    <2>2. at'[IoThread] = at[IoThread]
        BY <2>1, Moves DEF References, TypeOK
    <2> QED BY <1>0, <2>1, <2>2 DEF JoinedFirst, NoSelfJoin
<1> QED BY <1>1, <1>2, <1>3, <1>4 DEF Destroys

LEMMA OthersKeepJoinedFirst ==
    ASSUME References, JoinedFirst,
           \/ \E c \in Cancellers : Cancel(c) \/ CancelReturns(c)
           \/ IoWalks \/ IoLocks \/ IoReturns
    PROVE JoinedFirst'
<1> USE ThreadsApart
<1> SUFFICES ASSUME /\ UNCHANGED <<use, todo, conn_refs>> /\ at'[Owner] = at[Owner]
                    /\ at'[IoThread] # at[IoThread] => at[IoThread] # "exited"
                    /\ at'[IoThread] \notin {"conn_dies", "stop", "join"}
                    /\ socket' = "joined" <=> socket = "joined"
             PROVE  JoinedFirst'
    <2>1. CASE \E c \in Cancellers : Cancel(c) \/ CancelReturns(c)
        <3>1. PICK c \in Cancellers : Cancel(c) \/ CancelReturns(c) BY <2>1
        <3>2. /\ UNCHANGED <<use, todo, conn_refs, socket>>
              /\ \E place \in PlacesOf(c) : Goes(c, place)
            BY <3>1, RestIsAPlace, DestructorsArePlaces
            DEF Cancel, CancelReturns, Lock, ReleaseClient, InDestructors, PlacesOf
        <3>3. at'[Owner] = at[Owner] /\ at'[IoThread] = at[IoThread]
            BY <3>2, Moves DEF References, TypeOK
        <3> QED BY <3>2, <3>3 DEF JoinedFirst, NoSelfJoin
    <2>2. CASE IoWalks
        <3>1. PICK place \in IoPlaces : Goes(IoThread, place) BY <2>2, IoWalksTo
        <3>2. at'[Owner] = at[Owner] /\ at'[IoThread] = place
            BY <3>1, IoIsAPlace, Moves DEF References, TypeOK
        <3> QED BY <2>2, <3>1, <3>2, IoIsAPlace, IoWalksTo DEF InDestructors
    <2>3. CASE IoLocks \/ IoReturns
        <3>1. /\ at[IoThread] \in {"callback", "forward", "handler"}
              /\ UNCHANGED <<use, todo, conn_refs, socket>>
              /\ \E place \in {"handler", "polling", "client_dies"} : Goes(IoThread, place)
            BY <2>3 DEF IoLocks, IoReturns, Lock, ReleaseClient, Rest
        <3>2. PICK place \in {"handler", "polling", "client_dies"} : Goes(IoThread, place) BY <3>1
        <3>3. place \in PlacesOf(IoThread) BY DEF PlacesOf, InDestructors
        <3>4. at'[Owner] = at[Owner] /\ at'[IoThread] = place
            BY <3>2, <3>3, Moves DEF References, TypeOK
        <3> QED BY <3>1, <3>4
    <2> QED BY <2>1, <2>2, <2>3
<1>1. TodoOf(use)' = TodoOf(use) /\ (Disconnected' <=> Disconnected) BY DEF TodoOf, Disconnected
<1> QED BY <1>1 DEF JoinedFirst, NoSelfJoin

LEMMA JoinedFirstKept == References /\ JoinedFirst /\ [Next]_vars => JoinedFirst'
<1> SUFFICES ASSUME References, JoinedFirst, [Next]_vars PROVE JoinedFirst' OBVIOUS
<1>1. CASE UNCHANGED vars BY <1>1 DEF vars, JoinedFirst, NoSelfJoin, TodoOf, Disconnected
<1> QED BY <1>1, StepsOf, OwnerKeepsJoinedFirst, DestructionKeepsJoinedFirst, OthersKeepJoinedFirst

\* An owner that keeps the connection until disconnect() has returned never leaves it to
\* the I/O thread to destroy, whatever callbacks run and handles are cancelled meanwhile:
\* what the ownership warning of ix_ws_connection.hpp prescribes is enough.
THEOREM KeptConnectionJoinsElsewhere == ASSUME "url" \notin Uses PROVE Spec => []NoSelfJoin
<1>1. Init => JoinedFirst BY JoinedFirstInit
<1>2. JoinedFirst => NoSelfJoin BY DEF JoinedFirst
<1> QED BY <1>1, <1>2, ReferencesInit, ReferencesKept, JoinedFirstKept, PTL DEF Spec

-----------------------------------------------------------------------------
(* What is called exists *)

\* A thread inside the client holds it, and what the I/O thread calls into outlives it,
\* if the responder goes only after the I/O thread has been joined.
Holders ==
    /\ use # "cryptocom"
    /\ at[IoThread] = "handler" => IoThread \in client_refs
    /\ \A c \in Cancellers : at[c] = "cancelling" => c \in client_refs
    /\ at[IoThread] # "exited" => "callbacks" \in alive
    /\ at[IoThread] \in {"responder", "forward"} => HasResponder(use)
    /\ HasResponder(use) /\ Owner \notin client_refs => todo \in {<<"drop">>, <<>>}
    /\ HasResponder(use) /\ at[IoThread] # "exited" => "responder" \in alive

SafeUses == {"conn", "conn_joined", "cryptocom_joined"}

LEMMA HoldersInit == ASSUME Uses \subseteq SafeUses, Init PROVE Holders
<1> USE ThreadsApart DEF Init
<1>1. use # "cryptocom" BY DEF SafeUses
<1>2. at[IoThread] = "polling" BY DEF Threads
<1>3. \A c \in Cancellers : at[c] = "idle" BY DEF Threads
<1>4. Owner \in client_refs /\ "callbacks" \in alive /\ (HasResponder(use) => "responder" \in alive)
    OBVIOUS
<1> QED BY <1>1, <1>2, <1>3, <1>4 DEF Holders

LEMMA HoldersMeanLiving == References /\ Holders => CallbackOnLiving
BY ThreadsApart DEF References, TypeOK, Holders, CallbackOnLiving

LEMMA OwnerKeepsHolders ==
    ASSUME References, JoinedFirst, Holders, Release \/ Disconnect \/ Drop PROVE Holders'
<1> USE ThreadsApart, RestIsAPlace, DestructorsArePlaces DEF InDestructors
<1>0. at[Owner] = "idle" /\ todo # <<>> /\ todo' = Tail(todo) BY DEF Release, Disconnect, Drop, Doing
<1>1. /\ \A t \in Threads : t # Owner => at'[t] = at[t]
      /\ use' = use /\ alive' = alive /\ client_refs' \in {client_refs, client_refs \ {Owner}}
    <2>1. \E place \in PlacesOf(Owner) : Goes(Owner, place)
        BY DEF Release, ReleaseClient, Disconnect, Drop
    <2> QED BY <2>1, Moves DEF Release, ReleaseClient, Disconnect, Drop, References, TypeOK
<1>2. ASSUME HasResponder(use), Owner \notin client_refs' PROVE todo' \in {<<"drop">>, <<>>}
    <2>1. use \in {"conn_joined", "cryptocom_joined"} BY <1>2 DEF HasResponder, Holders
    <2>2. CASE Release BY <1>0, <2>1, <2>2, TodoAfter DEF Release, Doing, JoinedFirst
    <2>3. CASE Disconnect
        <3>1. todo = <<"drop">> /\ Head(todo) = "disconnect"
            BY <1>0, <1>2, <2>3 DEF Disconnect, Doing, Holders
        <3> QED BY <3>1
    <2>4. CASE Drop BY <1>0, <2>4, TodoAfter DEF Drop, Doing, JoinedFirst
    <2> QED BY <2>2, <2>3, <2>4
<1> QED BY <1>1, <1>2 DEF Holders, HasResponder

LEMMA DestructionKeepsHolders ==
    ASSUME References, JoinedFirst, Holders, NEW t \in Threads, Destroys(t) PROVE Holders'
<1> USE ThreadsApart, RestIsAPlace, DestructorsArePlaces DEF InDestructors
<1>0. todo' = todo /\ use' = use /\ client_refs' = client_refs
    BY DEF Destroys, ClientDies, ConnDies, Stop, Stopped
<1>1. CASE ClientDies(t)
    <2>1. /\ at[t] = "client_dies" /\ client_refs = {} /\ alive' = alive \ {"client", "responder"}
          /\ Goes(t, IF conn_refs' = {} THEN "conn_dies" ELSE Rest(t))
        BY <1>1 DEF ClientDies, References
    <2>2. (IF conn_refs' = {} THEN "conn_dies" ELSE Rest(t)) \in PlacesOf(t) OBVIOUS
    <2>3. HasResponder(use) => at[IoThread] = "exited"
        BY <2>1 DEF Holders, JoinedFirst, HasResponder
    <2>4. \A u \in Threads : u # t => at'[u] = at[u] BY <2>1, <2>2, Moves DEF References, TypeOK
    <2>5. at'[t] \in {"conn_dies", Rest(t)} BY <2>1, <2>2, Moves DEF References, TypeOK
    <2>6. at'[t] \notin {"handler", "cancelling", "responder", "forward"}
        BY <2>5, ThreadsApart DEF Rest
    <2> QED BY <1>0, <2>1, <2>3, <2>4, <2>6 DEF Holders, HasResponder
<1>2. CASE ConnDies(t)
    <2>1. at[t] = "conn_dies" /\ conn_refs = {} /\ alive' = alive \ {"callbacks"} /\ Goes(t, "stop")
        BY <1>2 DEF ConnDies, References
    <2>2. at[IoThread] = "exited" BY <2>1 DEF JoinedFirst
    <2>3. at'[IoThread] = "exited" BY <2>1, <2>2, Moves DEF References, TypeOK
    <2>4. \A u \in Cancellers : at'[u] = "cancelling" => at[u] = "cancelling"
        BY <2>1, Moves DEF References, TypeOK
    <2> QED BY <1>0, <2>3, <2>4 DEF Holders, HasResponder
<1>3. CASE Stop(t) \/ Stopped(t)
    <2>1. /\ at[t] \in {"stop", "join"} /\ alive \ alive' \subseteq {"socket"}
          /\ \E place \in {"join", Rest(t)} : Goes(t, place)
        BY <1>3 DEF Stop, Stopped
    <2>2. PICK place \in {"join", Rest(t)} : Goes(t, place) BY <2>1
    <2>3. t # IoThread BY <2>1 DEF JoinedFirst, NoSelfJoin
    <2>4. /\ \A u \in Threads : u # t => at'[u] = at[u]
          /\ at'[t] = place
        BY <2>2, Moves DEF References, TypeOK
    <2>5. place # "cancelling" BY DEF Rest
    <2> QED BY <1>0, <2>1, <2>3, <2>4, <2>5 DEF Holders, HasResponder
<1> QED BY <1>1, <1>2, <1>3 DEF Destroys

LEMMA CancelKeepsHolders ==
    ASSUME References, Holders, NEW c \in Cancellers, Cancel(c) \/ CancelReturns(c) PROVE Holders'
<1> USE ThreadsApart
<1>1. UNCHANGED <<use, todo, alive>>
    BY DEF Cancel, CancelReturns, Lock, ReleaseClient
<1>2. \A u \in Threads : u # c => at'[u] = at[u] /\ (u \in client_refs' <=> u \in client_refs)
    <2>1. \E place \in PlacesOf(c) : Goes(c, place)
        BY RestIsAPlace, DestructorsArePlaces
        DEF Cancel, CancelReturns, Lock, ReleaseClient, InDestructors, PlacesOf
    <2> QED BY <2>1, Moves DEF References, TypeOK, Cancel, CancelReturns, Lock, ReleaseClient
<1>3. at'[c] = "cancelling" => c \in client_refs'
    <2>1. CASE Cancel(c)
        <3>1. PICK place \in {"cancelling", "done"} :
                 Goes(c, place) /\ (place = "cancelling" => c \in client_refs')
            BY <2>1 DEF Cancel, Lock
        <3>2. place \in PlacesOf(c) BY DEF PlacesOf
        <3> QED BY <3>1, <3>2, Moves DEF References, TypeOK
    <2>2. CASE CancelReturns(c)
        <3>1. \E place \in {"client_dies", "done"} : Goes(c, place)
            BY <2>2 DEF CancelReturns, ReleaseClient, Rest
        <3>2. {"client_dies", "done"} \subseteq PlacesOf(c) BY DEF PlacesOf, InDestructors
        <3> QED BY <3>1, <3>2, Moves DEF References, TypeOK
    <2> QED BY <2>1, <2>2
<1> QED BY <1>1, <1>2, <1>3 DEF Holders, HasResponder

LEMMA IoKeepsHolders ==
    ASSUME References, Holders, IoWalks \/ IoLocks \/ IoReturns PROVE Holders'
<1> USE ThreadsApart
<1> DEFINE Calls(place) ==
        /\ place = "handler" => IoThread \in client_refs'
        /\ place \in {"responder", "forward"} => HasResponder(use)
<1>1. ASSUME UNCHANGED <<use, todo, alive>>, at[IoThread] # "exited",
             \A u \in Threads : u # IoThread => (u \in client_refs' <=> u \in client_refs),
             NEW place \in PlacesOf(IoThread), Goes(IoThread, place), Calls(place)
      PROVE  Holders'
    <2>1. at'[IoThread] = place /\ \A c \in Cancellers : at'[c] = at[c]
        BY <1>1, Moves DEF References, TypeOK
    <2> QED BY <1>1, <2>1 DEF Holders, HasResponder
<1>2. CASE IoWalks
    <2>1. UNCHANGED <<use, todo, client_refs, alive>> /\ at[IoThread] # "exited" BY <1>2, IoWalksTo
    <2>2. \E place \in IoPlaces : Goes(IoThread, place) /\ Calls(place)
        <3>1. CASE IoMessage
            <4>1. Goes(IoThread, IF HasResponder(use) THEN "responder" ELSE "callback")
                BY <3>1 DEF IoMessage
            <4> QED BY <4>1 DEF IoPlaces
        <3>2. CASE IoResponder BY <3>2 DEF IoResponder, IoPlaces, Holders
        <3>3. CASE IoReceives \/ IoCloses \/ IoExits \/ IoEvent
            BY <3>3 DEF IoReceives, IoCloses, IoExits, IoEvent, IoPlaces
        <3> QED BY <1>2, <3>1, <3>2, <3>3 DEF IoWalks
    <2> QED BY <1>1, <2>1, <2>2, IoIsAPlace
<1>3. CASE IoLocks
    <2>1. UNCHANGED <<use, todo, alive>> /\ at[IoThread] # "exited" BY <1>3 DEF IoLocks, Lock
    <2>2. \E place \in {"handler", "polling"} :
             Goes(IoThread, place) /\ (place = "handler" => IoThread \in client_refs')
        BY <1>3 DEF IoLocks, Lock
    <2>3. \A u \in Threads : u # IoThread => (u \in client_refs' <=> u \in client_refs)
        BY <1>3 DEF IoLocks, Lock
    <2> QED BY <1>1, <2>1, <2>2, <2>3, IoIsAPlace DEF IoPlaces
<1>4. CASE IoReturns
    <2>1. UNCHANGED <<use, todo, alive>> /\ at[IoThread] # "exited"
        BY <1>4 DEF IoReturns, ReleaseClient
    <2>2. \E place \in {"client_dies", "polling"} : Goes(IoThread, place)
        BY <1>4 DEF IoReturns, ReleaseClient, Rest
    <2>3. \A u \in Threads : u # IoThread => (u \in client_refs' <=> u \in client_refs)
        BY <1>4 DEF IoReturns, ReleaseClient
    <2> QED BY <1>1, <2>1, <2>2, <2>3 DEF PlacesOf, InDestructors
<1> QED BY <1>2, <1>3, <1>4

LEMMA HoldersKept == References /\ JoinedFirst /\ Holders /\ [Next]_vars => Holders'
<1> SUFFICES ASSUME References, JoinedFirst, Holders, [Next]_vars PROVE Holders' OBVIOUS
<1>1. CASE UNCHANGED vars BY <1>1 DEF vars, Holders, HasResponder
<1> QED BY <1>1, StepsOf, OwnerKeepsHolders, DestructionKeepsHolders, CancelKeepsHolders,
           IoKeepsHolders

\* With the connection kept, the I/O thread only calls what still exists, and a handle is
\* only cancelled in a client that does; a Crypto.com client also needs the I/O thread
\* joined before it is released, since HeartbeatResponder's callback keeps its address.
THEOREM NothingDeadIsCalled == ASSUME Uses \subseteq SafeUses PROVE Spec => []CallbackOnLiving
<1>1. Init => JoinedFirst BY JoinedFirstInit DEF SafeUses
<1>2. Init => Holders BY HoldersInit
<1> QED BY <1>1, <1>2, HoldersMeanLiving, ReferencesInit, ReferencesKept, JoinedFirstKept,
           HoldersKept, PTL DEF Spec
=============================================================================
