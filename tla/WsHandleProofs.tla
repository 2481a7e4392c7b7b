--------------------------- MODULE WsHandleProofs ---------------------------
(***************************************************************************)
(* Theorems about the handles of WsClient: whose callback is installed,      *)
(* that cancel() is idempotent, and that the client with its threads, locks   *)
(* and queues implements CallContract. One invariant follows a call from its  *)
(* request id to its promise and its handle.                                  *)
(***************************************************************************)
EXTENDS WsClientProofs

-----------------------------------------------------------------------------
(* The inductive invariant.                                                 *)

\* Ids are given out in order, and nothing is known of one that is not.
IssuedInv ==
    /\ \A id \in Ids : call[id] # Unissued <=> id < next_req_id
    /\ \A id \in Ids : call[id] = Unissued => fut[id] = "none"
    /\ \A t \in Callers : pc[t] # "idle" => call[cur[t]] # Unissued

\* A call that is not registered yet has no trace but the one thread that works
\* for it; until its answer is handled a promise is unset and a handle off.
PromiseInv ==
    /\ \A t \in Callers : pc[t] = "register" => fut[cur[t]] = "none"
    /\ \A t, u \in Callers :
          pc[t] = "register" /\ pc[u] # "idle" /\ cur[t] = cur[u] => t = u
    /\ \A id \in Ids : fut[id] = "none" =>
          id \notin pending /\ result[id] = "unset" /\ ~active[id] /\ ~Handling(id)
    /\ \A id \in pending : result[id] = "unset" /\ ~active[id] /\ ~Handling(id)
    /\ \A id \in Ids : fut[id] = "taken" => result[id] # "unset"

\* The I/O thread settles a promise that is unset, a subscription's last.
HandlingInv ==
    /\ io_pc \in {"invoke", "install", "resolve"} => result[io_id] = "unset"
    /\ io_pc = "invoke" => ~active[io_id]
    /\ io_pc \in {"install", "resolve"} => IsSubscribe(io_id) /\ active[io_id]

\* The I/O thread has installed id's callback and not yet kept its promise.
Installed(id) == io_pc = "resolve" /\ io_id = id
Accepted(id) == IsSubscribe(id) /\ result[id] = "ok"

\* Only an accepted subscription has a handle that is on, a handle to cancel, or
\* an installed callback, and that on its own route.
HandleInv ==
    /\ \A id \in Ids : active[id] =>
          \/ Accepted(id)
          \/ io_pc \in {"install", "resolve"} /\ io_id = id
    /\ \A t \in Callers : pc[t] = "erase" => Accepted(cur[t]) /\ ~active[cur[t]]
    /\ \A r \in RouteKeys : subscriptions[r] # NoCall =>
          /\ call[subscriptions[r]].route = r
          /\ Accepted(subscriptions[r]) \/ Installed(subscriptions[r])

\* LiveHandleRouted, also for a handle the application cannot hold yet, and with
\* nothing that may still be refused in the excuse.
RoutedInv ==
    \A id \in Ids : active[id] /\ (result[id] = "ok" \/ Installed(id)) =>
       \/ subscriptions[call[id].route] = id
       \/ \E other \in Ids \ {id} :
             /\ IsSubscribe(other) /\ call[other].route = call[id].route
             /\ result[other] = "ok" \/ Installed(other)

CallInv ==
    IssuedInv /\ PromiseInv /\ HandlingInv /\ HandleInv /\ RoutedInv /\ CancelledStaysOff

\* The handle of id has been cancelled, which happens once.
Spent(id) == result[id] # "unset" /\ ~active[id]

Unsubscribes(frame, id) == frame.kind = "unsubscribe" /\ frame.id = id

\* UnsubscribeOnce, element by element.
OnceInv ==
    /\ \A id \in Ids, i, j \in DOMAIN wire :
          Unsubscribes(wire[i], id) /\ Unsubscribes(wire[j], id) => i = j
    /\ \A id \in Ids, i, j \in DOMAIN send_queue :
          Unsubscribes(send_queue[i], id) /\ Unsubscribes(send_queue[j], id) => i = j
    /\ \A id \in Ids, i \in DOMAIN wire, j \in DOMAIN send_queue :
          Unsubscribes(wire[i], id) /\ Unsubscribes(send_queue[j], id) => j <= flushed
    /\ \A t \in Callers : msg[t] = "unsubscribe" =>
          /\ pc[t] \in {"erase", "enqueue", "send"} /\ Spent(cur[t])
          /\ \A i \in DOMAIN wire : ~Unsubscribes(wire[i], cur[t])
          /\ \A i \in DOMAIN send_queue : ~Unsubscribes(send_queue[i], cur[t])
    /\ \A t, u \in Callers :
          msg[t] = "unsubscribe" /\ msg[u] = "unsubscribe" /\ cur[t] = cur[u] => t = u
    /\ \A id \in Ids, i \in DOMAIN wire : Unsubscribes(wire[i], id) => Spent(id)
    /\ \A id \in Ids, i \in DOMAIN send_queue : Unsubscribes(send_queue[i], id) => Spent(id)

-----------------------------------------------------------------------------
(* Calls, promises and handles.                                             *)

Busy == {"invoke", "install", "resolve"}

\* What the invariant says is kept when neither calls nor callbacks change and
\* the I/O thread does not begin or end the handling of an answer.
LEMMA QuietStep ==
    ASSUME TypeInv, CallInv, UNCHANGED <<next_req_id, pending, subscriptions, calls, threads>>,
           UNCHANGED <<io_pc, io_id>> \/ (io_pc \notin Busy /\ io_pc' \notin Busy)
    PROVE  CallInv'
<1> USE DEF TypeInv, TypeOK, CallersBusy, CallInv, calls, threads, Busy
<1>1. /\ UNCHANGED <<next_req_id, pending, subscriptions, call, active, result, fut, pc, cur>>
      /\ \A id \in Ids : (Handling(id)' <=> Handling(id)) /\ (Installed(id)' <=> Installed(id))
      /\ \A id \in Ids : IsSubscribe(id)' <=> IsSubscribe(id)
  BY DEF Handling, Installed, IsSubscribe
<1>2. IssuedInv'
  BY <1>1 DEF IssuedInv
<1>3. PromiseInv'
  BY <1>1 DEF PromiseInv
<1>4. HandlingInv'
  BY DEF HandlingInv, IsSubscribe
<1>5. HandleInv'
  BY <1>1 DEF HandleInv, Accepted
<1>6. RoutedInv'
  BY <1>1 DEF RoutedInv
<1>7. CancelledStaysOff'
  BY <1>1 DEF CancelledStaysOff, Cancelling
<1> QED
  BY <1>2, <1>3, <1>4, <1>5, <1>6, <1>7

LEMMA CallStep ==
    ASSUME TypeInv, CallInv, [Next]_vars PROVE CallInv'
<1> USE DEF TypeInv, TypeOK, CallersBusy, CallInv, Ids, calls, threads, io
<1>1. ASSUME NEW t \in Callers, NEW op \in Ops, Issue(t, op) PROVE CallInv'
  <2> DEFINE new == next_req_id
  <2>0. /\ new \in Ids /\ call[new] = Unissued /\ fut[new] = "none"
        /\ \A id \in Ids \ {new} : call'[id] = call[id]
        /\ call'[new] = op /\ call'[new] # Unissued
    BY <1>1 DEF Issue, IssuedInv, Ops, Unissued
  <2>1. new \notin pending /\ result[new] = "unset" /\ ~active[new] /\ ~Handling(new)
    BY <2>0 DEF PromiseInv
  <2>2. ~IsSubscribe(new)
    BY <2>0 DEF IsSubscribe, Unissued
  <2>3. \A r \in RouteKeys : subscriptions[r] # new
    <3> SUFFICES ASSUME NEW r \in RouteKeys, subscriptions[r] = new PROVE FALSE
      OBVIOUS
    <3>1. new # NoCall
      BY <2>0, BoundsAssumption DEF NoCall
    <3>2. Accepted(new) \/ Installed(new)
      BY <3>1 DEF HandleInv
    <3> QED
      BY <2>1, <2>2, <3>2 DEF Accepted, Installed, Handling
  <2>4. \A u \in Callers : pc[u] # "idle" => cur[u] # new
    BY <2>0 DEF IssuedInv
  <2>5. /\ pc' = [pc EXCEPT ![t] = "register"] /\ cur' = [cur EXCEPT ![t] = new]
        /\ next_req_id' = new + 1 /\ pc[t] = "idle"
        /\ UNCHANGED <<pending, subscriptions, active, result, fut, io>>
    BY <1>1 DEF Issue
  <2> HIDE DEF new
  <2>6. /\ \A id \in Ids \ {new} : IsSubscribe(id)' <=> IsSubscribe(id)
        /\ \A id \in Ids : Installed(id)' <=> Installed(id)
        /\ \A id \in Ids : Handling(id)' <=> Handling(id)
        /\ io_pc \in Busy => io_id # new
    BY <2>0, <2>1, <2>5 DEF IsSubscribe, Installed, Handling, Busy
  <2>7. IssuedInv'
    BY <2>0, <2>5 DEF IssuedInv, new
  <2>8. PromiseInv'
    BY <2>0, <2>1, <2>4, <2>5 DEF PromiseInv, Handling
  <2>9. HandlingInv'
    BY <2>0, <2>1, <2>5 DEF HandlingInv, Handling, IsSubscribe
  <2>10. \A id \in Ids : Accepted(id) => id # new /\ Accepted(id)'
    BY <2>1, <2>5, <2>6 DEF Accepted
  <2>11. HandleInv'
    <3>1. \A id \in Ids : active[id]' =>
             \/ Accepted(id)'
             \/ io_pc' \in {"install", "resolve"} /\ io_id' = id
      BY <2>5, <2>10 DEF HandleInv
    <3>2. \A u \in Callers : pc'[u] = "erase" => Accepted(cur[u])' /\ cur'[u] = cur[u]
                                                /\ ~active[cur[u]]
      BY <2>5, <2>10 DEF HandleInv
    <3>3. \A r \in RouteKeys : subscriptions[r] # NoCall =>
             /\ call'[subscriptions[r]].route = r
             /\ Accepted(subscriptions[r])' \/ Installed(subscriptions[r])'
      <4> SUFFICES ASSUME NEW r \in RouteKeys, subscriptions[r] # NoCall
                   PROVE  /\ call'[subscriptions[r]].route = r
                          /\ Accepted(subscriptions[r])' \/ Installed(subscriptions[r])'
        OBVIOUS
      <4>1. subscriptions[r] \in Ids \ {new}
        BY <2>3
      <4>2. /\ call[subscriptions[r]].route = r
            /\ Accepted(subscriptions[r]) \/ Installed(subscriptions[r])
        BY DEF HandleInv
      <4> HIDE DEF HandleInv, Accepted, Installed
      <4> QED
        BY <2>0, <2>5, <2>6, <2>10, <4>1, <4>2
    <3> QED
      BY <2>5, <3>1, <3>2, <3>3 DEF HandleInv, Accepted, IsSubscribe
  <2>12. RoutedInv'
    <3> SUFFICES ASSUME NEW id \in Ids, active[id], result[id] = "ok" \/ Installed(id)
                 PROVE  \/ subscriptions[call'[id].route] = id
                        \/ \E other \in Ids \ {id} :
                              /\ IsSubscribe(other)' /\ call'[other].route = call'[id].route
                              /\ result[other] = "ok" \/ Installed(other)
      BY <2>5, <2>6 DEF RoutedInv
    <3>1. id # new /\ call'[id] = call[id]
      BY <2>0, <2>1
    <3>2. CASE subscriptions[call[id].route] = id
      BY <3>1, <3>2
    <3>3. ASSUME NEW other \in Ids \ {id}, IsSubscribe(other), call[other].route = call[id].route,
                 result[other] = "ok" \/ Installed(other)
          PROVE  /\ IsSubscribe(other)' /\ call'[other].route = call'[id].route
      BY <2>0, <2>2, <2>6, <3>1, <3>3
    <3> QED
      BY <3>2, <3>3 DEF RoutedInv
  <2>13. CancelledStaysOff'
    BY <2>0, <2>1, <2>5 DEF CancelledStaysOff, Cancelling, IsSubscribe
  <2> QED
    BY <2>7, <2>8, <2>9, <2>11, <2>12, <2>13
<1>2. ASSUME NEW t \in Callers, Register(t) PROVE CallInv'
  <2>1. IssuedInv'
    BY <1>2 DEF Register, IssuedInv
  <2>2. PromiseInv'
    BY <1>2 DEF Register, PromiseInv, Handling
  <2>3. HandlingInv'
    BY <1>2 DEF Register, HandlingInv, IsSubscribe
  <2>4. HandleInv'
    BY <1>2 DEF Register, HandleInv, Accepted, Installed, IsSubscribe
  <2>5. RoutedInv'
    BY <1>2 DEF Register, RoutedInv, Installed, IsSubscribe
  <2>6. CancelledStaysOff'
    BY <1>2 DEF Register, CancelledStaysOff, Cancelling, IsSubscribe
  <2> QED
    BY <2>1, <2>2, <2>3, <2>4, <2>5, <2>6
<1>3. ASSUME NEW t \in Callers, EnqueueLock(t) PROVE CallInv'
  <2>1. IssuedInv'
    BY <1>3 DEF EnqueueLock, IssuedInv
  <2>2. PromiseInv'
    BY <1>3 DEF EnqueueLock, PromiseInv, Handling
  <2>3. HandlingInv'
    BY <1>3 DEF EnqueueLock, HandlingInv, IsSubscribe
  <2>4. HandleInv'
    BY <1>3 DEF EnqueueLock, HandleInv, Accepted, Installed, IsSubscribe
  <2>5. RoutedInv'
    BY <1>3 DEF EnqueueLock, RoutedInv, Installed, IsSubscribe
  <2>6. CancelledStaysOff'
    BY <1>3 DEF EnqueueLock, CancelledStaysOff, Cancelling, IsSubscribe
  <2> QED
    BY <2>1, <2>2, <2>3, <2>4, <2>5, <2>6
<1>4. ASSUME NEW t \in Callers, EnqueueSend(t) PROVE CallInv'
  <2>1. IssuedInv'
    BY <1>4 DEF EnqueueSend, IssuedInv
  <2>0. /\ UNCHANGED <<pending, active, result, fut, io_pc, io_id>>
        /\ \A u \in Callers \ {t} : pc'[u] = pc[u] /\ cur'[u] = cur[u]
        /\ pc[t] = "send" /\ pc'[t] # "register" /\ (pc'[t] # "idle" => cur'[t] = cur[t])
    BY <1>4 DEF EnqueueSend
  <2>2. PromiseInv'
    <3>1. \A u \in Callers : pc'[u] = "register" => u # t /\ pc[u] = "register" /\ cur'[u] = cur[u]
      BY <2>0
    <3>2. \A u \in Callers : pc'[u] # "idle" => pc[u] # "idle" /\ cur'[u] = cur[u]
      BY <2>0
    <3> QED
      BY <2>0, <3>1, <3>2 DEF PromiseInv, Handling
  <2>3. HandlingInv'
    BY <1>4 DEF EnqueueSend, HandlingInv, IsSubscribe
  <2>4. HandleInv'
    BY <1>4 DEF EnqueueSend, HandleInv, Accepted, Installed, IsSubscribe
  <2>5. RoutedInv'
    BY <1>4 DEF EnqueueSend, RoutedInv, Installed, IsSubscribe
  <2>6. CancelledStaysOff'
    BY <1>4 DEF EnqueueSend, CancelledStaysOff, Cancelling, IsSubscribe
  <2> QED
    BY <2>1, <2>2, <2>3, <2>4, <2>5, <2>6
<1>5. ASSUME NEW t \in Callers, Timeout(t) PROVE CallInv'
  <2>1. IssuedInv'
    BY <1>5 DEF Timeout, TimedOut, IssuedInv
  <2>2. PromiseInv'
    BY <1>5 DEF Timeout, TimedOut, PromiseInv, Handling
  <2>3. HandlingInv'
    BY <1>5 DEF Timeout, TimedOut, HandlingInv, IsSubscribe
  <2>4. HandleInv'
    BY <1>5 DEF Timeout, TimedOut, HandleInv, Accepted, Installed, IsSubscribe
  <2>5. RoutedInv'
    BY <1>5 DEF Timeout, TimedOut, RoutedInv, Installed, IsSubscribe
  <2>6. CancelledStaysOff'
    BY <1>5 DEF Timeout, TimedOut, CancelledStaysOff, Cancelling, IsSubscribe
  <2> QED
    BY <2>1, <2>2, <2>3, <2>4, <2>5, <2>6
<1>6. ASSUME NEW t \in Callers, Return(t) PROVE CallInv'
  <2>1. IssuedInv'
    BY <1>6 DEF Return, IssuedInv
  <2>2. PromiseInv'
    BY <1>6 DEF Return, PromiseInv, Handling
  <2>3. HandlingInv'
    BY <1>6 DEF Return, HandlingInv, IsSubscribe
  <2>4. HandleInv'
    BY <1>6 DEF Return, HandleInv, Accepted, Installed, IsSubscribe
  <2>5. RoutedInv'
    BY <1>6 DEF Return, RoutedInv, Installed, IsSubscribe
  <2>6. CancelledStaysOff'
    BY <1>6 DEF Return, CancelledStaysOff, Cancelling, IsSubscribe
  <2> QED
    BY <2>1, <2>2, <2>3, <2>4, <2>5, <2>6
<1>7. ASSUME NEW t \in Callers, NEW id \in Ids, Collect(t, id) PROVE CallInv'
  <2>1. IssuedInv'
    BY <1>7 DEF Collect, IssuedInv
  <2>2. PromiseInv'
    BY <1>7 DEF Collect, PromiseInv, Handling
  <2>3. HandlingInv'
    BY <1>7 DEF Collect, HandlingInv, IsSubscribe
  <2>4. HandleInv'
    BY <1>7 DEF Collect, HandleInv, Accepted, Installed, IsSubscribe
  <2>5. RoutedInv'
    BY <1>7 DEF Collect, RoutedInv, Installed, IsSubscribe
  <2>6. CancelledStaysOff'
    BY <1>7 DEF Collect, CancelledStaysOff, Cancelling, IsSubscribe
  <2> QED
    BY <2>1, <2>2, <2>3, <2>4, <2>5, <2>6
<1>8. ASSUME NEW t \in Callers, NEW id \in Ids, CancelExchange(t, id) PROVE CallInv'
  <2>1. IssuedInv'
    BY <1>8 DEF CancelExchange, ExchangeInactive, IssuedInv
  <2>2. PromiseInv'
    BY <1>8 DEF CancelExchange, ExchangeInactive, PromiseInv, Handling
  <2>3. HandlingInv'
    BY <1>8 DEF CancelExchange, ExchangeInactive, HandlingInv, PromiseInv, IsSubscribe
  <2>4. HandleInv'
    BY <1>8 DEF CancelExchange, ExchangeInactive, HandleInv, HandlingInv, PromiseInv, Accepted,
       Installed, IsSubscribe
  <2>5. RoutedInv'
    BY <1>8 DEF CancelExchange, ExchangeInactive, RoutedInv, Installed, IsSubscribe
  <2>6. CancelledStaysOff'
    BY <1>8 DEF CancelExchange, ExchangeInactive, CancelledStaysOff, Cancelling, IsSubscribe
  <2> QED
    BY <2>1, <2>2, <2>3, <2>4, <2>5, <2>6
<1>9. ASSUME NEW t \in Callers, CancelErase(t) PROVE CallInv'
  <2> DEFINE c == cur[t]
  <2>0. /\ c \in Ids /\ Accepted(c) /\ ~active[c] /\ call[c].route \in RouteKeys
        /\ subscriptions' = [subscriptions EXCEPT ![call[c].route] = NoCall]
        /\ pc' = [pc EXCEPT ![t] = "enqueue"]
        /\ UNCHANGED <<next_req_id, pending, calls, cur, io>>
    BY <1>9, CallFields DEF CancelErase, HandleInv, Accepted, IsSubscribe
  <2>1. \A id \in Ids : IsSubscribe(id) => call[id].route \in RouteKeys
    BY CallFields DEF IsSubscribe
  <2>2. IssuedInv'
    BY <1>9, <2>0 DEF CancelErase, IssuedInv
  <2>3. PromiseInv'
    BY <1>9, <2>0 DEF CancelErase, PromiseInv, Handling
  <2> HIDE DEF c
  <2>4. HandlingInv'
    BY <2>0 DEF HandlingInv, IsSubscribe
  <2>5. HandleInv'
    BY <2>0 DEF HandleInv, Accepted, Installed, IsSubscribe, NoCall
  <2>6. RoutedInv'
    <3> SUFFICES ASSUME NEW id \in Ids, active[id], result[id] = "ok" \/ Installed(id)
                 PROVE  \/ subscriptions'[call[id].route] = id
                        \/ \E other \in Ids \ {id} :
                              /\ IsSubscribe(other) /\ call[other].route = call[id].route
                              /\ result[other] = "ok" \/ Installed(other)
      BY <2>0 DEF RoutedInv, Installed, IsSubscribe
    <3>1. IsSubscribe(id) /\ call[id].route \in RouteKeys
      BY <2>1 DEF HandleInv, HandlingInv, Accepted
    <3>2. CASE call[id].route = call[c].route
      BY <2>0, <3>2 DEF Accepted
    <3>3. CASE call[id].route # call[c].route
      BY <2>0, <3>1, <3>3 DEF RoutedInv
    <3> QED
      BY <3>2, <3>3
  <2>7. CancelledStaysOff'
    <3> SUFFICES ASSUME NEW id \in Ids, Accepted(id), ~active[id], ~Cancelling(id)'
                 PROVE  subscriptions'[call[id].route] # id
      BY <2>0 DEF CancelledStaysOff, Accepted, IsSubscribe
    <3>1. CASE call[id].route = call[c].route
      BY <2>0, <3>1 DEF NoCall
    <3>2. CASE call[id].route # call[c].route
      <4>1. ~Cancelling(id)
        BY <2>0, <3>2 DEF Cancelling, c
      <4> QED
        BY <2>0, <2>1, <3>2, <4>1 DEF CancelledStaysOff, Accepted
    <3> QED
      BY <3>1, <3>2
  <2> QED
    BY <2>2, <2>3, <2>4, <2>5, <2>6, <2>7
<1>10. CASE IoResponse
  <2> DEFINE id == Head(inbox).id
  <2>0. id \in Ids /\ io_pc = "idle" /\ UNCHANGED <<next_req_id, subscriptions, calls, threads>>
    BY <1>10, DispatchFields, EventFields DEF IoResponse, Dispatches
  <2>1. CASE id \notin pending
    <3>1. UNCHANGED <<pending, io_pc, io_id>>
      BY <1>10, <2>1 DEF IoResponse
    <3> QED
      BY <2>0, <3>1, QuietStep
  <2>2. CASE id \in pending
    <3>1. pending' = pending \ {id} /\ io_pc' = "invoke" /\ io_id' = id
      BY <1>10, <2>2 DEF IoResponse, TakeHandler
    <3>2. result[id] = "unset" /\ ~active[id] /\ fut[id] # "none"
      BY <2>2 DEF PromiseInv
    <3> HIDE DEF id
    <3>3. IssuedInv'
      BY <2>0 DEF IssuedInv
    <3>4. PromiseInv'
      BY <2>0, <3>1, <3>2 DEF PromiseInv, Handling
    <3>5. HandlingInv'
      BY <2>0, <3>1, <3>2 DEF HandlingInv
    <3>6. HandleInv'
      BY <2>0, <3>1 DEF HandleInv, Accepted, Installed, IsSubscribe
    <3>7. RoutedInv'
      BY <2>0, <3>1 DEF RoutedInv, Installed, IsSubscribe
    <3>8. CancelledStaysOff'
      BY <2>0, <3>1 DEF CancelledStaysOff, Cancelling, IsSubscribe
    <3> QED
      BY <3>3, <3>4, <3>5, <3>6, <3>7, <3>8
  <2> QED
    BY <2>1, <2>2
<1>11. CASE IoInvoke
  <2> DEFINE id == io_id
  <2>0. /\ id \in Ids /\ io_pc = "invoke" /\ result[id] = "unset" /\ ~active[id]
        /\ fut[id] # "none" /\ id \notin pending
        /\ UNCHANGED <<next_req_id, pending, subscriptions, call, fut, threads>>
    BY <1>11 DEF IoInvoke, HandlingInv, PromiseInv, Handling
  <2>1. IssuedInv'
    BY <2>0 DEF IssuedInv
  <2>2. CASE IsSubscribe(id) /\ io_ok
    <3>1. /\ active' = [active EXCEPT ![id] = TRUE] /\ result' = result
          /\ io_pc' = "install" /\ io_id' = id
      BY <1>11, <2>2 DEF IoInvoke, Activate
    <3> HIDE DEF id
    <3>2. PromiseInv'
      BY <2>0, <3>1 DEF PromiseInv, Handling, id
    <3>3. HandlingInv'
      BY <2>0, <2>2, <3>1 DEF HandlingInv, IsSubscribe
    <3>4. HandleInv'
      BY <2>0, <3>1 DEF HandleInv, Accepted, Installed, IsSubscribe
    <3>5. RoutedInv'
      BY <2>0, <3>1 DEF RoutedInv, Installed, IsSubscribe
    <3>6. CancelledStaysOff'
      BY <2>0, <3>1 DEF CancelledStaysOff, Cancelling, IsSubscribe
    <3> QED
      BY <2>1, <3>2, <3>3, <3>4, <3>5, <3>6
  <2>3. CASE ~(IsSubscribe(id) /\ io_ok)
    <3>1. /\ result' = [result EXCEPT ![id] = IF io_ok THEN "ok" ELSE "failed"] /\ active' = active
          /\ io_pc' = "idle"
      BY <1>11, <2>3 DEF IoInvoke
    <3> HIDE DEF id
    <3>2. PromiseInv'
      BY <2>0, <3>1 DEF PromiseInv, Handling, id
    <3>3. HandlingInv'
      BY <3>1 DEF HandlingInv
    <3>4. HandleInv'
      BY <2>0, <3>1 DEF HandleInv, Accepted, Installed, IsSubscribe
    <3>5. RoutedInv'
      BY <2>0, <3>1 DEF RoutedInv, Installed, IsSubscribe
    <3>6. CancelledStaysOff'
      BY <2>0, <2>3, <3>1 DEF CancelledStaysOff, Cancelling, IsSubscribe
    <3> QED
      BY <2>1, <3>2, <3>3, <3>4, <3>5, <3>6
  <2> QED
    BY <2>2, <2>3
<1>12. CASE IoInstall
  <2> DEFINE id == io_id
  <2>0. /\ id \in Ids /\ io_pc = "install" /\ IsSubscribe(id) /\ active[id] /\ result[id] = "unset"
        /\ call[id].route \in RouteKeys
        /\ subscriptions' = [subscriptions EXCEPT ![call[id].route] = id]
        /\ io_pc' = "resolve" /\ io_id' = id
        /\ UNCHANGED <<next_req_id, pending, calls, threads>>
    BY <1>12, CallFields DEF IoInstall, HandlingInv, IsSubscribe
  <2>1. \A c \in Ids : IsSubscribe(c) => call[c].route \in RouteKeys
    BY CallFields DEF IsSubscribe
  <2>2. IssuedInv'
    BY <2>0 DEF IssuedInv
  <2>3. PromiseInv'
    BY <2>0 DEF PromiseInv, Handling
  <2> HIDE DEF id
  <2>4. HandlingInv'
    BY <2>0 DEF HandlingInv, IsSubscribe
  <2>5. HandleInv'
    BY <2>0 DEF HandleInv, Accepted, Installed, IsSubscribe, id
  <2>6. RoutedInv'
    <3> SUFFICES ASSUME NEW c \in Ids, active[c], result[c] = "ok" \/ c = id
                 PROVE  \/ subscriptions'[call[c].route] = c
                        \/ \E other \in Ids \ {c} :
                              /\ IsSubscribe(other) /\ call[other].route = call[c].route
                              /\ result[other] = "ok" \/ other = id
      BY <2>0 DEF RoutedInv, Installed, IsSubscribe
    <3>1. CASE c = id
      BY <2>0, <3>1
    <3>2. CASE c # id /\ call[c].route = call[id].route
      BY <2>0, <3>2
    <3>3. CASE c # id /\ call[c].route # call[id].route
      <4>1. IsSubscribe(c) /\ call[c].route \in RouteKeys
        BY <2>1, <3>3 DEF HandleInv, Accepted, id
      <4> QED
        BY <2>0, <3>3, <4>1 DEF RoutedInv, Installed
    <3> QED
      BY <3>1, <3>2, <3>3
  <2>7. CancelledStaysOff'
    <3> SUFFICES ASSUME NEW c \in Ids, Accepted(c), ~active[c], ~Cancelling(c)
                 PROVE  subscriptions'[call[c].route] # c
      BY <2>0 DEF CancelledStaysOff, Accepted, IsSubscribe, Cancelling
    <3> QED
      BY <2>0, <2>1 DEF CancelledStaysOff, Accepted
  <2> QED
    BY <2>2, <2>3, <2>4, <2>5, <2>6, <2>7
<1>13. CASE IoResolve
  <2> DEFINE id == io_id
  <2>0. /\ id \in Ids /\ io_pc = "resolve" /\ IsSubscribe(id) /\ active[id] /\ result[id] = "unset"
        /\ fut[id] # "none" /\ id \notin pending
        /\ result' = [result EXCEPT ![id] = "ok"] /\ io_pc' = "idle"
        /\ UNCHANGED <<next_req_id, pending, subscriptions, call, active, fut, threads>>
    BY <1>13 DEF IoResolve, HandlingInv, PromiseInv, Handling
  <2>1. \A c \in Ids : Installed(c) <=> c = id
    BY <2>0 DEF Installed
  <2> HIDE DEF id
  <2>2. IssuedInv'
    BY <2>0 DEF IssuedInv
  <2>3. PromiseInv'
    BY <2>0 DEF PromiseInv, Handling, id
  <2>4. HandlingInv'
    BY <2>0 DEF HandlingInv
  <2>5. HandleInv'
    BY <2>0, <2>1 DEF HandleInv, Accepted, Installed, IsSubscribe, id
  <2>6. RoutedInv'
    BY <2>0, <2>1 DEF RoutedInv, Installed, IsSubscribe
  <2>7. CancelledStaysOff'
    BY <2>0 DEF CancelledStaysOff, Cancelling, IsSubscribe
  <2> QED
    BY <2>2, <2>3, <2>4, <2>5, <2>6, <2>7
<1>14. CASE UNCHANGED <<next_req_id, pending, subscriptions, calls, threads, io>>
  BY <1>14, QuietStep DEF io
<1>15. CASE IoOpen \/ IoFlushed \/ IoClose \/ IoPush \/ IoCallbackReturns
  <2>1. UNCHANGED <<next_req_id, pending, subscriptions, calls, threads>>
    BY <1>15 DEF IoOpen, IoFlushed, IoClose, CloseKeeps, IoPush, IoCallbackReturns, calls, threads
  <2>2. UNCHANGED <<io_pc, io_id>> \/ (io_pc \notin Busy /\ io_pc' \notin Busy)
    BY <1>15 DEF IoOpen, IoFlushed, IoClose, IoPush, IoCallbackReturns, InCallback, Dispatches, Busy
  <2> QED
    BY <2>1, <2>2, QuietStep
<1>16. CASE \/ InitCheck \/ InitAttach \/ IoDiscard \/ IoFlush \/ IoNoise \/ ConnOpen \/ ConnDrop
            \/ UNCHANGED vars
  <2>1. UNCHANGED <<next_req_id, pending, subscriptions, calls, threads, io_pc, io_id>>
    BY <1>16 DEF InitCheck, InitAttach, IoDiscard, IoFlush, IoNoise, ConnOpen, ConnDrop, vars, calls,
       threads, io
  <2> QED
    BY <2>1, QuietStep
<1>17. ASSUME NEW event, Receives(event) PROVE CallInv'
  BY <1>14, <1>17 DEF Receives
<1> QED
  BY <1>1, <1>2, <1>3, <1>4, <1>5, <1>6, <1>7, <1>8, <1>9, <1>10, <1>11, <1>12, <1>13, <1>14, <1>15,
     <1>16, <1>17
  DEF Next, Caller, IoStep, Environment, Answer, PushOn

\* A call goes from its request id to its promise and its handle without a
\* second thread, a second answer or a cancel of another handle disturbing it.
THEOREM CallInvariant == Spec => []CallInv
<1>1. Init => CallInv
  <2> SUFFICES ASSUME Init PROVE CallInv
    OBVIOUS
  <2>1. IssuedInv
    BY DEF Init, IssuedInv, Ids
  <2>2. PromiseInv /\ HandlingInv
    BY DEF Init, PromiseInv, HandlingInv, Handling
  <2>3. HandleInv
    BY DEF Init, HandleInv
  <2>4. RoutedInv /\ CancelledStaysOff
    BY DEF Init, RoutedInv, CancelledStaysOff, IsSubscribe, Unissued
  <2> QED
    BY <2>1, <2>2, <2>3, <2>4 DEF CallInv
<1> QED
  BY <1>1, CallStep, TypeInvariant, PTL DEF Spec

\* A live handle that the application can hold has its callback installed, or
\* another subscription of its route was acknowledged: no answer, close, timeout
\* or cancel of another route takes a callback away.
THEOREM LiveHandlesRouted == Spec => []LiveHandleRouted
<1>1. \A id \in Ids : Installed(id) => Handling(id)
  BY DEF Installed, Handling
<1>2. CallInv => LiveHandleRouted
  BY <1>1 DEF CallInv, RoutedInv, LiveHandleRouted
<1> QED
  BY <1>2, CallInvariant, PTL

\* The callback of a cancelled handle is never installed again, whoever cancels
\* and whatever answers arrive late.
THEOREM CancelledHandlesOff == Spec => []CancelledStaysOff
BY CallInvariant, PTL DEF CallInv

-----------------------------------------------------------------------------
(* One unsubscribe frame for each handle.                                   *)

\* A cancelled handle stays cancelled: only the I/O thread turns a handle on,
\* and then the promise is still unset.
LEMMA SpentStable ==
    ASSUME TypeInv, CallInv, [Next]_vars, NEW id \in Ids, Spent(id)
    PROVE  Spent(id)'
<1> USE DEF TypeInv, TypeOK, CallersBusy, Spent
<1>1. CASE IoInvoke
  <2>1. result[io_id] = "unset"
    BY <1>1 DEF IoInvoke, CallInv, HandlingInv
  <2> QED
    BY <1>1, <2>1 DEF IoInvoke, Activate
<1>2. CASE IoResolve
  BY <1>2 DEF IoResolve
<1>3. ASSUME NEW t \in Callers, NEW c \in Ids, CancelExchange(t, c) PROVE Spent(id)'
  BY <1>3 DEF CancelExchange
<1>4. CASE UNCHANGED <<active, result>>
  BY <1>4
<1>5. ASSUME NEW t \in Callers,
             \/ \E op \in Ops : Issue(t, op)
             \/ Register(t) \/ EnqueueLock(t) \/ EnqueueSend(t) \/ Timeout(t) \/ Return(t)
             \/ \E c \in Ids : Collect(t, c)
             \/ CancelErase(t)
      PROVE  Spent(id)'
  BY <1>4, <1>5 DEF Issue, Register, EnqueueLock, EnqueueSend, Timeout, Return, Collect,
                    CancelErase, calls
<1>6. CASE \/ InitCheck \/ InitAttach \/ IoDiscard \/ IoOpen \/ IoFlush \/ IoFlushed \/ IoClose
           \/ IoNoise \/ IoResponse \/ IoInstall \/ IoPush \/ IoCallbackReturns
           \/ ConnOpen \/ ConnDrop \/ UNCHANGED vars
  BY <1>4, <1>6
  DEF InitCheck, InitAttach, IoDiscard, IoOpen, IoFlush, IoFlushed, IoClose, IoNoise, IoResponse,
      IoInstall, IoPush, IoCallbackReturns, InCallback, ConnOpen, ConnDrop, vars, calls
<1>7. ASSUME NEW event, Receives(event) PROVE Spent(id)'
  BY <1>4, <1>7 DEF Receives, calls
<1> QED
  BY <1>1, <1>2, <1>3, <1>5, <1>6, <1>7
  DEF Next, Caller, IoStep, Environment, Answer, PushOn

\* The frame a thread is about to send unsubscribes at most its own call.
LEMMA NewFrameUnsubscribes ==
    ASSUME TypeInv, NEW t \in Callers, pc[t] = "send"
    PROVE  /\ NewFrame(t) \in Frames
           /\ \A id \in Ids : Unsubscribes(NewFrame(t), id) <=> msg[t] = "unsubscribe" /\ id = cur[t]
BY DEF TypeInv, TypeOK, CallersBusy, NewFrame, Frames, Unsubscribes

\* The thread whose exchange() found the handle on is the only one to prepare a
\* frame for it; the frame then moves on, and is never copied.
LEMMA OnceStep ==
    ASSUME TypeInv, StrandInv, CallInv, OnceInv, [Next]_vars PROVE OnceInv'
<1> USE DEF OnceInv
<1>0. /\ DOMAIN wire = 1..Len(wire) /\ DOMAIN send_queue = 1..Len(send_queue)
      /\ Len(wire) \in Nat /\ Len(send_queue) \in Nat /\ flushed \in 0..Len(send_queue)
      /\ \A t \in Callers : pc[t] # "idle" => cur[t] \in Ids
      /\ pc \in [Callers -> {"idle", "register", "enqueue", "send", "wait", "erase"}]
      /\ cur \in [Callers -> Ids \cup {NoCall}]
      /\ msg \in [Callers -> {"request", "unsubscribe"}]
      /\ \A t \in Callers : msg[t] = "unsubscribe" => cur[t] \in Ids
  BY LenProperties DEF TypeInv, TypeOK, CallersBusy
<1>1. \A id \in Ids : Spent(id) => Spent(id)'
  BY SpentStable
<1>2. CASE UNCHANGED <<send_queue, flushed, pc, cur, msg>> /\ wire' \in {wire, <<>>}
  BY <1>0, <1>1, <1>2
<1>3. ASSUME NEW t \in Callers,
             \/ \E op \in Ops : Issue(t, op)
             \/ Register(t) \/ EnqueueLock(t) \/ Timeout(t) \/ Return(t) \/ CancelErase(t)
      PROVE  OnceInv'
  <2>1. /\ UNCHANGED <<wire, send_queue, flushed, msg>>
        /\ \A u \in Callers \ {t} : pc'[u] = pc[u] /\ cur'[u] = cur[u]
        /\ \/ pc[t] \in {"idle", "register", "wait"}
           \/ pc'[t] \in {"enqueue", "send"} /\ cur'[t] = cur[t]
    BY <1>0, <1>3 DEF Issue, Register, EnqueueLock, Timeout, Return, CancelErase, sending, io
  <2>2. \A u \in Callers : msg[u] = "unsubscribe" => cur'[u] = cur[u]
    BY <2>1
  <2>3. \A u \in Callers : msg[u] = "unsubscribe" => pc'[u] \in {"erase", "enqueue", "send"}
    BY <2>1
  <2> QED
    BY <1>0, <1>1, <2>1, <2>2, <2>3
<1>4. ASSUME NEW t \in Callers, EnqueueSend(t) PROVE OnceInv'
  <2>1. pc[t] = "send" /\ cur[t] \in Ids
    BY <1>0, <1>4 DEF EnqueueSend
  <2>2. /\ NewFrame(t) \in Frames
        /\ \A id \in Ids : Unsubscribes(NewFrame(t), id) <=> msg[t] = "unsubscribe" /\ id = cur[t]
    BY <2>1, NewFrameUnsubscribes
  <2>3. /\ flushed' = flushed
        /\ \/ UNCHANGED <<wire, send_queue>>
           \/ wire' = Append(wire, NewFrame(t)) /\ send_queue' = <<>> /\ send_queue = <<>>
           \/ send_queue' = Append(send_queue, NewFrame(t)) /\ wire' = wire
    BY <1>4 DEF EnqueueSend, OnWire, io, StrandInv, QueueInv
  <2>4. /\ msg'[t] = "request"
        /\ \A u \in Callers \ {t} : pc'[u] = pc[u] /\ cur'[u] = cur[u] /\ msg'[u] = msg[u]
    BY <1>0, <1>4 DEF EnqueueSend
  <2>5. \A u \in Callers : msg'[u] = "unsubscribe" =>
           /\ u # t /\ msg[u] = "unsubscribe" /\ pc'[u] = pc[u] /\ cur'[u] = cur[u]
           /\ ~Unsubscribes(NewFrame(t), cur[u])
    BY <1>0, <2>1, <2>2, <2>4
  <2> HIDE DEF NewFrame, Unsubscribes, Spent
  <2>6. CASE UNCHANGED <<wire, send_queue>>
    BY <1>0, <1>1, <2>3, <2>5, <2>6
  <2>7. CASE wire' = Append(wire, NewFrame(t)) /\ send_queue' = <<>> /\ send_queue = <<>>
    <3>1. \A i \in DOMAIN wire' :
             \/ i \in DOMAIN wire /\ wire'[i] = wire[i]
             \/ i = Len(wire) + 1 /\ wire'[i] = NewFrame(t)
      BY <2>2, <2>7, AppendElements DEF TypeInv, TypeOK
    <3> QED
      BY <1>0, <1>1, <2>1, <2>2, <2>3, <2>5, <2>7, <3>1
  <2>8. CASE send_queue' = Append(send_queue, NewFrame(t)) /\ wire' = wire
    <3>1. \A i \in DOMAIN send_queue' :
             \/ i \in DOMAIN send_queue /\ send_queue'[i] = send_queue[i]
             \/ i = Len(send_queue) + 1 /\ send_queue'[i] = NewFrame(t)
      BY <2>2, <2>8, AppendElements DEF TypeInv, TypeOK
    <3> QED
      BY <1>0, <1>1, <2>1, <2>2, <2>3, <2>5, <2>8, <3>1
  <2> QED
    BY <2>3, <2>6, <2>7, <2>8
<1>5. CASE IoFlush
  <2>1. /\ flushed' = flushed + 1 /\ flushed + 1 \in DOMAIN send_queue
        /\ UNCHANGED <<send_queue, pc, cur, msg>>
        /\ wire' = wire \/ wire' = Append(wire, send_queue[flushed + 1])
    <3>1. flushed' = flushed + 1 /\ flushed < Len(send_queue)
      BY <1>5 DEF IoFlush
    <3>2. /\ UNCHANGED <<send_queue, pc, cur, msg>>
          /\ wire' = wire \/ wire' = Append(wire, send_queue[flushed + 1])
      BY <1>5 DEF IoFlush, OnWire, threads
    <3> QED
      BY <1>0, <3>1, <3>2
  <2>2. CASE wire' = wire
    BY <1>0, <1>1, <2>1, <2>2
  <2>3. CASE wire' = Append(wire, send_queue[flushed + 1])
    <3>1. \A i \in DOMAIN wire' :
             \/ i \in DOMAIN wire /\ wire'[i] = wire[i]
             \/ i = Len(wire) + 1 /\ wire'[i] = send_queue[flushed + 1]
      BY <2>1, <2>3, FrameFields, AppendElements DEF TypeInv, TypeOK
    <3>2. \A id \in Ids, i \in DOMAIN wire :
             Unsubscribes(wire[i], id) => ~Unsubscribes(send_queue[flushed + 1], id)
      BY <1>0, <2>1
    <3> HIDE DEF Unsubscribes, Spent
    <3>3. /\ \A id \in Ids, i, j \in DOMAIN wire' :
                Unsubscribes(wire'[i], id) /\ Unsubscribes(wire'[j], id) => i = j
          /\ \A id \in Ids, i \in DOMAIN wire' : Unsubscribes(wire'[i], id) => Spent(id)'
      BY <1>0, <1>1, <2>1, <3>1, <3>2
    <3>4. \A id \in Ids, i \in DOMAIN wire', j \in DOMAIN send_queue' :
             Unsubscribes(wire'[i], id) /\ Unsubscribes(send_queue'[j], id) => j <= flushed'
      <4> SUFFICES ASSUME NEW id \in Ids, NEW i \in DOMAIN wire', NEW j \in DOMAIN send_queue,
                          Unsubscribes(wire'[i], id), Unsubscribes(send_queue[j], id)
                   PROVE  j <= flushed + 1
        BY <2>1
      <4>1. CASE i \in DOMAIN wire /\ wire'[i] = wire[i]
        <5>1. j <= flushed
          BY <4>1
        <5> QED
          BY <1>0, <5>1
      <4>2. CASE wire'[i] = send_queue[flushed + 1]
        BY <1>0, <2>1, <4>2
      <4> QED
        BY <3>1, <4>1, <4>2
    <3>5. \A t \in Callers : msg[t] = "unsubscribe" =>
             /\ Spent(cur[t])'
             /\ \A i \in DOMAIN wire' : ~Unsubscribes(wire'[i], cur[t])
      BY <1>0, <1>1, <2>1, <3>1
    <3> QED
      BY <1>0, <1>1, <2>1, <3>3, <3>4, <3>5
  <2> QED
    BY <2>1, <2>2, <2>3
<1>6. CASE IoFlushed
  BY <1>0, <1>1, <1>6 DEF IoFlushed, ClearBacklog, threads
<1>7. ASSUME NEW t \in Callers, NEW id \in Ids, CancelExchange(t, id) PROVE OnceInv'
  <2>1. /\ ~Spent(id) /\ Spent(id)'
    BY <1>7 DEF CancelExchange, ExchangeInactive, Spent, CallInv, PromiseInv, TypeInv, TypeOK
  <2>2. /\ UNCHANGED <<wire, send_queue, flushed>>
        /\ pc'[t] = "erase" /\ cur'[t] = id /\ msg[t] # "unsubscribe"
        /\ \A u \in Callers \ {t} : pc'[u] = pc[u] /\ cur'[u] = cur[u] /\ msg'[u] = msg[u]
    BY <1>0, <1>7 DEF CancelExchange, sending, io
  <2> HIDE DEF Unsubscribes, Spent
  <2>3. /\ \A i \in DOMAIN wire : ~Unsubscribes(wire[i], id)
        /\ \A i \in DOMAIN send_queue : ~Unsubscribes(send_queue[i], id)
        /\ \A u \in Callers : msg[u] = "unsubscribe" => cur[u] # id
    BY <2>1
  <2> QED
    BY <1>0, <1>1, <2>1, <2>2, <2>3
<1>8. ASSUME NEW t \in Callers, NEW id \in Ids, Collect(t, id) PROVE OnceInv'
  BY <1>2, <1>8 DEF Collect, sending, threads, io
<1>9. CASE \/ InitCheck \/ InitAttach \/ IoDiscard \/ IoOpen \/ IoClose \/ IoNoise
           \/ IoResponse \/ IoInvoke \/ IoInstall \/ IoResolve \/ IoPush
           \/ IoCallbackReturns \/ UNCHANGED vars
  BY <1>2, <1>9
  DEF InitCheck, InitAttach, IoDiscard, IoOpen, IoClose, IoNoise, IoResponse, IoInvoke, IoInstall,
      IoResolve, IoPush, IoCallbackReturns, InCallback, vars, sending, threads, io
<1>10. CASE ConnOpen \/ ConnDrop
  BY <1>2, <1>10 DEF ConnOpen, ConnDrop, threads, io
<1>11. ASSUME NEW event, Receives(event) PROVE OnceInv'
  BY <1>2, <1>11 DEF Receives, threads, io
<1> QED
  BY <1>3, <1>4, <1>5, <1>6, <1>7, <1>8, <1>9, <1>10, <1>11
  DEF Next, Caller, IoStep, Environment, Answer, PushOn

\* However many threads cancel copies of one handle, and however opens, closes
\* and flushes fall in between, one unsubscribe frame is made for it.
THEOREM UnsubscribedOnce == Spec => []UnsubscribeOnce
<1>1. Init => OnceInv
  BY DEF Init, OnceInv
<1>2. TypeInv /\ OnceInv => UnsubscribeOnce
  <2> SUFFICES ASSUME TypeInv, OnceInv, NEW id \in Ids
               PROVE  LET frames == wire \o Backlog
                          sent == {i \in DOMAIN frames : Unsubscribes(frames[i], id)}
                          preparing == {t \in Callers : msg[t] = "unsubscribe" /\ cur[t] = id}
                      IN  /\ \A i, j \in sent : i = j
                          /\ \A t, u \in preparing : t = u
                          /\ sent = {} \/ preparing = {}
    BY DEF UnsubscribeOnce, Unsubscribes
  <2> DEFINE frames == wire \o Backlog
  <2>1. /\ DOMAIN wire = 1..Len(wire) /\ DOMAIN send_queue = 1..Len(send_queue)
        /\ Len(wire) \in Nat /\ flushed \in Nat /\ DOMAIN frames = 1..Len(frames)
        /\ \A i \in DOMAIN frames :
              \/ i \in DOMAIN wire /\ frames[i] = wire[i]
              \/ /\ i > Len(wire) /\ i - Len(wire) + flushed \in DOMAIN send_queue
                 /\ frames[i] = send_queue[i - Len(wire) + flushed]
    <3>1. wire \in Seq(Frames) /\ send_queue \in Seq(Frames) /\ flushed \in Nat
      BY DEF TypeInv, TypeOK
    <3>2. /\ DOMAIN wire = 1..Len(wire) /\ DOMAIN send_queue = 1..Len(send_queue)
          /\ Len(wire) \in Nat
      BY <3>1, LenProperties
    <3>3. DOMAIN frames = 1..Len(frames)
      <4>1. frames \in Seq(Frames)
        BY FramesInFlight DEF TypeInv
      <4> HIDE DEF frames
      <4> QED
        BY <4>1, LenProperties
    <3>4. TypeOK
      BY DEF TypeInv
    <3> QED
      BY <3>1, <3>2, <3>3, <3>4, FramesInFlight
  <2> HIDE DEF frames
  <2>2. ASSUME NEW i \in DOMAIN frames, NEW j \in DOMAIN frames,
               Unsubscribes(frames[i], id), Unsubscribes(frames[j], id)
        PROVE  i = j
    <3>1. i \in Nat /\ j \in Nat
      BY <2>1
    <3>2. CASE i \in DOMAIN wire /\ j \in DOMAIN wire
      BY <2>1, <2>2, <3>2 DEF OnceInv
    <3>3. CASE i > Len(wire) /\ j > Len(wire)
      <4>1. i - Len(wire) + flushed = j - Len(wire) + flushed
        BY <2>1, <2>2, <3>3 DEF OnceInv
      <4> QED
        BY <2>1, <3>1, <4>1
    <3>4. ASSUME NEW m \in DOMAIN frames, NEW n \in DOMAIN frames, m \in DOMAIN wire, n > Len(wire)
          PROVE  ~(Unsubscribes(frames[m], id) /\ Unsubscribes(frames[n], id))
      <4>1. n \in Nat /\ ~(n - Len(wire) + flushed <= flushed)
        BY <2>1, <3>4
      <4> QED
        BY <2>1, <3>4, <4>1 DEF OnceInv
    <3> QED
      BY <2>1, <2>2, <3>1, <3>2, <3>3, <3>4
  <2>3. ASSUME NEW i \in DOMAIN frames, Unsubscribes(frames[i], id),
               NEW t \in Callers, msg[t] = "unsubscribe", cur[t] = id
        PROVE  FALSE
    BY <2>1, <2>3 DEF OnceInv
  <2>4. \A t, u \in Callers :
           msg[t] = "unsubscribe" /\ cur[t] = id /\ msg[u] = "unsubscribe" /\ cur[u] = id => t = u
    BY DEF OnceInv
  <2> QED
    BY <2>2, <2>3, <2>4 DEF frames
<1> QED
  BY <1>1, <1>2, OnceStep, TypeInvariant, StrandInvariant, CallInvariant, PTL DEF Spec

-----------------------------------------------------------------------------
(* The client implements its contract.                                      *)

\* Each entry of the handles' state, which is "none" for a call without handle.
LEMMA HandleStates ==
    /\ \A id \in Ids :
          HandleState[id] = IF active[id] THEN "live" ELSE IF Accepted(id) THEN "cancelled" ELSE "none"
    /\ HandleState = [id \in Ids |-> HandleState[id]]
BY DEF HandleState, Accepted

\* Every step of the threads, the transport and the exchange is a step of the
\* contract or leaves what the contract speaks of alone.
LEMMA ContractStep ==
    ASSUME TypeInv, CallInv, [Next]_vars
    PROVE  Contract!Next \/ UNCHANGED Contract!cvars
<1> USE DEF TypeInv, TypeOK, CallersBusy
<1>0. CASE UNCHANGED <<call, active, result, subscriptions, Running>>
  BY <1>0 DEF Contract!cvars, HandleState, IsSubscribe
<1>1. ASSUME NEW t \in Callers, NEW op \in Ops, Issue(t, op)
      PROVE  Contract!Next
  <2>1. next_req_id \in Ids /\ call[next_req_id] = Unissued
    BY <1>1 DEF Issue, CallInv, IssuedInv, Ids
  <2>2. result[next_req_id] = "unset" /\ ~active[next_req_id]
    BY <2>1 DEF CallInv, IssuedInv, PromiseInv
  <2>3. /\ call' = [call EXCEPT ![next_req_id] = op]
        /\ UNCHANGED <<active, result, subscriptions, io_pc, io_id>>
    BY <1>1 DEF Issue, io
  <2>4. HandleState' = HandleState /\ Running' = Running
    BY <2>1, <2>2, <2>3 DEF HandleState, IsSubscribe, Running
  <2> QED
    BY <2>1, <2>3, <2>4 DEF Contract!Next, Contract!Begin
<1>2. CASE IoInvoke
  <2>1. /\ io_pc = "invoke" /\ io_id \in Ids /\ result[io_id] = "unset" /\ ~active[io_id]
        /\ call[io_id] # Unissued
    BY <1>2 DEF IoInvoke, CallInv, HandlingInv, PromiseInv, IssuedInv, Handling
  <2>2. HandleState[io_id] = "none"
    BY <2>1, HandleStates DEF Accepted
  <2>3. Running = NoCall /\ Running' = NoCall /\ UNCHANGED <<call, subscriptions>>
    BY <1>2, <2>1 DEF IoInvoke, Running
  <2>4. CASE IsSubscribe(io_id) /\ io_ok
    <3>1. active' = [active EXCEPT ![io_id] = TRUE] /\ result' = result
      BY <1>2, <2>4 DEF IoInvoke, Activate
    <3>2. HandleState' = [HandleState EXCEPT ![io_id] = "live"]
      BY <2>1, <2>3, <3>1 DEF HandleState, IsSubscribe
    <3>3. Contract!Accept(io_id)
      BY <2>1, <2>2, <2>3, <2>4, <3>1, <3>2 DEF Contract!Accept, IsSubscribe
    <3> QED
      BY <2>1, <3>3 DEF Contract!Next
  <2>5. CASE ~(IsSubscribe(io_id) /\ io_ok)
    <3> DEFINE outcome == IF io_ok THEN "ok" ELSE "failed"
    <3>1. active' = active /\ result' = [result EXCEPT ![io_id] = outcome]
      BY <1>2, <2>5 DEF IoInvoke
    <3>2. HandleState' = HandleState
      BY <2>1, <2>3, <2>5, <3>1 DEF HandleState, IsSubscribe
    <3>3. Contract!Resolve(io_id, outcome)
      BY <2>1, <2>2, <2>3, <2>5, <3>1, <3>2 DEF Contract!Resolve, IsSubscribe
    <3> QED
      BY <2>1, <3>3 DEF Contract!Next
  <2> QED
    BY <2>4, <2>5
<1>3. CASE IoInstall
  <2>1. io_id \in Ids /\ active[io_id] /\ result[io_id] = "unset"
    BY <1>3 DEF IoInstall, CallInv, HandlingInv
  <2>2. /\ subscriptions' = [subscriptions EXCEPT ![call[io_id].route] = io_id]
        /\ UNCHANGED <<call, active, result>> /\ Running' = Running
    BY <1>3 DEF IoInstall, Running, calls
  <2>3. HandleState[io_id] = "live" /\ HandleState' = HandleState
    BY <2>1, <2>2 DEF HandleState, IsSubscribe
  <2> QED
    BY <2>1, <2>2, <2>3 DEF Contract!Next, Contract!Install
<1>4. CASE IoResolve
  <2>1. /\ io_id \in Ids /\ active[io_id] /\ result[io_id] = "unset" /\ IsSubscribe(io_id)
        /\ call[io_id] # Unissued
    BY <1>4 DEF IoResolve, CallInv, HandlingInv, PromiseInv, IssuedInv, Handling
  <2>2. /\ result' = [result EXCEPT ![io_id] = "ok"]
        /\ UNCHANGED <<call, active, subscriptions>> /\ Running' = Running
    BY <1>4 DEF IoResolve, Running
  <2>3. HandleState[io_id] = "live" /\ HandleState' = HandleState
    BY <2>1, <2>2 DEF HandleState, IsSubscribe
  <2>4. Contract!Resolve(io_id, "ok")
    BY <2>1, <2>2, <2>3 DEF Contract!Resolve, IsSubscribe
  <2> QED
    BY <2>1, <2>4 DEF Contract!Next
<1>5. ASSUME NEW t \in Callers, NEW id \in Ids, CancelExchange(t, id)
      PROVE  Contract!Next
  <2>1. Accepted(id) /\ active[id]
    BY <1>5 DEF CancelExchange, ExchangeInactive, CallInv, PromiseInv, HandlingInv, HandleInv, Accepted
  <2>2. /\ active' = [active EXCEPT ![id] = FALSE]
        /\ UNCHANGED <<call, result, subscriptions>> /\ Running' = Running
    BY <1>5 DEF CancelExchange, Running, io
  <2>3. HandleState[id] = "live" /\ HandleState' = [HandleState EXCEPT ![id] = "cancelled"]
    BY <2>1, <2>2 DEF HandleState, IsSubscribe, Accepted
  <2>4. Contract!Cancel(id)
    BY <2>1, <2>2, <2>3 DEF Contract!Cancel, Accepted
  <2> QED
    BY <2>4 DEF Contract!Next
<1>6. ASSUME NEW t \in Callers, CancelErase(t)
      PROVE  Contract!Next
  <2> DEFINE r == call[cur[t]].route
  <2>1. cur[t] \in Ids /\ Accepted(cur[t]) /\ ~active[cur[t]]
    BY <1>6 DEF CancelErase, CallInv, HandleInv
  <2>2. r \in RouteKeys /\ HandleState[cur[t]] = "cancelled"
    BY <2>1, CallFields DEF HandleState, Accepted, IsSubscribe
  <2>3. /\ subscriptions' = [subscriptions EXCEPT ![r] = NoCall]
        /\ UNCHANGED <<call, active, result>> /\ Running' = Running
    BY <1>6 DEF CancelErase, Running, calls, io
  <2>4. HandleState' = HandleState
    BY <2>3 DEF HandleState, IsSubscribe
  <2>5. Contract!Erase(r)
    BY <2>1, <2>2, <2>3, <2>4 DEF Contract!Erase
  <2> QED
    BY <2>2, <2>5 DEF Contract!Next
<1>7. CASE IoPush
  <2> DEFINE r == Head(inbox).route
  <2>1. r \in RouteKeys /\ io_pc = "idle" /\ UNCHANGED <<call, active, result, subscriptions>>
    BY <1>7, DispatchFields, EventFields DEF IoPush, Dispatches, calls
  <2>2. HandleState' = HandleState /\ Running = NoCall
    BY <2>1 DEF HandleState, IsSubscribe, Running
  <2>3. CASE subscriptions[r] # NoCall
    <3>1. Running' = subscriptions[r]
      BY <1>7, <2>3 DEF IoPush, HasCallback, Running
    <3>2. Contract!Deliver(r)
      BY <2>1, <2>2, <2>3, <3>1 DEF Contract!Deliver
    <3> QED
      BY <2>1, <3>2 DEF Contract!Next
  <2>4. CASE subscriptions[r] = NoCall
    <3>1. UNCHANGED <<io_pc, io_id>>
      BY <1>7, <2>4 DEF IoPush, HasCallback
    <3> QED
      BY <1>0, <2>1, <3>1 DEF Running
  <2> QED
    BY <2>3, <2>4
<1>8. CASE IoCallbackReturns
  <2>1. /\ UNCHANGED <<call, active, result, subscriptions>> /\ Running' = NoCall
        /\ HandleState' = HandleState
    BY <1>8 DEF IoCallbackReturns, Running, calls, HandleState, IsSubscribe
  <2>2. CASE Running = NoCall
    BY <1>0, <2>1, <2>2
  <2>3. CASE Running # NoCall
    BY <2>1, <2>3 DEF Contract!Next, Contract!Finish
  <2> QED
    BY <2>2, <2>3
<1>9. ASSUME NEW t \in Callers,
             \/ Register(t) \/ EnqueueLock(t) \/ EnqueueSend(t) \/ Timeout(t) \/ Return(t)
             \/ \E id \in Ids : Collect(t, id)
      PROVE  Contract!Next \/ UNCHANGED Contract!cvars
  <2>1. UNCHANGED <<call, active, result, subscriptions, io_pc, io_id>>
    BY <1>9 DEF Register, EnqueueLock, EnqueueSend, Timeout, Return, Collect, calls, io
  <2> QED
    BY <1>0, <2>1 DEF Running
<1>10. CASE IoOpen \/ IoFlushed \/ IoClose \/ IoResponse
  <2>1. UNCHANGED <<call, active, result, subscriptions>>
    BY <1>10 DEF IoOpen, IoFlushed, IoClose, CloseKeeps, IoResponse, calls
  <2>2. UNCHANGED Running
    BY <1>10 DEF IoOpen, IoFlushed, IoClose, IoResponse, Dispatches, Running
  <2> QED
    BY <1>0, <2>1, <2>2
<1>11. CASE \/ InitCheck \/ InitAttach \/ IoDiscard \/ IoFlush \/ IoNoise \/ ConnOpen \/ ConnDrop
            \/ UNCHANGED vars
  <2>1. UNCHANGED <<call, active, result, subscriptions, io_pc, io_id>>
    BY <1>11 DEF InitCheck, InitAttach, IoDiscard, IoFlush, IoNoise, ConnOpen, ConnDrop, vars, calls, io
  <2> QED
    BY <1>0, <2>1 DEF Running
<1>12. ASSUME NEW event, Receives(event) PROVE Contract!Next \/ UNCHANGED Contract!cvars
  <2>1. UNCHANGED <<call, active, result, subscriptions, io_pc, io_id>>
    BY <1>12 DEF Receives, calls, io
  <2> QED
    BY <1>0, <2>1 DEF Running
<1> QED
  BY <1>1, <1>2, <1>3, <1>4, <1>5, <1>6, <1>7, <1>8, <1>9, <1>10, <1>11, <1>12
  DEF Next, Caller, IoStep, Environment, Answer, PushOn

\* Threads, locks, queues and a connection that comes and goes show an
\* application nothing but the contract: one result for a call, a callback only
\* of an accepted subscription on its route, no handle that comes back to life.
THEOREM ContractImplemented == Spec => RefinesContract
<1>1. Init => Contract!Init
  BY DEF Init, Contract!Init, HandleState, Running, IsSubscribe, Unissued
<1>2. TypeInv /\ CallInv /\ [Next]_vars => [Contract!Next]_(Contract!cvars)
  BY ContractStep
<1> QED
  BY <1>1, <1>2, TypeInvariant, CallInvariant, PTL DEF Spec, RefinesContract, Contract!Spec
=============================================================================
