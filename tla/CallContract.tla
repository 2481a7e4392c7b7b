---------------------------- MODULE CallContract ----------------------------
(***************************************************************************)
(* What ExchangeWsClient promises an application, without connection,       *)
(* queues, locks or threads: a call has one result; a subscription that is  *)
(* accepted becomes live, installs its callback on its route and only then  *)
(* has a result; a callback runs only when it is the one installed on its   *)
(* route, one at a time; a cancelled handle never comes back to life.       *)
(***************************************************************************)
EXTENDS Integers

CONSTANTS Ids, RouteKeys, Ops, Unissued, NoCall

VARIABLES
    call,       \* the operation and route of each call
    result,     \* "unset", "ok", "failed"
    handle,     \* "none", "live", "cancelled"
    installed,  \* route key -> the call whose callback is installed, or NoCall
    running     \* the call whose callback is running, or NoCall

cvars == <<call, result, handle, installed, running>>

Init ==
    /\ call = [id \in Ids |-> Unissued]
    /\ result = [id \in Ids |-> "unset"]
    /\ handle = [id \in Ids |-> "none"]
    /\ installed = [r \in RouteKeys |-> NoCall]
    /\ running = NoCall

Begin(id, op) ==
    /\ call[id] = Unissued
    /\ call' = [call EXCEPT ![id] = op]
    /\ UNCHANGED <<result, handle, installed, running>>

Accept(id) ==
    /\ call[id].op = "subscribe" /\ result[id] = "unset" /\ handle[id] = "none"
    /\ handle' = [handle EXCEPT ![id] = "live"]
    /\ UNCHANGED <<call, result, installed, running>>

Install(id) ==
    /\ handle[id] = "live" /\ result[id] = "unset"
    /\ installed' = [installed EXCEPT ![call[id].route] = id]
    /\ UNCHANGED <<call, result, handle, running>>

Resolve(id, outcome) ==
    /\ call[id] # Unissued /\ result[id] = "unset"
    /\ handle[id] = IF outcome = "ok" /\ call[id].op = "subscribe" THEN "live" ELSE "none"
    /\ result' = [result EXCEPT ![id] = outcome]
    /\ UNCHANGED <<call, handle, installed, running>>

Cancel(id) ==
    /\ handle[id] = "live" /\ result[id] = "ok"
    /\ handle' = [handle EXCEPT ![id] = "cancelled"]
    /\ UNCHANGED <<call, result, installed, running>>

Erase(r) ==
    /\ \E id \in Ids : handle[id] = "cancelled" /\ call[id].route = r
    /\ installed' = [installed EXCEPT ![r] = NoCall]
    /\ UNCHANGED <<call, result, handle, running>>

Deliver(r) ==
    /\ running = NoCall /\ installed[r] # NoCall
    /\ running' = installed[r]
    /\ UNCHANGED <<call, result, handle, installed>>

Finish ==
    /\ running # NoCall
    /\ running' = NoCall
    /\ UNCHANGED <<call, result, handle, installed>>

Next ==
    \/ \E id \in Ids :
          \/ \E op \in Ops : Begin(id, op)
          \/ Accept(id) \/ Install(id) \/ Cancel(id)
          \/ \E outcome \in {"ok", "failed"} : Resolve(id, outcome)
    \/ \E r \in RouteKeys : Erase(r) \/ Deliver(r)
    \/ Finish

Spec == Init /\ [][Next]_cvars
=============================================================================
