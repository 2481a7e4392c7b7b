--------------------------- MODULE ReconnectSession -------------------------
(***************************************************************************)
(* exchange::ws::WsReconnectSession: the thread that reopens a connection   *)
(* (include/exchange/common/reconnect_session.hpp and .inl).                *)
(*                                                                         *)
(* Actors: the owner, which calls start() and stop() and destroys the       *)
(* session; the worker thread; reporters, any threads that call            *)
(* scheduleReconnect(). The two callbacks are the caller's code: all that   *)
(* is known of them is when they run, whether connect threw and whether a   *)
(* connection is open afterwards (link).                                   *)
(*                                                                         *)
(* mu_ is a variable because what matters is who holds it between the       *)
(* worker's test of its condition and its going to sleep. Each wait of the  *)
(* worker has four positions: about to lock, to test, to sleep (the last    *)
(* two holding mu_) and asleep. Durations count in units of a backoff.      *)
(***************************************************************************)
EXTENDS Integers

CONSTANTS
    Reporters,      \* threads that call scheduleReconnect
    Owner, Worker,  \* the other holders of mu_
    Nobody,         \* the owner of a free mutex
    MinBackoff,     \* min_backoff_
    MaxBackoff,     \* kMaxBackoff
    MaxReports,     \* bound: calls of scheduleReconnect
    MaxStarts       \* bound: calls of start

ASSUME ActorsAssumption ==
    /\ Owner # Worker /\ Nobody \notin {Owner, Worker}
    /\ {Owner, Worker, Nobody} \cap Reporters = {}
ASSUME BackoffAssumption ==
    MinBackoff \in Nat \ {0} /\ MaxBackoff \in Nat /\ MinBackoff <= MaxBackoff
ASSUME LimitsAssumption == MaxReports \in Nat /\ MaxStarts \in Nat

VARIABLES
    owner_pc,               \* where start() or stop() is, or what they left
    worker_pc,              \* where workerLoop() is
    reporter_pc,            \* where scheduleReconnect() is
    mu,                     \* owner of mu_
    stop_requested,         \* stop_requested_
    reconnect_requested,    \* reconnect_requested_
    backoff,                \* backoff of the attempt under way
    failures,               \* its failed connects since the request was taken
    link,                   \* is a connection open?
    reports, starts         \* calls so far

flags == <<stop_requested, reconnect_requested>>
timing == <<backoff, failures>>
counts == <<reports, starts>>
vars == <<owner_pc, worker_pc, reporter_pc, mu, flags, timing, link, counts>>

-----------------------------------------------------------------------------
Callbacks == {"disconnect", "connect"}
Attempt == {"backoff_lock", "backoff_test", "backoff_sleep", "backoff_asleep", "backoff_over"}
           \cup Callbacks
InLoop == {"wait_lock", "wait_test", "wait_sleep", "wait_asleep"} \cup Attempt

Init ==
    /\ owner_pc = "fresh" /\ worker_pc = "none"
    /\ reporter_pc = [r \in Reporters |-> "idle"]
    /\ mu = Nobody
    /\ stop_requested = FALSE /\ reconnect_requested = FALSE
    /\ backoff = MinBackoff /\ failures = 0
    /\ link = FALSE
    /\ reports = 0 /\ starts = 0

-----------------------------------------------------------------------------
(* The parts the properties turn on, each after the slip it is tried with.  *)

\* scheduleReconnect: std::lock_guard lk(mu_)
NoReporterLock(r) == UNCHANGED mu
ReporterLock(r) == mu = Nobody /\ mu' = r

\* cv_.notify_all(): a sleeping worker goes on to lock mu_ again.
NotifyNobody == UNCHANGED worker_pc
NotifyAll ==
    worker_pc' = CASE worker_pc = "wait_asleep" -> "wait_lock"
                   [] worker_pc = "backoff_asleep" -> "backoff_lock"
                   [] OTHER -> worker_pc

\* if (worker_.joinable()) worker_.join()
JoinOnlyFresh == TRUE
Joined == worker_pc \in {"none", "exited"}

\* try { disconnect_fn_(); } catch (...) {}
CloseLink == link' = FALSE

\* auto backoff = min_backoff_
KeepBackoff == UNCHANGED backoff
FreshBackoff == backoff' = MinBackoff

\* backoff = std::min(backoff * 2, kMaxBackoff)
Doubled == backoff * 2
NextBackoff == IF backoff * 2 < MaxBackoff THEN backoff * 2 ELSE MaxBackoff

\* catch: the loop goes on to the next wait.
GiveUp == "wait_lock"
AfterThrow == "backoff_lock"

\* connect_fn_ returned: break
ForgetRequests == reconnect_requested' = FALSE
KeepRequests == UNCHANGED reconnect_requested

-----------------------------------------------------------------------------
(* The owner.                                                              *)

\* start(): connect_fn_() on the calling thread ...
Start ==
    /\ owner_pc \in {"fresh", "stopped"} /\ starts < MaxStarts
    /\ starts' = starts + 1
    /\ owner_pc' = "start"
    /\ UNCHANGED <<worker_pc, reporter_pc, mu, flags, timing, link, reports>>

\* ... then the worker.
StartConnects ==
    /\ owner_pc = "start"
    /\ link' = TRUE
    /\ worker_pc' = "wait_lock"
    /\ owner_pc' = "running"
    /\ UNCHANGED <<reporter_pc, mu, flags, timing, counts>>

\* connect_fn_ throws, perhaps with a connection open, and so does start().
StartThrows ==
    /\ owner_pc = "start"
    /\ link' \in {link, TRUE}
    /\ owner_pc' = "fresh"
    /\ UNCHANGED <<worker_pc, reporter_pc, mu, flags, timing, counts>>

\* stop(), called also by the destructor, whatever came before
Stop ==
    /\ owner_pc \in {"fresh", "running", "stopped"}
    /\ owner_pc' = "stop_lock"
    /\ UNCHANGED <<worker_pc, reporter_pc, mu, flags, timing, link, counts>>

StopLock ==
    /\ owner_pc = "stop_lock"
    /\ mu = Nobody /\ mu' = Owner
    /\ owner_pc' = "stop_flag"
    /\ UNCHANGED <<worker_pc, reporter_pc, flags, timing, link, counts>>

StopFlag ==
    /\ owner_pc = "stop_flag"
    /\ stop_requested' = TRUE
    /\ mu' = Nobody
    /\ owner_pc' = "stop_notify"
    /\ UNCHANGED <<worker_pc, reporter_pc, reconnect_requested, timing, link, counts>>

StopNotify ==
    /\ owner_pc = "stop_notify"
    /\ NotifyAll
    /\ owner_pc' = "join"
    /\ UNCHANGED <<reporter_pc, mu, flags, timing, link, counts>>

StopJoin ==
    /\ owner_pc = "join" /\ Joined
    /\ owner_pc' = "disconnect"
    /\ UNCHANGED <<worker_pc, reporter_pc, mu, flags, timing, link, counts>>

StopDisconnect ==
    /\ owner_pc = "disconnect"
    /\ link' = FALSE
    /\ owner_pc' = "stopped"
    /\ UNCHANGED <<worker_pc, reporter_pc, mu, flags, timing, counts>>

-----------------------------------------------------------------------------
(* scheduleReconnect.                                                      *)

\* if (stop_requested_) return, read without mu_
Schedule(r) ==
    /\ reporter_pc[r] = "idle" /\ ~stop_requested /\ reports < MaxReports
    /\ reports' = reports + 1
    /\ reporter_pc' = [reporter_pc EXCEPT ![r] = "lock"]
    /\ UNCHANGED <<owner_pc, worker_pc, mu, flags, timing, link, starts>>

ScheduleLock(r) ==
    /\ reporter_pc[r] = "lock" /\ ReporterLock(r)
    /\ reporter_pc' = [reporter_pc EXCEPT ![r] = "flag"]
    /\ UNCHANGED <<owner_pc, worker_pc, flags, timing, link, counts>>

ScheduleFlag(r) ==
    /\ reporter_pc[r] = "flag"
    /\ reconnect_requested' = TRUE
    /\ mu' = IF mu = r THEN Nobody ELSE mu
    /\ reporter_pc' = [reporter_pc EXCEPT ![r] = "notify"]
    /\ UNCHANGED <<owner_pc, worker_pc, stop_requested, timing, link, counts>>

ScheduleNotify(r) ==
    /\ reporter_pc[r] = "notify"
    /\ NotifyAll
    /\ reporter_pc' = [reporter_pc EXCEPT ![r] = "idle"]
    /\ UNCHANGED <<owner_pc, mu, flags, timing, link, counts>>

Reporter(r) == Schedule(r) \/ ScheduleLock(r) \/ ScheduleFlag(r) \/ ScheduleNotify(r)

-----------------------------------------------------------------------------
(* workerLoop.                                                             *)

WorkerGoes(from, to) ==
    /\ worker_pc = from /\ worker_pc' = to
    /\ UNCHANGED <<owner_pc, reporter_pc, counts>>

\* cv_.wait(lk, pred): lock, then test; asleep it holds nothing.
WaitLock ==
    /\ WorkerGoes("wait_lock", "wait_test")
    /\ mu = Nobody /\ mu' = Worker
    /\ UNCHANGED <<flags, timing, link>>

WaitTest ==
    /\ WorkerGoes("wait_test", "wait_sleep")
    /\ ~stop_requested /\ ~reconnect_requested
    /\ UNCHANGED <<mu, flags, timing, link>>

WaitSleep ==
    /\ WorkerGoes("wait_sleep", "wait_asleep")
    /\ mu' = Nobody
    /\ UNCHANGED <<flags, timing, link>>

\* The request is taken under mu_, before the attempt it asks for.
WaitTake ==
    /\ WorkerGoes("wait_test", "backoff_lock")
    /\ ~stop_requested /\ reconnect_requested
    /\ reconnect_requested' = FALSE
    /\ mu' = Nobody
    /\ FreshBackoff /\ failures' = 0
    /\ UNCHANGED <<stop_requested, link>>

\* cv_.wait_for(lk, backoff, pred)
BackoffLock ==
    /\ WorkerGoes("backoff_lock", "backoff_test")
    /\ mu = Nobody /\ mu' = Worker
    /\ UNCHANGED <<flags, timing, link>>

BackoffTest ==
    /\ WorkerGoes("backoff_test", "backoff_sleep")
    /\ ~stop_requested
    /\ UNCHANGED <<mu, flags, timing, link>>

BackoffSleep ==
    /\ WorkerGoes("backoff_sleep", "backoff_asleep")
    /\ mu' = Nobody
    /\ UNCHANGED <<flags, timing, link>>

\* The time is up, and mu_ is to be locked a last time.
BackoffElapses ==
    /\ WorkerGoes("backoff_asleep", "backoff_over")
    /\ UNCHANGED <<mu, flags, timing, link>>

BackoffOver ==
    /\ WorkerGoes("backoff_over", "disconnect")
    /\ mu = Nobody /\ ~stop_requested
    /\ UNCHANGED <<mu, flags, timing, link>>

\* Each test of stop_requested_ under mu_ ends the thread.
WorkerStops ==
    /\ \/ WorkerGoes("wait_test", "exited") /\ mu' = Nobody
       \/ WorkerGoes("backoff_test", "exited") /\ mu' = Nobody
       \/ WorkerGoes("backoff_over", "exited") /\ mu = Nobody /\ UNCHANGED mu
    /\ stop_requested
    /\ UNCHANGED <<flags, timing, link>>

\* A spurious wakeup of either wait tests again.
WakesSpuriously ==
    /\ worker_pc \in {"wait_asleep", "backoff_asleep"}
    /\ NotifyAll
    /\ UNCHANGED <<owner_pc, reporter_pc, mu, flags, timing, link, counts>>

WorkerDisconnects ==
    /\ WorkerGoes("disconnect", "connect")
    /\ CloseLink
    /\ UNCHANGED <<mu, flags, timing>>

ConnectSucceeds ==
    /\ WorkerGoes("connect", "wait_lock")
    /\ link' = TRUE
    /\ KeepRequests
    /\ UNCHANGED <<mu, stop_requested, timing>>

\* connect_fn_ throws. The count of failures stops where it no longer matters.
ConnectThrows ==
    /\ WorkerGoes("connect", AfterThrow)
    /\ link' \in BOOLEAN
    /\ backoff' = NextBackoff
    /\ failures' = IF failures < MaxBackoff THEN failures + 1 ELSE failures
    /\ UNCHANGED <<mu, flags>>

WorkerStep ==
    \/ WaitLock \/ WaitTest \/ WaitSleep \/ WaitTake
    \/ BackoffLock \/ BackoffTest \/ BackoffSleep \/ BackoffElapses \/ BackoffOver \/ WorkerStops
    \/ WorkerDisconnects \/ ConnectSucceeds \/ ConnectThrows

\* The connection drops by itself.
LinkDrops ==
    /\ link /\ link' = FALSE
    /\ UNCHANGED <<owner_pc, worker_pc, reporter_pc, mu, flags, timing, counts>>

-----------------------------------------------------------------------------
OwnerStep == StartConnects \/ StartThrows \/ StopLock \/ StopFlag \/ StopNotify \/ StopJoin \/ StopDisconnect

Next ==
    \/ Start \/ Stop \/ OwnerStep
    \/ \E r \in Reporters : Reporter(r)
    \/ WorkerStep \/ WakesSpuriously
    \/ LinkDrops

Spec == Init /\ [][Next]_vars

\* Threads inside the session keep running and the callbacks return. A timed wait
\* ends: wait_for with a predicate keeps one deadline through spurious wakeups. A
\* thread waiting for mu_ gets it if it is free again and again: the worker holds
\* it only to test. Nobody has to call anything, and connect_fn_ may throw for
\* ever.
Fairness ==
    /\ WF_vars(OwnerStep) /\ WF_vars(WorkerStep) /\ SF_vars(StopLock) /\ SF_vars(BackoffElapses)
    /\ \A r \in Reporters :
          SF_vars(ScheduleLock(r)) /\ WF_vars(ScheduleFlag(r)) /\ WF_vars(ScheduleNotify(r))

FairSpec == Spec /\ Fairness

-----------------------------------------------------------------------------
(* Properties.                                                             *)

TypeOK ==
    /\ owner_pc \in {"fresh", "start", "running", "stop_lock", "stop_flag", "stop_notify", "join",
                     "disconnect", "stopped"}
    /\ worker_pc \in {"none", "exited"} \cup InLoop
    /\ reporter_pc \in [Reporters -> {"idle", "lock", "flag", "notify"}]
    /\ mu \in {Nobody, Owner, Worker} \cup Reporters
    /\ stop_requested \in BOOLEAN /\ reconnect_requested \in BOOLEAN
    /\ backoff \in MinBackoff..MaxBackoff /\ failures \in 0..MaxBackoff
    /\ link \in BOOLEAN
    /\ reports \in 0..MaxReports /\ starts \in 0..MaxStarts

\* No wakeup is missed: the worker is never asleep on a flag that is already
\* set, unless the thread that set it has still to notify.
NoMissedWakeup ==
    /\ worker_pc = "wait_asleep" /\ reconnect_requested =>
          \E r \in Reporters : reporter_pc[r] = "notify"
    /\ worker_pc \in {"wait_asleep", "backoff_asleep"} /\ stop_requested =>
          owner_pc = "stop_notify"

\* The caller's two callbacks never run in the owner and in the worker at once,
\* so what they capture needs no lock of its own.
CallbacksExclusive == worker_pc \in Callbacks => owner_pc \notin {"start", "disconnect"}

\* Once stop() has returned no connection is open and no thread will open one,
\* also if stop() met the worker inside connect_fn_.
StoppedIsDown == owner_pc = "stopped" => ~link /\ worker_pc \notin InLoop

\* A connection is reopened only after the old one was torn down, also when
\* connect_fn_ threw with a connection already open.
ReconnectFromDown == worker_pc = "connect" => ~link

\* The n-th retry of an attempt waits min(2^n * minBackoff, kMaxBackoff), and
\* each request starts over (reconnect_session.hpp:35-36).
BackoffSchedule ==
    worker_pc \in Attempt =>
       backoff = LET doubled == MinBackoff * 2^failures
                 IN  IF doubled < MaxBackoff THEN doubled ELSE MaxBackoff

\* An attempt ends with connect_fn_ having returned or with stop(), however often
\* connect_fn_ throws.
NeverGivesUp ==
    [][(worker_pc \in Attempt /\ worker_pc' \notin Attempt) => (link' \/ stop_requested)]_vars

\* stop() returns, whatever the worker is doing and however often it fails.
StopReturns == owner_pc = "stop_lock" ~> owner_pc = "stopped"

\* Every request is followed by a teardown and a new connect, also one that came
\* while an earlier request was being served.
RequestServed ==
    reconnect_requested /\ worker_pc \in InLoop ~> worker_pc = "disconnect" \/ stop_requested

=============================================================================
