--------------------------- MODULE ReconnectProofs --------------------------
(***************************************************************************)
(* Theorems about ReconnectSession for any set of reporters and any bounds. *)
(* Most rest on one inductive invariant: who holds mu_ where, what a        *)
(* sleeping worker may not have missed, and when a worker exists. The       *)
(* schedule of the backoff needs lemmas on powers of two besides.           *)
(***************************************************************************)
EXTENDS ReconnectSession, TLAPS, FiniteSetTheorems, FunctionTheorems

\* mu_ is held exactly between the steps where the code holds it.
MuInv ==
    /\ mu = Worker <=> worker_pc \in {"wait_test", "wait_sleep", "backoff_test", "backoff_sleep"}
    /\ mu = Owner <=> owner_pc = "stop_flag"
    /\ \A r \in Reporters : mu = r <=> reporter_pc[r] = "flag"

\* A worker that has tested its condition has seen the flags as they still are.
TestedInv ==
    /\ worker_pc = "wait_sleep" => ~stop_requested /\ ~reconnect_requested
    /\ worker_pc = "backoff_sleep" => ~stop_requested

\* Outside "running" and the first steps of stop() there is no worker.
WorkerInv == owner_pc \in {"fresh", "start", "disconnect", "stopped"} => worker_pc \notin InLoop

LinkInv ==
    /\ owner_pc = "stopped" => ~link
    /\ worker_pc = "connect" => ~link

IInv == TypeOK /\ MuInv /\ TestedInv /\ NoMissedWakeup /\ WorkerInv /\ LinkInv

-----------------------------------------------------------------------------
\* What a new request resets backoff and failures to is within their ranges.
LEMMA FreshInRange == MinBackoff \in MinBackoff..MaxBackoff /\ 0 \in 0..MaxBackoff
BY BackoffAssumption

\* Each step of the owner, a reporter, the worker or the connection keeps IInv.
LEMMA SessionStep ==
    ASSUME IInv, [Next]_vars PROVE IInv'
<1> USE ActorsAssumption, BackoffAssumption, LimitsAssumption
<1> USE DEF IInv, TypeOK, MuInv, TestedInv, NoMissedWakeup, WorkerInv, LinkInv,
            InLoop, Attempt, Callbacks
<1>1. CASE Start
  BY <1>1 DEF Start, flags, timing
<1>2. CASE StartConnects
  BY <1>2 DEF StartConnects, flags, timing, counts
<1>3. CASE StartThrows
  BY <1>3 DEF StartThrows, flags, timing, counts
<1>4. CASE Stop
  BY <1>4 DEF Stop, flags, timing, counts
<1>5. CASE StopLock
  BY <1>5 DEF StopLock, flags, timing, counts
<1>6. CASE StopFlag
  BY <1>6 DEF StopFlag, timing, counts
<1>7. CASE StopNotify
  BY <1>7 DEF StopNotify, NotifyAll, flags, timing, counts
<1>8. CASE StopJoin
  BY <1>8 DEF StopJoin, Joined, flags, timing, counts
<1>9. CASE StopDisconnect
  BY <1>9 DEF StopDisconnect, flags, timing, counts
<1>10. ASSUME NEW r \in Reporters, Schedule(r) PROVE IInv'
  BY <1>10 DEF Schedule, flags, timing
<1>11. ASSUME NEW r \in Reporters, ScheduleLock(r) PROVE IInv'
  BY <1>11 DEF ScheduleLock, ReporterLock, flags, timing, counts
<1>12. ASSUME NEW r \in Reporters, ScheduleFlag(r) PROVE IInv'
  BY <1>12 DEF ScheduleFlag, timing, counts
<1>13. ASSUME NEW r \in Reporters, ScheduleNotify(r) PROVE IInv'
  BY <1>13 DEF ScheduleNotify, NotifyAll, flags, timing, counts
<1>14. CASE WaitLock \/ WaitTest \/ WaitSleep
  BY <1>14 DEF WaitLock, WaitTest, WaitSleep, WorkerGoes, flags, timing, counts
<1>15. CASE WaitTake
  <2>1. backoff' \in MinBackoff..MaxBackoff /\ failures' \in 0..MaxBackoff
    BY <1>15, FreshInRange DEF WaitTake, FreshBackoff
  <2> QED
    BY <1>15, <2>1 DEF WaitTake, WorkerGoes, counts
<1>16. CASE BackoffLock \/ BackoffTest \/ BackoffSleep
  BY <1>16 DEF BackoffLock, BackoffTest, BackoffSleep, WorkerGoes, flags, timing, counts
<1>17. CASE BackoffElapses \/ BackoffOver
  BY <1>17 DEF BackoffElapses, BackoffOver, WorkerGoes, flags, timing, counts
<1>18. CASE WorkerStops
  BY <1>18 DEF WorkerStops, WorkerGoes, flags, timing, counts
<1>19. CASE WakesSpuriously
  BY <1>19 DEF WakesSpuriously, NotifyAll, flags, timing, counts
<1>20. CASE WorkerDisconnects
  BY <1>20 DEF WorkerDisconnects, CloseLink, WorkerGoes, flags, timing, counts
<1>21. CASE ConnectSucceeds
  BY <1>21 DEF ConnectSucceeds, KeepRequests, WorkerGoes, timing, counts
<1>22. CASE ConnectThrows
  BY <1>22 DEF ConnectThrows, AfterThrow, NextBackoff, WorkerGoes, flags, counts
<1>23. CASE LinkDrops
  <2>1. /\ link' = FALSE
        /\ UNCHANGED <<mu, owner_pc, reporter_pc, worker_pc, stop_requested, reconnect_requested>>
    BY <1>23 DEF LinkDrops, flags
  <2>2. TypeOK' /\ MuInv'
    BY <1>23, <2>1 DEF LinkDrops, flags, timing, counts
  <2> QED
    BY <2>1, <2>2
<1>24. CASE UNCHANGED vars
  BY <1>24 DEF vars, flags, timing, counts
<1> QED
  BY <1>1, <1>2, <1>3, <1>4, <1>5, <1>6, <1>7, <1>8, <1>9, <1>10, <1>11, <1>12, <1>13, <1>14,
     <1>15, <1>16, <1>17, <1>18, <1>19, <1>20, <1>21, <1>22, <1>23, <1>24
  DEF Next, OwnerStep, Reporter, WorkerStep

\* IInv is an invariant: who holds mu_, what a tested worker knows and when a
\* worker exists stay as the code has them under every interleaving.
THEOREM SessionInvariant == Spec => []IInv
<1>1. ASSUME Init PROVE IInv
  <2>1. TypeOK
    <3>1. reports \in 0..MaxReports /\ starts \in 0..MaxStarts
      BY <1>1, LimitsAssumption DEF Init
    <3>2. backoff \in MinBackoff..MaxBackoff /\ failures \in 0..MaxBackoff
      BY <1>1, FreshInRange DEF Init
    <3> QED
      BY <1>1, <3>1, <3>2 DEF Init, TypeOK
  <2>2. MuInv
    BY <1>1, ActorsAssumption DEF Init, MuInv
  <2> QED
    BY <1>1, <2>1, <2>2
    DEF Init, IInv, TestedInv, NoMissedWakeup, WorkerInv, LinkInv, InLoop, Attempt, Callbacks
<1> QED
  BY <1>1, SessionStep, PTL DEF Spec

\* Every variable of the session keeps its type; backoff stays between minBackoff
\* and kMaxBackoff however often connect_fn_ throws.
THEOREM TypeCorrect == Spec => []TypeOK
BY SessionInvariant, PTL DEF IInv

\* workerLoop never sleeps on a flag that scheduleReconnect or stop has set and
\* notified, for any number of reporters.
THEOREM WakeupsNotMissed == Spec => []NoMissedWakeup
BY SessionInvariant, PTL DEF IInv

\* start(), stop() and workerLoop never run connect_fn_ or disconnect_fn_ at once.
THEOREM CallbacksDoNotOverlap == Spec => []CallbacksExclusive
<1>1. IInv => CallbacksExclusive
  BY DEF IInv, WorkerInv, CallbacksExclusive, InLoop, Attempt
<1> QED
  BY <1>1, SessionInvariant, PTL

\* After stop() no connection is open and no worker is left to open one.
THEOREM StopLeavesNothing == Spec => []StoppedIsDown
<1>1. IInv => StoppedIsDown
  BY DEF IInv, WorkerInv, LinkInv, StoppedIsDown
<1> QED
  BY <1>1, SessionInvariant, PTL

\* workerLoop calls connect_fn_ only on a connection it has torn down.
THEOREM TeardownBeforeConnect == Spec => []ReconnectFromDown
<1>1. IInv => ReconnectFromDown
  BY DEF IInv, LinkInv, ReconnectFromDown
<1> QED
  BY <1>1, SessionInvariant, PTL

\* The same for one step: of all actions only these two take the worker out.
LEMMA AttemptStep ==
    ASSUME TypeOK, [Next]_vars, worker_pc \in Attempt, worker_pc' \notin Attempt
    PROVE  link' \/ stop_requested
<1> USE DEF Attempt, Callbacks
<1>1. CASE StartConnects
  BY <1>1 DEF StartConnects
<1>2. CASE StopNotify \/ WakesSpuriously \/ \E r \in Reporters : ScheduleNotify(r)
  BY <1>2 DEF StopNotify, WakesSpuriously, ScheduleNotify, NotifyAll
<1>3. CASE WorkerStep
  BY <1>3 DEF WorkerStep, WaitLock, WaitTest, WaitSleep, WaitTake, BackoffLock, BackoffTest,
              BackoffSleep, BackoffElapses, BackoffOver, WorkerStops, WorkerDisconnects,
              ConnectSucceeds, ConnectThrows, AfterThrow, WorkerGoes
<1>4. CASE \/ Start \/ StartThrows \/ Stop \/ StopLock \/ StopFlag \/ StopJoin \/ StopDisconnect
           \/ LinkDrops \/ UNCHANGED vars
           \/ \E r \in Reporters : Schedule(r) \/ ScheduleLock(r) \/ ScheduleFlag(r)
  BY <1>4 DEF Start, StartThrows, Stop, StopLock, StopFlag, StopJoin, StopDisconnect, LinkDrops,
              vars, Schedule, ScheduleLock, ScheduleFlag
<1> QED
  BY <1>1, <1>2, <1>3, <1>4 DEF Next, OwnerStep, Reporter

\* workerLoop leaves its retry loop only through a connect or through stop().
THEOREM AttemptsPersist == Spec => NeverGivesUp
<1>1. TypeOK /\ [Next]_vars =>
         [(worker_pc \in Attempt /\ worker_pc' \notin Attempt) => (link' \/ stop_requested)]_vars
  BY AttemptStep
<1> QED
  BY <1>1, TypeCorrect, PTL DEF Spec, NeverGivesUp

-----------------------------------------------------------------------------
(* Powers of two *)

\* 2^n counts the subsets of 1..n, and doubles with each n: those with and those
\* without n + 1 are as many. It is at least n, the number of singletons.
LEMMA Subsets ==
  ASSUME NEW n \in Nat
  PROVE  /\ IsFiniteSet(1..n) /\ Cardinality(1..n) = n
         /\ IsFiniteSet(SUBSET (1..n)) /\ Cardinality(SUBSET (1..n)) = 2^n
         /\ 2^n \in Nat
<1>1. IsFiniteSet(1..n) /\ Cardinality(1..n) = n
  BY FS_Interval
<1>2. IsFiniteSet(SUBSET (1..n)) /\ Cardinality(SUBSET (1..n)) = 2^n
  BY <1>1, FS_SUBSET
<1> QED
  BY <1>1, <1>2, FS_CardinalityType

LEMMA PowerDoubles ==
  ASSUME NEW n \in Nat
  PROVE  2^(n + 1) = 2^n + 2^n
<1> DEFINE A == SUBSET (1..n)
           B == {X \cup {n + 1} : X \in A}
           f == [X \in A |-> X \cup {n + 1}]
<1>1. \A X \in A : n + 1 \notin X
  OBVIOUS
<1>2. ExistsBijection(A, B)
  <2>1. f \in [A -> B]
    OBVIOUS
  <2>2. \A X, Y \in A : f[X] = f[Y] => X = Y
    <3> SUFFICES ASSUME NEW X \in A, NEW Y \in A, X \cup {n + 1} = Y \cup {n + 1} PROVE X = Y
      OBVIOUS
    <3>1. n + 1 \notin X /\ n + 1 \notin Y
      BY <1>1
    <3> HIDE DEF A
    <3> QED
      BY <3>1
  <2>3. \A Z \in B : \E X \in A : f[X] = Z
    OBVIOUS
  <2> HIDE DEF A, B, f
  <2> QED
    BY <2>1, <2>2, <2>3, Fun_IsBij DEF ExistsBijection
<1>3. A \cup B = SUBSET (1..(n + 1))
  <2>1. 1..(n + 1) = 1..n \cup {n + 1}
    OBVIOUS
  <2>2. A \cup B \subseteq SUBSET (1..(n + 1))
    BY <2>1
  <2>3. ASSUME NEW Y \in SUBSET (1..(n + 1)) PROVE Y \in A \cup B
    <3>1. CASE n + 1 \in Y
      <4>1. Y \ {n + 1} \in A /\ Y = (Y \ {n + 1}) \cup {n + 1}
        BY <2>1, <3>1
      <4> QED
        BY <4>1
    <3>2. CASE n + 1 \notin Y
      BY <2>1, <3>2
    <3> QED
      BY <3>1, <3>2
  <2> QED
    BY <2>2, <2>3
<1>4. A \cap B = {}
  BY <1>1
<1>5. IsFiniteSet(A) /\ Cardinality(A) = 2^n /\ 2^n \in Nat
  BY Subsets
<1>6. Cardinality(A \cup B) = 2^(n + 1)
  BY <1>3, Subsets, n + 1 \in Nat
<1> HIDE DEF A, B
<1>7. IsFiniteSet(B) /\ Cardinality(B) = 2^n
  BY <1>2, <1>5, FS_Bijection
<1>8. Cardinality(A \cup B) = 2^n + 2^n - Cardinality({})
  BY <1>4, <1>5, <1>7, FS_Union
<1> QED
  BY <1>5, <1>6, <1>8, FS_EmptySet

LEMMA PowerAtLeast ==
  ASSUME NEW n \in Nat
  PROVE  n <= 2^n
<1> DEFINE S == 1..n
           T == SUBSET S
           f == [x \in S |-> {x}]
<1>1. f \in [S -> T] /\ \A x, y \in S : f[x] = f[y] => x = y
  OBVIOUS
<1>2. /\ IsFiniteSet(T) /\ Cardinality(T) = 2^n /\ Cardinality(S) = n
  BY Subsets
<1> HIDE DEF S, T, f
<1>3. f \in Injection(S, T)
  BY <1>1 DEF Injection, IsInjective
<1> QED
  BY <1>2, <1>3, FS_Injection

LEMMA PowerZero == 2^0 = 1
OBVIOUS

-----------------------------------------------------------------------------
(* The backoff *)

\* What the n-th retry is to wait.
Scheduled(n) ==
    LET doubled == MinBackoff * 2^n
    IN  IF doubled < MaxBackoff THEN doubled ELSE MaxBackoff

LEMMA ScheduleBegins == Scheduled(0) = MinBackoff
BY PowerZero, BackoffAssumption DEF Scheduled

\* Capping and then doubling and capping again is doubling and capping once.
LEMMA ScheduleGoesOn ==
  ASSUME NEW n \in Nat
  PROVE  LET b == Scheduled(n) IN
         Scheduled(n + 1) = IF b * 2 < MaxBackoff THEN b * 2 ELSE MaxBackoff
<1> DEFINE d == MinBackoff * 2^n
<1>1. d \in Nat /\ MinBackoff * 2^(n + 1) = d * 2
  <2>1. \A m, p \in Nat : m * p \in Nat /\ m * (p + p) = (m * p) * 2
    OBVIOUS
  <2>2. MinBackoff \in Nat /\ 2^n \in Nat /\ 2^(n + 1) = 2^n + 2^n
    BY Subsets, PowerDoubles, BackoffAssumption
  <2> QED
    BY <2>1, <2>2
<1> HIDE DEF d
<1>2. Scheduled(n) = IF d < MaxBackoff THEN d ELSE MaxBackoff
  BY DEF Scheduled, d
<1>3. Scheduled(n + 1) = IF d * 2 < MaxBackoff THEN d * 2 ELSE MaxBackoff
  BY <1>1 DEF Scheduled
<1> QED
  BY <1>1, <1>2, <1>3, BackoffAssumption

\* Where failures are no longer counted, the cap is long reached.
LEMMA ScheduleEnds == Scheduled(MaxBackoff) = MaxBackoff
<1>1. MaxBackoff <= 2^MaxBackoff /\ 2^MaxBackoff \in Nat
  BY PowerAtLeast, Subsets, BackoffAssumption
<1>2. 2^MaxBackoff <= MinBackoff * 2^MaxBackoff
  BY <1>1, BackoffAssumption
<1> QED
  BY <1>1, <1>2, BackoffAssumption DEF Scheduled

\* An attempt begins with a fresh backoff; connect_fn_ that throws doubles it; no
\* other step of any thread touches it.
LEMMA BackoffStep ==
  ASSUME TypeOK, BackoffSchedule, [Next]_vars
  PROVE  BackoffSchedule'
<1>0. BackoffSchedule <=> (worker_pc \in Attempt => backoff = Scheduled(failures))
  BY DEF BackoffSchedule, Scheduled
<1> SUFFICES ASSUME worker_pc' \in Attempt PROVE backoff' = Scheduled(failures')
  BY DEF BackoffSchedule, Scheduled
<1>1. CASE WaitTake
  BY <1>1, ScheduleBegins DEF WaitTake, FreshBackoff
<1>2. CASE ConnectThrows
  <2>1. failures \in Nat /\ failures <= MaxBackoff /\ backoff = Scheduled(failures)
    BY <1>0, <1>2, BackoffAssumption DEF ConnectThrows, WorkerGoes, Attempt, Callbacks, TypeOK
  <2>2. backoff' = Scheduled(failures + 1)
    BY <1>2, <2>1, ScheduleGoesOn DEF ConnectThrows, NextBackoff
  <2>3. CASE failures < MaxBackoff
    BY <1>2, <2>2, <2>3 DEF ConnectThrows
  <2>4. CASE ~(failures < MaxBackoff)
    <3>1. failures = MaxBackoff /\ failures' = failures
      BY <1>2, <2>1, <2>4, BackoffAssumption DEF ConnectThrows
    <3>2. backoff = MaxBackoff
      BY <2>1, <3>1, ScheduleEnds
    <3>3. backoff' = MaxBackoff
      BY <1>2, <3>2, BackoffAssumption DEF ConnectThrows, NextBackoff
    <3> QED
      BY <2>1, <3>1, <3>2, <3>3
  <2> QED
    BY <2>3, <2>4
<1>3. ASSUME worker_pc \in Attempt, UNCHANGED timing PROVE backoff' = Scheduled(failures')
  BY <1>0, <1>3 DEF timing
<1>4. CASE StopNotify \/ WakesSpuriously \/ \E r \in Reporters : ScheduleNotify(r)
  <2>1. UNCHANGED timing
    BY <1>4 DEF StopNotify, WakesSpuriously, ScheduleNotify
  <2>2. worker_pc \in Attempt
    BY <1>4 DEF StopNotify, WakesSpuriously, ScheduleNotify, NotifyAll, Attempt, Callbacks
  <2> QED
    BY <1>3, <2>1, <2>2
<1>5. CASE \/ WaitLock \/ WaitTest \/ WaitSleep \/ BackoffLock \/ BackoffTest \/ BackoffSleep
           \/ BackoffElapses \/ BackoffOver \/ WorkerStops \/ WorkerDisconnects \/ ConnectSucceeds
  <2>1. UNCHANGED timing
    BY <1>5 DEF WaitLock, WaitTest, WaitSleep, BackoffLock, BackoffTest, BackoffSleep,
       BackoffElapses, BackoffOver, WorkerStops, WorkerDisconnects, ConnectSucceeds
  <2>2. worker_pc \in Attempt
    BY <1>5 DEF WaitLock, WaitTest, WaitSleep, BackoffLock, BackoffTest, BackoffSleep,
       BackoffElapses, BackoffOver, WorkerStops, WorkerDisconnects, ConnectSucceeds, WorkerGoes,
       Attempt, Callbacks
  <2> QED
    BY <1>3, <2>1, <2>2
<1>6. CASE StartConnects
  BY <1>6 DEF StartConnects, Attempt, Callbacks
<1>7. CASE \/ Start \/ StartThrows \/ Stop \/ StopLock \/ StopFlag \/ StopJoin \/ StopDisconnect
           \/ LinkDrops \/ UNCHANGED vars
           \/ \E r \in Reporters : Schedule(r) \/ ScheduleLock(r) \/ ScheduleFlag(r)
  <2>1. UNCHANGED timing
    BY <1>7 DEF Start, StartThrows, Stop, StopLock, StopFlag, StopJoin, StopDisconnect, LinkDrops,
       vars, Schedule, ScheduleLock, ScheduleFlag
  <2>2. worker_pc' = worker_pc
    BY <1>7 DEF Start, StartThrows, Stop, StopLock, StopFlag, StopJoin, StopDisconnect, LinkDrops,
       vars, Schedule, ScheduleLock, ScheduleFlag
  <2> QED
    BY <1>3, <2>1, <2>2
<1> QED
  BY <1>1, <1>2, <1>4, <1>5, <1>6, <1>7 DEF Next, OwnerStep, Reporter, WorkerStep

\* However often connect_fn_ throws, the n-th retry of an attempt waits
\* min(2^n * minBackoff, kMaxBackoff), and an attempt starts over from minBackoff.
THEOREM BackoffsScheduled == Spec => []BackoffSchedule
<1>1. Init => BackoffSchedule
  BY DEF Init, BackoffSchedule, Attempt, Callbacks
<1> QED
  BY <1>1, BackoffStep, TypeCorrect, PTL DEF Spec
=============================================================================
