\* Two reporters, a session that may be started twice, connects that may fail.
CONSTANTS
    r1 = r1
    r2 = r2
    owner = owner
    worker = worker
    Reporters = {r1, r2}
    Owner = owner
    Worker = worker
    Nobody = nobody
    MinBackoff = 1
    MaxBackoff = 3
    MaxReports = 3
    MaxStarts = 2
SPECIFICATION FairSpec
INVARIANTS TypeOK NoMissedWakeup CallbacksExclusive StoppedIsDown BackoffSchedule
PROPERTIES NeverGivesUp StopReturns RequestServed
CHECK_DEADLOCK FALSE
