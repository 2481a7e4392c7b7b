\* A timed-out subscribe whose acknowledgement still comes.
CONSTANTS
    t1 = t1
    t2 = t2
    ioThread = ioThread
    Callers = {t1, t2}
    IoThread = ioThread
    Nobody = nobody
    RouteKeys = {ticker, trade}
    MaxCalls = 2
    MaxInbox = 1
    MaxOpens = 1
    ConnectFirst = TRUE
SPECIFICATION Spec
SYMMETRY Symmetric
INVARIANT TimedOutNotInstalled
CHECK_DEADLOCK FALSE
