\* One application thread and callbacks that call the client themselves.
CONSTANTS
    t1 = t1
    t2 = t2
    ioThread = ioThread
    Callers = {t1, ioThread}
    IoThread = ioThread
    Nobody = nobody
    RouteKeys = {ticker}
    MaxCalls = 2
    MaxInbox = 1
    MaxOpens = 2
    ConnectFirst = FALSE
SPECIFICATION FairSpec
PROPERTIES CallsReturn QueueDrains
CHECK_DEADLOCK FALSE
