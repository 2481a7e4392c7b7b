\* Two application threads, two calls each on average, one reconnect.
CONSTANTS
    t1 = t1
    t2 = t2
    ioThread = ioThread
    Callers = {t1, t2}
    IoThread = ioThread
    Nobody = nobody
    RouteKeys = {ticker, trade}
    MaxCalls = 2
    MaxInbox = 2
    MaxOpens = 2
    ConnectFirst = TRUE
SPECIFICATION Spec
SYMMETRY Symmetric
INVARIANTS TypeOK NoStrandedFrame SentInOrder RegisteredBeforeSent LiveHandleRouted CancelledStaysOff UnsubscribeOnce
PROPERTY RefinesContract
CHECK_DEADLOCK FALSE
