\* An application thread and callbacks that call the client, overlapping channels.
CONSTANTS
    t1 = t1
    t2 = t2
    ioThread = ioThread
    Callers = {t1, ioThread}
    IoThread = ioThread
    Channels = {"matches", "full"}
    Observers = {"error"}
    MaxCalls = 2
    MaxInbox = 1
    MaxOpens = 2
SPECIFICATION FairSpec
INVARIANTS TypeOK NoStrandedFrame SentOnce LiveHandleRouted CancelledStaysOff
PROPERTY QueueDrains
CHECK_DEADLOCK FALSE
