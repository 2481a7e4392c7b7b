\* A handle cancelled while the open handler flushes the queue.
CONSTANTS
    t1 = t1
    t2 = t2
    ioThread = ioThread
    Callers = {t1, t2}
    IoThread = ioThread
    Channels = {"matches", "full"}
    Observers = {}
    MaxCalls = 2
    MaxInbox = 0
    MaxOpens = 1
SPECIFICATION Spec
SYMMETRY Symmetric
INVARIANT SubscribeFirst
CHECK_DEADLOCK FALSE
