\* The teardowns that are safe, two threads cancelling handles meanwhile.
CONSTANTS
    c1 = c1
    c2 = c2
    owner = owner
    ioThread = ioThread
    Owner = owner
    IoThread = ioThread
    Cancellers = {c1, c2}
    Uses = {"conn", "conn_joined", "cryptocom_joined"}
SPECIFICATION Spec
INVARIANTS TypeOK CallbackOnLiving NoSelfJoin
PROPERTY EverythingReleased
