\* A Crypto.com client taken down as ix_ws_connection.hpp says.
CONSTANTS
    c1 = c1
    c2 = c2
    owner = owner
    ioThread = ioThread
    Owner = owner
    IoThread = ioThread
    Cancellers = {c1}
    Uses = {"cryptocom"}
SPECIFICATION Spec
INVARIANT CallbackOnLiving
