\* One Kraken order sent over REST.
CONSTANTS
    Exchanges = {"kraken"}
    MaxRequests = 1
    MaxClock = 0
SPECIFICATION Spec
INVARIANT SameOnBothTransports
CHECK_DEADLOCK FALSE
