\* A Binance client makes a signed request and then a public one.
CONSTANTS
    Exchanges = {"binance"}
    MaxRequests = 3
    MaxClock = 2
SPECIFICATION Spec
INVARIANT InheritsNothing
CHECK_DEADLOCK FALSE
