\* Every exchange's client and the bare transport, four calls each.
CONSTANTS
    Exchanges = {"kraken", "binance", "coinbase", "cryptocom", "direct"}
    MaxRequests = 4
    MaxClock = 2
SPECIFICATION Spec
INVARIANTS TypeOK RequestReachesWire SignatureCoversRequest OkMeansResult OrderUnderstood
CHECK_DEADLOCK FALSE
