\* The four dialects, two channels, two symbols.
CONSTANTS
    c1 = c1
    c2 = c2
    s1 = s1
    s2 = s2
    Dialects = {"kraken", "binance_stream", "binance_api", "cryptocom"}
    Channels = {c1, c2}
    Symbols = {s1, s2}
    MaxRequests = 2
    MaxInFlight = 2
    MaxUnasked = 2
    MaxPushes = 2
SPECIFICATION Spec
SYMMETRY Symmetric
INVARIANTS TypeOK RepliesNotLost PushesReachTheirCallback NothingFedWithoutHandle HeartbeatsAnswered KrakenNeverEscapes
PROPERTIES RefinesExchangeContract
CHECK_DEADLOCK FALSE
