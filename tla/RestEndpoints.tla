---------------------------- MODULE RestEndpoints ----------------------------
(***************************************************************************)
(* The endpoints of the four exchanges: for each the method and path of its *)
(* request, the parameters it sends, and what its from_json asks of the     *)
(* reply.                                                                   *)
(*                                                                         *)
(* always   sent in every request                                           *)
(* given    sent if set; a list if it is not empty                          *)
(* flags    sent if set and true                                            *)
(* reads    the kinds of fields of the reply                                *)
(*                                                                         *)
(* Which field of a kind a field is, is data. A part of the path that the   *)
(* caller gives is written id.                                              *)
(***************************************************************************)

(* A field can be absent, null, of a foreign type, or text that is not the     *)
(* numeral or the word asked for.                                              *)

\* plain    j.value(key, default), or get<T>() if contained
\* checked  the same, then stod or a converter that throws
\* status   the same, then a converter that has Unknown
\* listed   an array or object to iterate, if contained; null has no elements
\* whole    the same, where the reply itself is the array or object
\* element  of an array: get<T>()
\* row      of a positional array: at(i), then stod
\* unruly   of a positional array: operator[], undefined beyond the end, as is
\*          that of a const object for a key it has not
\* positional  of a positional array that is at least as long, else the default
\* lenient  taken if it is of the type, the default otherwise
\* tolerant sd(): the same, but text goes to stod
Reading ==
    [plain    |-> [absent |-> "default", null |-> "throws", foreign |-> "throws"],
     checked  |-> [absent |-> "default", null |-> "throws", foreign |-> "throws", word |-> "throws"],
     status   |-> [absent |-> "default", null |-> "throws", foreign |-> "throws", word |-> "Unknown"],
     listed   |-> [absent |-> "default", null |-> "default"],
     whole    |-> [null |-> "default"],
     element  |-> [null |-> "throws", foreign |-> "throws"],
     row      |-> [absent |-> "throws", null |-> "throws", foreign |-> "throws", word |-> "throws"],
     unruly   |-> [absent |-> "undefined", null |-> "throws", foreign |-> "throws", word |-> "throws"],
     positional |-> [absent |-> "default", null |-> "throws", foreign |-> "throws", word |-> "throws"],
     lenient  |-> [absent |-> "default", null |-> "default", foreign |-> "default"],
     tolerant |-> [absent |-> "default", null |-> "default", foreign |-> "default", word |-> "throws"]]

\* What can be wrong with one field of a reply.
Flaws(e) == UNION {{[kind |-> k, oddity |-> o] : o \in DOMAIN Reading[k]} : k \in e.reads}

-----------------------------------------------------------------------------
Endpoint(method, path, always, given, flags, reads) ==
    [method |-> method, path |-> path, always |-> always, given |-> given, flags |-> flags,
     reads |-> reads, json |-> FALSE]
Get(path, always, given, reads) == Endpoint("GET", path, always, given, {}, reads)
Post(path, always, given, reads) == Endpoint("POST", path, always, given, {}, reads)
Delete(path, always, given, reads) == Endpoint("DELETE", path, always, given, {}, reads)
Json(e) == [e EXCEPT !.json = TRUE]

(* Kraken *)

KrakenReference ==
    {Get("Time", {}, {}, {"plain"}),
     Get("SystemStatus", {}, {}, {"plain"}),
     Get("Assets", {}, {"asset", "aclass"}, {"whole", "plain"}),
     Get("AssetPairs", {}, {"pair", "info"}, {"whole", "plain", "checked"})}
KrakenPrices ==
    {Get("Ticker", {}, {"pair"}, {"whole", "checked", "unruly"}),
     Get("OHLC", {"pair"}, {"interval", "since"}, {"whole", "plain", "unruly"}),
     Get("Depth", {"pair"}, {"count"}, {"whole", "unruly"}),
     Get("Trades", {"pair"}, {"since", "count"}, {"whole", "plain", "unruly"})}

KrakenPost(path, always, given, flags, reads) ==
    Endpoint("POST", path, always, given, flags, reads)
KrakenOrderInfo == {"plain", "checked", "status"}
KrakenTradeInfo == {"plain", "checked"}
KrakenLedgerEntry == {"plain", "checked"}
KrakenAccount ==
    {KrakenPost("Balance", {}, {}, {}, {"whole", "checked"}),
     KrakenPost("BalanceEx", {}, {}, {}, {"whole", "checked"}),
     KrakenPost("TradeBalance", {}, {"asset"}, {}, {"checked"}),
     KrakenPost("OpenOrders", {}, {"userref"}, {"trades"}, {"listed"} \cup KrakenOrderInfo),
     KrakenPost("ClosedOrders", {}, {"userref", "start", "end", "ofs", "closetime"}, {"trades"},
                {"listed"} \cup KrakenOrderInfo),
     KrakenPost("QueryOrders", {"txid"}, {}, {"trades"}, {"whole"} \cup KrakenOrderInfo)}
KrakenHistory ==
    {KrakenPost("TradesHistory", {}, {"type", "start", "end", "ofs"}, {"trades"},
                {"listed"} \cup KrakenTradeInfo),
     KrakenPost("QueryTrades", {"txid"}, {}, {"trades"}, {"whole"} \cup KrakenTradeInfo),
     KrakenPost("OpenPositions", {}, {"txid"}, {"docalcs", "consolidation"},
                {"whole", "plain", "checked"}),
     KrakenPost("Ledgers", {}, {"asset", "aclass", "type", "start", "end", "ofs"}, {},
                {"listed"} \cup KrakenLedgerEntry),
     KrakenPost("QueryLedgers", {"id"}, {}, {"trades"}, {"whole"} \cup KrakenLedgerEntry)}

KrakenAddOrder == KrakenPost("AddOrder", {}, {}, {}, {"plain"})
KrakenAddOrderBatch ==
    Json(KrakenPost("AddOrderBatch", {}, {}, {}, {"listed", "plain"}))
KrakenTrading ==
    {KrakenPost("EditOrder", {"txid", "pair"},
                {"volume", "price", "price2", "displayvol", "deadline", "userref", "cl_ord_id"},
                {"oflags", "validate"}, {"plain"}),
     KrakenPost("AmendOrder", {}, {"txid", "cl_ord_id", "order_qty", "display_qty", "limit_price",
                "trigger_price", "deadline"}, {}, {"plain"}),
     KrakenPost("CancelOrder", {"txid"}, {}, {}, {"plain"}),
     KrakenPost("CancelAll", {}, {}, {}, {"plain"}),
     KrakenPost("CancelAllOrdersAfter", {"timeout"}, {}, {}, {"plain"}),
     Json(KrakenPost("CancelOrderBatch", {"orders"}, {}, {}, {"plain"})),
     KrakenPost("GetWebSocketsToken", {}, {}, {}, {"plain"})}
KrakenFunding ==
    {KrakenPost("DepositMethods", {"asset"}, {}, {}, {"whole", "plain"}),
     KrakenPost("DepositAddresses", {"asset", "method"}, {}, {"new"}, {"whole", "plain"}),
     KrakenPost("Withdraw", {"asset", "key", "amount"}, {"address", "max_fee"}, {}, {"plain"}),
     KrakenPost("WithdrawCancel", {"asset", "refid"}, {}, {}, {"element"}),
     KrakenPost("CreateSubaccount", {"username", "email"}, {}, {}, {"element"}),
     KrakenPost("Earn/Allocate", {"strategy_id", "amount"}, {}, {}, {"element"}),
     KrakenPost("Earn/Deallocate", {"strategy_id", "amount"}, {}, {}, {"element"})}

(* Binance; a symbol excludes symbols *)

BinancePublic ==
    {Get("ping", {}, {}, {}),
     Get("time", {}, {}, {"plain"}),
     Get("ticker/price", {}, {"symbol"}, {"plain", "checked"}),
     Get("ticker/price", {}, {"symbols"}, {"plain", "checked"}),
     Get("depth", {"symbol"}, {"limit"}, {"listed", "plain", "row"}),
     Get("trades", {"symbol"}, {"limit"}, {"whole", "plain", "checked"}),
     Get("klines", {"symbol", "interval"}, {"startTime", "endTime", "limit"}, {"whole", "row"}),
     Get("exchangeInfo", {}, {}, {"listed", "element", "plain"}),
     Get("ticker/24hr", {}, {"symbol"}, {"plain", "checked"}),
     Get("ticker/24hr", {}, {"symbols"}, {"plain", "checked"})}

BinanceOrderFields == {"plain", "checked", "status"}
BinanceAccount ==
    {Get("account", {}, {}, {"listed", "element", "plain", "checked"}),
     Get("openOrders", {}, {"symbol"}, {"whole"} \cup BinanceOrderFields),
     Get("allOrders", {"symbol"}, {"orderId", "startTime", "endTime", "limit"},
         {"whole"} \cup BinanceOrderFields),
     Get("myTrades", {"symbol"}, {"orderId", "startTime", "endTime", "fromId", "limit"},
         {"whole", "plain", "checked"})}
BinanceNewOrder == Post("order", {}, {}, {"listed"} \cup BinanceOrderFields)
BinanceCancels ==
    {Delete("order", {"symbol"}, {"orderId", "origClientOrderId", "newClientOrderId"},
            BinanceOrderFields),
     Delete("openOrders", {"symbol"}, {}, {"whole"} \cup BinanceOrderFields)}

(* Coinbase *)

CoinbasePublic ==
    {Get("/time", {}, {}, {"plain"}),
     Get("/products", {}, {}, {"whole", "plain", "checked"}),
     Get("/products/id", {}, {}, {"plain", "checked"}),
     Get("/products/id/book", {}, {"level"}, {"listed", "plain", "row", "lenient"}),
     Get("/products/id/ticker", {}, {}, {"plain", "checked"}),
     Get("/products/id/trades", {}, {"limit"}, {"whole", "plain", "checked"})}
CoinbaseCharts ==
    {Get("/products/id/candles", {}, {"granularity", "start", "end"}, {"whole", "row"}),
     Get("/products/id/stats", {}, {}, {"checked"})}

CoinbaseOrderFields == {"plain", "checked", "status"}
CoinbaseAccounts ==
    {Get("/accounts", {}, {}, {"whole", "plain", "checked"}),
     Get("/accounts/id", {}, {}, {"plain", "checked"})}
CoinbasePlaceOrder == Json(Post("/orders", {}, {}, CoinbaseOrderFields))
CoinbaseOrders ==
    {Get("/orders/id", {}, {}, CoinbaseOrderFields),
     Get("/orders", {}, {"status", "product_id"}, {"whole"} \cup CoinbaseOrderFields),
     Delete("/orders/id", {}, {"product_id"}, {"lenient", "plain"}),
     Delete("/orders", {}, {"product_id"}, {"whole", "element"}),
     Get("/fills", {}, {"order_id", "product_id"}, {"whole", "plain", "checked"})}

(* Crypto.com; "data" that is no array has no elements *)

CryptoComPublic ==
    {Get("public/get-instruments", {}, {}, {"plain", "lenient", "tolerant"}),
     Get("public/get-tickers", {}, {"instrument_name"}, {"lenient", "tolerant"}),
     Get("public/get-book", {"instrument_name"}, {"depth"}, {"lenient", "positional"})}
CryptoComCharts ==
    {Get("public/get-candlestick", {"instrument_name"}, {"timeframe", "count"},
         {"lenient", "tolerant"}),
     Get("public/get-trades", {"instrument_name"}, {"count"}, {"lenient", "tolerant"})}

CryptoComPost(path, always, given, reads) == Json(Post(path, always, given, reads))
CryptoComOrderFields == {"lenient", "tolerant"}
CryptoComBalance == {CryptoComPost("private/user-balance", {}, {}, {"lenient", "tolerant"})}
CryptoComCreateOrder == CryptoComPost("private/create-order", {}, {}, {"lenient"})
CryptoComOrders ==
    {CryptoComPost("private/cancel-order", {"order_id"}, {}, {}),
     CryptoComPost("private/cancel-all-orders", {}, {"instrument_name"}, {}),
     CryptoComPost("private/get-order-detail", {"order_id"}, {}, CryptoComOrderFields),
     CryptoComPost("private/get-open-orders", {}, {"instrument_name"}, CryptoComOrderFields),
     CryptoComPost("private/get-order-history", {}, {"instrument_name", "limit"},
                   CryptoComOrderFields),
     CryptoComPost("private/get-trades", {}, {"instrument_name", "limit"}, CryptoComOrderFields)}

-----------------------------------------------------------------------------
Public ==
    [kraken |-> KrakenReference \cup KrakenPrices,
     binance |-> BinancePublic,
     coinbase |-> CoinbasePublic \cup CoinbaseCharts,
     cryptocom |-> CryptoComPublic \cup CryptoComCharts,
     direct |-> {}]
Private ==
    [kraken |-> KrakenAccount \cup KrakenHistory \cup KrakenTrading \cup KrakenFunding,
     binance |-> BinanceAccount \cup BinanceCancels,
     coinbase |-> CoinbaseAccounts \cup CoinbaseOrders,
     cryptocom |-> CryptoComBalance \cup CryptoComOrders,
     direct |-> {}]
\* Those that place an order; its terms are the parameters.
Placing ==
    [kraken |-> {KrakenAddOrder, KrakenAddOrderBatch},
     binance |-> {BinanceNewOrder},
     coinbase |-> {CoinbasePlaceOrder},
     cryptocom |-> {CryptoComCreateOrder},
     direct |-> {}]

(* What a program may hand to CurlHttpClient itself *)
DirectDelete == Delete("any", {}, {}, {})
Direct == {Get("any", {}, {"p"}, {}), Post("any", {}, {"p"}, {}), DirectDelete}

\* The parameters of a request whose optional fields are all empty, or all set, the
\* flags to true or to false.
Parameters(e) == {e.always, e.always \cup e.given, e.always \cup e.given \cup e.flags}
=============================================================================
