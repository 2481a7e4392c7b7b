------------------------------- MODULE Orders -------------------------------
(***************************************************************************)
(* Orders as the caller states them, as each exchange's requests carry them *)
(* and as the exchange reads them.                                          *)
(*                                                                         *)
(* An order is a function of the terms that are set: an optional left empty *)
(* is not in its domain, and a member of Kraken's triggers or conditional   *)
(* is a term like any other. "limit_price" is limit_price or price,         *)
(* "trigger_price" is triggers.price, stop_price or ref_price, whatever the *)
(* struct calls it. What a request carries is a function too, of the names  *)
(* in it; a converter that throws leaves no request: an encoder returns the *)
(* set of what it made, empty or of one element.                            *)
(***************************************************************************)
EXTENDS Integers

OrderTypes == {"Limit", "Market", "Iceberg", "StopLoss", "StopLossLimit", "TakeProfit",
               "TakeProfitLimit", "TrailingStop", "TrailingStopLimit", "SettlePosition"}
TimesInForce == {"GTC", "GTD", "IOC", "FOK"}

(* The orders to consider. A term's value is its own name where only whose      *)
(* value it is matters; quantities are in units of the eighth decimal.         *)

KrakenTerms ==
    {"limit_price", "limit_price_type", "trigger_price", "trigger_reference",
     "trigger_price_type", "close_order_type", "close_limit_price", "close_limit_price_type",
     "close_trigger_price", "close_trigger_price_type", "time_in_force", "margin", "post_only",
     "reduce_only", "effective_time", "expire_time", "deadline", "cl_ord_id", "order_userref",
     "display_qty", "fee_preference", "stp_type", "cash_order_qty", "validate", "sender_sub_id"}
BinanceTerms ==
    {"time_in_force", "quote_order_qty", "limit_price", "new_client_order_id", "trigger_price",
     "iceberg_qty", "new_order_resp_type"}
CoinbaseTerms ==
    {"client_oid", "limit_price", "time_in_force", "post_only", "cancel_after", "funds", "stop",
     "trigger_price"}
CryptoComTerms == {"limit_price", "notional", "client_oid", "time_in_force", "exec_inst"}
Terms == [kraken |-> KrakenTerms, binance |-> BinanceTerms, coinbase |-> CoinbaseTerms,
          cryptocom |-> CryptoComTerms]

Limited == {"Limit", "Iceberg", "StopLossLimit", "TakeProfitLimit", "TrailingStopLimit"}
Triggered == {"StopLoss", "StopLossLimit", "TakeProfit", "TakeProfitLimit",
              "TrailingStop", "TrailingStopLimit"}
Prices(type) ==
    {t \in {"limit_price", "trigger_price"} :
        IF t = "trigger_price" THEN type \in Triggered ELSE type \in Limited}
Flags == {"margin", "post_only", "reduce_only", "validate"}
Quantities == {"order_qty", "display_qty"}
Values(t) ==
    CASE t = "time_in_force" -> TimesInForce
      [] t = "close_order_type" -> OrderTypes
      [] t \in Flags -> BOOLEAN
      [] t \in Quantities -> {130}
      [] OTHER -> {t}

\* What f says, and what g says besides.
Also(f, g) == [t \in DOMAIN f \cup DOMAIN g |-> IF t \in DOMAIN f THEN f[t] ELSE g[t]]

\* Any type, side and quantity with the prices that go with the type, and one more
\* term at a time; what a trigger refers to is asked only where there is a trigger.
Order(type, side, qty, terms) ==
    Also([order_type |-> type, side |-> side, order_qty |-> qty], [t \in terms |-> t])
PricedOrders(terms) ==
    {Order(type, side, qty, Prices(type) \cap terms) :
        type \in OrderTypes, side \in {"Buy", "Sell"}, qty \in {100, 130}}
OrdersWithOne(type, t, terms) ==
    {Also(Order(type, "Buy", 100, Prices(type) \cap terms), [u \in {t} |-> v]) : v \in Values(t)}
TriggerDetails == {"trigger_reference", "trigger_price_type"}
Extras(type, terms) ==
    terms \ ({"limit_price", "trigger_price"}
             \cup IF type \in Triggered THEN {} ELSE TriggerDetails)
OrdersWith(terms) ==
    PricedOrders(terms)
    \cup UNION {UNION {OrdersWithOne(type, t, terms) : t \in Extras(type, terms)} :
            type \in OrderTypes}
OrdersOf == [exchange \in DOMAIN Terms |-> OrdersWith(Terms[exchange])]

-----------------------------------------------------------------------------
(* The words for types, times in force and sides: the to_string converters.    *)

KrakenType ==
    [Limit |-> "limit", Market |-> "market", Iceberg |-> "iceberg", StopLoss |-> "stop-loss",
     StopLossLimit |-> "stop-loss-limit", TakeProfit |-> "take-profit",
     TakeProfitLimit |-> "take-profit-limit", TrailingStop |-> "trailing-stop",
     TrailingStopLimit |-> "trailing-stop-limit", SettlePosition |-> "settle-position"]
BinanceType ==
    [Limit |-> "LIMIT", Market |-> "MARKET", StopLoss |-> "STOP_LOSS",
     StopLossLimit |-> "STOP_LOSS_LIMIT", TakeProfit |-> "TAKE_PROFIT",
     TakeProfitLimit |-> "TAKE_PROFIT_LIMIT"]
CoinbaseType == [Limit |-> "limit", Market |-> "market"]

\* As a switch that fell through to the next case would have it.
CryptoComTypeFallsThrough == [BinanceType EXCEPT !.StopLossLimit = "TAKE_PROFIT"]
CryptoComType == [BinanceType EXCEPT !.StopLossLimit = "STOP_LIMIT"]

KrakenTif == [GTC |-> "gtc", GTD |-> "gtd", IOC |-> "ioc"]
BinanceTif == [GTC |-> "GTC", IOC |-> "IOC", FOK |-> "FOK"]
CoinbaseTif == [GTC |-> "GTC", GTD |-> "GTT", IOC |-> "IOC", FOK |-> "FOK"]
CryptoComTif ==
    [GTC |-> "GOOD_TILL_CANCEL", IOC |-> "IMMEDIATE_OR_CANCEL", FOK |-> "FILL_OR_KILL"]

KrakenSide == [Buy |-> "buy", Sell |-> "sell"]
BinanceSide == [Buy |-> "BUY", Sell |-> "SELL"]
CoinbaseSide == [Buy |-> "buy", Sell |-> "sell"]
CryptoComSide == [Buy |-> "BUY", Sell |-> "SELL"]

\* The terms whose values are words. A value without a word throws, as does a
\* word without a meaning.
Words(type, side, tif) ==
    [order_type |-> type, side |-> side, time_in_force |-> tif, close_order_type |-> type]
Spoken ==
    [kraken |-> Words(KrakenType, KrakenSide, KrakenTif),
     binance |-> Words(BinanceType, BinanceSide, BinanceTif),
     coinbase |-> Words(CoinbaseType, CoinbaseSide, CoinbaseTif),
     cryptocom |-> Words(CryptoComType, CryptoComSide, CryptoComTif)]

-----------------------------------------------------------------------------
(* Encoders *)

Worded(o) == DOMAIN o \cap {"order_type", "side", "time_in_force", "close_order_type"}
Sayable(o, words) == \A t \in Worded(o) : o[t] \in DOMAIN words[t]
Say(o, words) == [t \in DOMAIN o |-> IF t \in Worded(o) THEN words[t][o[t]] ELSE o[t]]

\* Every term that is set, under a name of its own.
TermByTerm(o, words) == IF Sayable(o, words) THEN {Say(o, words)} ELSE {}

BinanceOrder(o) == TermByTerm(o, Spoken.binance)
CoinbaseOrder(o) == TermByTerm(o, Spoken.coinbase)
CryptoComOrder(o) == TermByTerm(o, Spoken.cryptocom)
KrakenWsOrder(o) == TermByTerm(o, Spoken.kraken)
OrderParamsToJson(o) == TermByTerm(o, Spoken.kraken)

\* std::to_string of a double writes six decimals.
SixDecimals(q) == ((q + 50) \div 100) * 100
Rounded(o) == [t \in DOMAIN o |-> IF t \in Quantities THEN SixDecimals(o[t]) ELSE o[t]]

\* A flag is sent if it is true.
Only(o, terms) == [t \in {t \in DOMAIN o \cap terms : t \in Flags => o[t]} |-> o[t]]
LimitPrice(o) == IF "limit_price" \in DOMAIN o THEN [price |-> o.limit_price] ELSE <<>>

\* As a limit price that a trigger's does not overwrite would have it.
LimitFirst(o) ==
    IF "limit_price" \in DOMAIN o \/ "trigger_price" \notin DOMAIN o THEN LimitPrice(o)
    ELSE [price |-> o.trigger_price]

\* A trigger price overwrites a limit price.
Price(o) ==
    IF "trigger_price" \in DOMAIN o THEN [price |-> o.trigger_price] ELSE LimitPrice(o)
KrakenRestTerms ==
    {"order_type", "side", "order_qty", "time_in_force", "margin", "post_only", "expire_time",
     "cl_ord_id", "order_userref", "display_qty", "validate", "deadline", "close_order_type",
     "close_limit_price", "close_trigger_price"}
KrakenRestOrder(o) ==
    IF ~Sayable(o, Spoken.kraken) THEN {}
    ELSE {Also(Price(o), Rounded(Say(Only(o, KrakenRestTerms), Spoken.kraken)))}

\* In a batch only these; a time in force is not looked at, and cannot throw.
KrakenBatchTerms == {"order_type", "side", "order_qty", "cl_ord_id", "order_userref"}
KrakenBatchOrder(o) ==
    {Also(LimitPrice(o), Rounded(Say(Only(o, KrakenBatchTerms), Spoken.kraken)))}

-----------------------------------------------------------------------------
(* What the exchanges' words mean: the from_string converters. *)

KrakenTypeMeans ==
    [w \in {"limit", "market", "iceberg", "stop-loss", "stop-loss-limit", "take-profit",
            "take-profit-limit", "trailing-stop", "trailing-stop-limit", "settle-position"} |->
        CASE w = "limit" -> "Limit"
          [] w = "market" -> "Market"
          [] w = "iceberg" -> "Iceberg"
          [] w = "stop-loss" -> "StopLoss"
          [] w = "stop-loss-limit" -> "StopLossLimit"
          [] w = "take-profit" -> "TakeProfit"
          [] w = "take-profit-limit" -> "TakeProfitLimit"
          [] w = "trailing-stop" -> "TrailingStop"
          [] w = "trailing-stop-limit" -> "TrailingStopLimit"
          [] w = "settle-position" -> "SettlePosition"]
BinanceTypeMeans ==
    [LIMIT |-> "Limit", MARKET |-> "Market", STOP_LOSS |-> "StopLoss",
     STOP_LOSS_LIMIT |-> "StopLossLimit", TAKE_PROFIT |-> "TakeProfit",
     TAKE_PROFIT_LIMIT |-> "TakeProfitLimit"]
CoinbaseTypeMeans == [limit |-> "Limit", market |-> "Market"]
CryptoComTypeMeans ==
    [LIMIT |-> "Limit", MARKET |-> "Market", STOP_LOSS |-> "StopLoss",
     STOP_LIMIT |-> "StopLossLimit", TAKE_PROFIT |-> "TakeProfit",
     TAKE_PROFIT_LIMIT |-> "TakeProfitLimit"]

KrakenTifMeans == [gtc |-> "GTC", gtd |-> "GTD", ioc |-> "IOC"]
BinanceTifMeans == [GTC |-> "GTC", IOC |-> "IOC", FOK |-> "FOK"]
CoinbaseTifMeans == [GTC |-> "GTC", GTT |-> "GTD", IOC |-> "IOC", FOK |-> "FOK"]
CryptoComTifMeans ==
    [GOOD_TILL_CANCEL |-> "GTC", IMMEDIATE_OR_CANCEL |-> "IOC", FILL_OR_KILL |-> "FOK"]

SideMeans == [buy |-> "Buy", sell |-> "Sell"]
BinanceSideMeans == [BUY |-> "Buy", SELL |-> "Sell"]

Means ==
    [kraken |-> Words(KrakenTypeMeans, SideMeans, KrakenTifMeans),
     binance |-> Words(BinanceTypeMeans, BinanceSideMeans, BinanceTifMeans),
     coinbase |-> Words(CoinbaseTypeMeans, SideMeans, CoinbaseTifMeans),
     cryptocom |-> Words(CryptoComTypeMeans, BinanceSideMeans, CryptoComTifMeans)]

OrderParamsFromJson(w) == Say(w, Means.kraken)

\* An exchange reads a request (external): the words by their meaning, and
\* Kraken the price of an order that has a trigger as the trigger's.
PriceTerm(type) == IF type \in Triggered THEN "trigger_price" ELSE "limit_price"
Understood(exchange, w) ==
    LET o == Say(w, Means[exchange]) IN
    IF "price" \notin DOMAIN o THEN o
    ELSE Also([t \in DOMAIN o \ {"price"} |-> o[t]],
              [t \in {PriceTerm(o.order_type)} |-> o.price])
=============================================================================
