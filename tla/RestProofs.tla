------------------------------ MODULE RestProofs ------------------------------
(***************************************************************************)
(* The invariants of RestClient for every set of exchanges and every bound.  *)
(*                                                                         *)
(* Every call comes down to Perform of a request that is Proper: one that    *)
(* perform() sends as it is, whatever the handle still holds, and whose      *)
(* signature, if it has one, is of itself. That every endpoint, every        *)
(* build() and every sign() makes such a request is what the lemmas say; so  *)
(* is that each exchange reads an order as it was asked.                     *)
(***************************************************************************)
EXTENDS RestClient, TLAPS

\* Every endpoint reads fields of kinds that Reading knows.
Kinds == {"plain", "checked", "status", "listed", "whole", "element", "row", "unruly",
          "positional", "lenient", "tolerant"}
Typed(e) == e.json \in BOOLEAN /\ e.reads \subseteq Kinds


\* What perform() relies on, and that r has the fields that signing sets.
Sendable(r) ==
    /\ r.method \in Methods /\ (r.method = "GET" => r.body = <<>>) /\ Typed(r)
    /\ {"method", "path", "query", "body", "headers", "private", "signature", "time"} \subseteq DOMAIN r

\* A sequence, of whatever.
IsSeq(q) == \E S : q \in Seq(S)

\* What build() makes of an endpoint with one of the three methods.
Built(r) ==
    /\ Sendable(r) /\ r.private = FALSE
    /\ IsSeq(r.query) /\ IsSeq(r.body)
    /\ r.method = "POST" => r.query = <<>>
    /\ r.method # "POST" => r.body = <<>>

\* Whatever options earlier requests have left on the handle, libcurl is given
\* the request's own method, headers and body.
LEMMA PerformOverwrites ==
    ASSUME NEW r, NEW n, Sendable(r)
    PROVE  LET s == OnWire(r, Options(r, n)) IN
            /\ s.verb = r.method /\ s.path = r.path /\ s.query = r.query /\ s.params = r.params
            /\ r.headers # {} => s.headers = r.headers
            /\ r.method \in {"GET", "POST"} => s.body = r.body
<1>1. CASE r.method = "GET"
    BY <1>1 DEF Sendable, OnWire, Options, CustomRequest, HeaderOption, HasFields
<1>2. CASE r.method = "POST"
    BY <1>2 DEF OnWire, Options, CustomRequest, HeaderOption, HasFields
<1>3. CASE r.method = "DELETE"
    BY <1>3 DEF OnWire, Options, CustomRequest, HeaderOption, HasFields
<1> QED BY <1>1, <1>2, <1>3 DEF Sendable, Methods

LEMMA Sequences ==
    /\ IsSeq(<<>>)
    /\ \A x : IsSeq(<<x>>)
    /\ \A x, y : IsSeq(<<x, y>>)
    /\ \A p, q : IsSeq(p) /\ IsSeq(q) => IsSeq(p \o q)
<1>1. IsSeq(<<>>) BY <<>> \in Seq({}) DEF IsSeq
<1>2. ASSUME NEW x PROVE IsSeq(<<x>>) BY <<x>> \in Seq({x}) DEF IsSeq
<1>3. ASSUME NEW x, NEW y PROVE IsSeq(<<x, y>>) BY <<x, y>> \in Seq({x, y}) DEF IsSeq
<1>4. ASSUME NEW p, NEW q, IsSeq(p), IsSeq(q) PROVE IsSeq(p \o q)
    <2>1. PICK S : p \in Seq(S) BY <1>4 DEF IsSeq
    <2>2. PICK T : q \in Seq(T) BY <1>4 DEF IsSeq
    <2>3. p \in Seq(S \cup T) /\ q \in Seq(S \cup T) BY <2>1, <2>2
    <2>4. p \o q \in Seq(S \cup T) BY <2>3
    <2> QED BY <2>4 DEF IsSeq
<1> QED BY <1>1, <1>2, <1>3, <1>4

LEMMA RequestIsBuilt ==
    ASSUME NEW e, e.method \in Methods, Typed(e), NEW n, NEW asks, NEW params
    PROVE  Built(Request(e, n, asks, params))
BY Sequences DEF Request, Built, Sendable, Typed, Methods

LEMMA RequestsAreBuilt ==
    ASSUME NEW e, e.method \in Methods, Typed(e), NEW n, NEW r \in Requests(e, n)
    PROVE  Built(r)
BY RequestIsBuilt DEF Requests

\* Replacing the headers leaves a request as it was built.
LEMMA HeadersDoNotMatter ==
    ASSUME NEW r, Built(r), NEW h
    PROVE  Built([r EXCEPT !.headers = h])
BY DEF Built, Sendable, Typed

\* Every endpoint has one of the three methods.
LEMMA KrakenMethods ==
    \A e \in Public.kraken \cup Private.kraken \cup Placing.kraken : e.method \in Methods
<1>1. \A e \in Public.kraken : e.method = "GET"
    BY DEF Public, KrakenReference, KrakenPrices, Get, Endpoint
<1>2. \A e \in KrakenAccount \cup KrakenHistory \cup KrakenFunding : e.method = "POST"
    BY DEF KrakenAccount, KrakenHistory, KrakenFunding, KrakenPost, Endpoint
<1>3. \A e \in KrakenTrading \cup Placing.kraken : e.method = "POST"
    BY DEF KrakenTrading, Placing, KrakenAddOrder, KrakenAddOrderBatch, Json, KrakenPost, Endpoint
<1> QED BY <1>1, <1>2, <1>3 DEF Private, Methods

LEMMA BinanceMethods ==
    \A e \in Public.binance \cup Private.binance \cup Placing.binance : e.method \in Methods
<1>1. \A e \in Public.binance \cup BinanceAccount : e.method = "GET"
    BY DEF Public, BinancePublic, BinanceAccount, Get, Endpoint
<1>2. \A e \in BinanceCancels : e.method = "DELETE"
    BY DEF BinanceCancels, Delete, Endpoint
<1>3. \A e \in Placing.binance : e.method = "POST"
    BY DEF Placing, BinanceNewOrder, Post, Endpoint
<1> QED BY <1>1, <1>2, <1>3 DEF Private, Methods

LEMMA CoinbaseMethods ==
    \A e \in Public.coinbase \cup Private.coinbase \cup Placing.coinbase : e.method \in Methods
<1>1. \A e \in Public.coinbase \cup CoinbaseAccounts : e.method = "GET"
    BY DEF Public, CoinbasePublic, CoinbaseCharts, CoinbaseAccounts, Get, Endpoint
<1>2. \A e \in CoinbaseOrders : e.method \in {"GET", "DELETE"}
    BY DEF CoinbaseOrders, Get, Delete, Endpoint
<1>3. \A e \in Placing.coinbase : e.method = "POST"
    BY DEF Placing, CoinbasePlaceOrder, Json, Post, Endpoint
<1> QED BY <1>1, <1>2, <1>3 DEF Private, Methods

LEMMA CryptoComMethods ==
    \A e \in Public.cryptocom \cup Private.cryptocom \cup Placing.cryptocom : e.method \in Methods
<1>1. \A e \in Public.cryptocom : e.method = "GET"
    BY DEF Public, CryptoComPublic, CryptoComCharts, Get, Endpoint
<1>2. \A e \in Private.cryptocom \cup Placing.cryptocom : e.method = "POST"
    BY DEF Private, Placing, CryptoComBalance, CryptoComOrders, CryptoComCreateOrder,
           CryptoComPost, Json, Post, Endpoint
<1> QED BY <1>1, <1>2 DEF Methods

LEMMA EndpointMethods ==
    ASSUME ExchangesAssumption, NEW x \in Exchanges,
           NEW e \in Public[x] \cup Private[x] \cup Placing[x]
    PROVE  e.method \in Methods
<1>1. x \in {"kraken", "binance", "coinbase", "cryptocom", "direct"}
    BY DEF ExchangesAssumption
<1>2. x # "direct"
    BY DEF Public, Private, Placing
<1> QED BY <1>1, <1>2, KrakenMethods, BinanceMethods, CoinbaseMethods, CryptoComMethods

LEMMA EndpointTyped ==
    \A m, p, a, g, f, r : r \subseteq Kinds =>
        Typed(Endpoint(m, p, a, g, f, r)) /\ Typed(Json(Endpoint(m, p, a, g, f, r)))
BY DEF Typed, Endpoint, Json

LEMMA KrakenTyped ==
    \A e \in Public.kraken \cup Private.kraken \cup Placing.kraken : Typed(e)
<1> USE EndpointTyped
<1>1. \A e \in KrakenReference \cup KrakenPrices : Typed(e)
    <2>1. /\ {"plain"} \subseteq Kinds /\ {"whole", "plain"} \subseteq Kinds
          /\ {"whole", "plain", "checked"} \subseteq Kinds
          /\ {"whole", "checked", "unruly"} \subseteq Kinds
          /\ {"whole", "plain", "unruly"} \subseteq Kinds /\ {"whole", "unruly"} \subseteq Kinds
        BY DEF Kinds
    <2> QED BY <2>1 DEF KrakenReference, KrakenPrices, Get
<1>2. \A e \in KrakenAccount \cup KrakenHistory : Typed(e)
    <2>1. /\ {"whole", "checked"} \subseteq Kinds /\ {"checked"} \subseteq Kinds
          /\ {"listed"} \cup KrakenOrderInfo \subseteq Kinds
          /\ {"whole"} \cup KrakenOrderInfo \subseteq Kinds
          /\ {"listed"} \cup KrakenTradeInfo \subseteq Kinds
          /\ {"whole"} \cup KrakenTradeInfo \subseteq Kinds
          /\ {"whole", "plain", "checked"} \subseteq Kinds
          /\ {"listed"} \cup KrakenLedgerEntry \subseteq Kinds
          /\ {"whole"} \cup KrakenLedgerEntry \subseteq Kinds
        BY DEF Kinds, KrakenOrderInfo, KrakenTradeInfo, KrakenLedgerEntry
    <2> QED BY <2>1 DEF KrakenAccount, KrakenHistory, KrakenPost
<1>3. \A e \in KrakenTrading \cup KrakenFunding \cup Placing.kraken : Typed(e)
    <2>1. /\ {"plain"} \subseteq Kinds /\ {"listed", "plain"} \subseteq Kinds
          /\ {"whole", "plain"} \subseteq Kinds /\ {"element"} \subseteq Kinds
        BY DEF Kinds
    <2> QED BY <2>1 DEF KrakenTrading, KrakenFunding, Placing, KrakenAddOrder, KrakenAddOrderBatch,
                       KrakenPost
<1> QED BY <1>1, <1>2, <1>3 DEF Public, Private

LEMMA BinanceTyped ==
    \A e \in Public.binance \cup Private.binance \cup Placing.binance : Typed(e)
<1> USE EndpointTyped
<1>1. \A e \in BinancePublic : Typed(e)
    <2>1. /\ {} \subseteq Kinds /\ {"plain"} \subseteq Kinds /\ {"plain", "checked"} \subseteq Kinds
          /\ {"listed", "plain", "row"} \subseteq Kinds /\ {"whole", "row"} \subseteq Kinds
          /\ {"whole", "plain", "checked"} \subseteq Kinds
          /\ {"listed", "element", "plain"} \subseteq Kinds
        BY DEF Kinds
    <2> QED BY <2>1 DEF BinancePublic, Get
<1>2. \A e \in BinanceAccount \cup BinanceCancels \cup Placing.binance : Typed(e)
    <2>1. /\ {"listed", "element", "plain", "checked"} \subseteq Kinds
          /\ {"whole"} \cup BinanceOrderFields \subseteq Kinds
          /\ {"listed"} \cup BinanceOrderFields \subseteq Kinds
          /\ BinanceOrderFields \subseteq Kinds /\ {"whole", "plain", "checked"} \subseteq Kinds
        BY DEF Kinds, BinanceOrderFields
    <2> QED BY <2>1 DEF BinanceAccount, BinanceCancels, Placing, BinanceNewOrder, Get, Post, Delete
<1> QED BY <1>1, <1>2 DEF Public, Private

LEMMA CoinbaseTyped ==
    \A e \in Public.coinbase \cup Private.coinbase \cup Placing.coinbase : Typed(e)
<1> USE EndpointTyped
<1>1. \A e \in CoinbasePublic \cup CoinbaseCharts : Typed(e)
    <2>1. /\ {"plain"} \subseteq Kinds /\ {"whole", "plain", "checked"} \subseteq Kinds
          /\ {"plain", "checked"} \subseteq Kinds /\ {"checked"} \subseteq Kinds
          /\ {"listed", "plain", "row", "lenient"} \subseteq Kinds /\ {"whole", "row"} \subseteq Kinds
        BY DEF Kinds
    <2> QED BY <2>1 DEF CoinbasePublic, CoinbaseCharts, Get
<1>2. \A e \in CoinbaseAccounts \cup CoinbaseOrders \cup Placing.coinbase : Typed(e)
    <2>1. /\ {"whole", "plain", "checked"} \subseteq Kinds /\ {"plain", "checked"} \subseteq Kinds
          /\ CoinbaseOrderFields \subseteq Kinds /\ {"whole"} \cup CoinbaseOrderFields \subseteq Kinds
          /\ {"lenient", "plain"} \subseteq Kinds /\ {"whole", "element"} \subseteq Kinds
        BY DEF Kinds, CoinbaseOrderFields
    <2> QED BY <2>1 DEF CoinbaseAccounts, CoinbaseOrders, Placing, CoinbasePlaceOrder, Get, Post, Delete
<1> QED BY <1>1, <1>2 DEF Public, Private

LEMMA CryptoComTyped ==
    \A e \in Public.cryptocom \cup Private.cryptocom \cup Placing.cryptocom : Typed(e)
<1> USE EndpointTyped
<1>1. /\ {"plain", "lenient", "tolerant"} \subseteq Kinds /\ {"lenient", "tolerant"} \subseteq Kinds
      /\ {"lenient", "positional"} \subseteq Kinds /\ {"lenient"} \subseteq Kinds
      /\ {} \subseteq Kinds /\ CryptoComOrderFields \subseteq Kinds
    BY DEF Kinds, CryptoComOrderFields
<1>2. \A e \in CryptoComPublic \cup CryptoComCharts : Typed(e)
    BY <1>1 DEF CryptoComPublic, CryptoComCharts, Get
<1>3. \A e \in CryptoComBalance \cup CryptoComOrders \cup Placing.cryptocom : Typed(e)
    BY <1>1 DEF CryptoComBalance, CryptoComOrders, Placing, CryptoComCreateOrder, CryptoComPost, Post
<1> QED BY <1>2, <1>3 DEF Public, Private

LEMMA EndpointsTyped ==
    ASSUME ExchangesAssumption, NEW x \in Exchanges,
           NEW e \in Public[x] \cup Private[x] \cup Placing[x]
    PROVE  Typed(e)
<1>1. x \in {"kraken", "binance", "coinbase", "cryptocom", "direct"}
    BY DEF ExchangesAssumption
<1>2. x # "direct"
    BY DEF Public, Private, Placing
<1> QED BY <1>1, <1>2, KrakenTyped, BinanceTyped, CoinbaseTyped, CryptoComTyped

LEMMA DirectTyped == \A e \in Direct : Typed(e)
<1>1. {} \subseteq Kinds OBVIOUS
<1> QED BY <1>1, EndpointTyped DEF Direct, DirectDelete, Get, Post, Delete

\* The requests of a program that calls CurlHttpClient itself.
LEMMA DirectAreSendable ==
    ASSUME NEW n, NEW r \in DirectRequests(n)
    PROVE  Sendable(r) /\ r.private = FALSE
<1>1. /\ \A e \in Direct : e.method \in Methods /\ Typed(e)
      /\ DirectDelete \in Direct /\ DirectDelete.method = "DELETE"
    BY DirectTyped DEF Direct, DirectDelete, Post, Delete, Get, Endpoint, Methods
<1>2. \A q \in WithoutHeaders(n) : Built(q)
    BY <1>1, RequestsAreBuilt DEF WithoutHeaders
<1>3. CASE \E q \in Requests(DirectDelete, n) : r = [q EXCEPT !.body = <<Params(n)>>]
    <2>1. PICK q \in Requests(DirectDelete, n) : r = [q EXCEPT !.body = <<Params(n)>>]
        BY <1>3
    <2>2. Built(q)
        BY <1>1, <2>1, RequestsAreBuilt
    <2>3. q.method = "DELETE"
        BY <1>1, <2>1 DEF Requests, Request
    <2> QED BY <2>1, <2>2, <2>3 DEF Built, Sendable, Typed
<1>4. CASE \E q \in WithoutHeaders(n) : r = [q EXCEPT !.headers = {"Content-Type: text"}]
    BY <1>2, <1>4, HeadersDoNotMatter DEF Built
<1>5. \/ r \in WithoutHeaders(n)
      \/ \E q \in WithoutHeaders(n) : r = [q EXCEPT !.headers = {"Content-Type: text"}]
      \/ \E q \in Requests(DirectDelete, n) : r = [q EXCEPT !.body = <<Params(n)>>]
    BY DEF DirectRequests
<1> QED BY <1>2, <1>3, <1>4, <1>5 DEF Built

\* What build() makes for a public endpoint can be sent.
LEMMA PublicAreSendable ==
    ASSUME NEW n, NEW r \in PublicRequests(n), ExchangesAssumption, exchange \in Exchanges
    PROVE  Sendable(r) /\ r.private = FALSE
<1>1. CASE exchange = "direct"
    BY <1>1, DirectAreSendable DEF PublicRequests
<1>2. CASE exchange = "coinbase"
    <2>1. PICK e \in Public.coinbase : \E q \in Requests(e, n) : r = UserAgent(q)
        BY <1>2 DEF PublicRequests
    <2>2. Built(r)
        BY <1>2, <2>1, EndpointMethods, EndpointsTyped, RequestsAreBuilt, HeadersDoNotMatter
        DEF UserAgent
    <2> QED BY <2>2 DEF Built
<1>3. CASE exchange \notin {"direct", "coinbase"}
    <2>1. PICK e \in Public[exchange] : r \in Requests(e, n)
        BY <1>3 DEF PublicRequests
    <2>2. Built(r)
        BY <2>1, EndpointMethods, EndpointsTyped, RequestsAreBuilt
    <2> QED BY <2>2 DEF Built
<1> QED BY <1>1, <1>2, <1>3

\* A client signs only the requests of its exchange; a request made for Kraken or
\* Crypto.com is a POST, and Kraken's says what its body is.
Signable(r) ==
    /\ Built(r)
    /\ exchange \in {"kraken", "cryptocom"} => r.method = "POST"
    /\ exchange = "kraken" => r.headers = {Content(r)}

WithBody(r, b, h) == [r EXCEPT !.body = b, !.headers = h]

LEMMA PostWithBody ==
    ASSUME NEW r, Built(r), r.method = "POST", NEW b, IsSeq(b), NEW h
    PROVE  /\ Built(WithBody(r, b, h)) /\ WithBody(r, b, h).method = "POST"
           /\ WithBody(r, b, h).headers = h /\ WithBody(r, b, h).json = r.json
BY DEF WithBody, Built, Sendable, Typed, Methods

LEMMA MadePrivateIsSignable ==
    ASSUME NEW n, NEW r, Built(r), exchange \in {"kraken", "cryptocom"} => r.method = "POST"
    PROVE  Signable(MakePrivate(n, r))
<1>1. CASE exchange = "kraken"
    <2> DEFINE b == <<Time(clock)>> \o r.body
    <2>1. IsSeq(b) BY Sequences DEF Built
    <2>2. MakePrivate(n, r) = WithBody(r, b, {Content(r)})
        BY <1>1 DEF MakePrivate, KrakenPrivate, WithBody, Built, Sendable
    <2> HIDE DEF b
    <2>3. /\ Built(MakePrivate(n, r)) /\ MakePrivate(n, r).method = "POST"
          /\ MakePrivate(n, r).headers = {Content(r)} /\ MakePrivate(n, r).json = r.json
        BY <1>1, <2>1, <2>2, PostWithBody
    <2>4. Content(MakePrivate(n, r)) = Content(r) BY <2>3 DEF Content
    <2> QED BY <1>1, <2>3, <2>4 DEF Signable
<1>2. CASE exchange = "cryptocom"
    <2> DEFINE b == <<Method(Path(r.path)), Id(n)>> \o r.body \o <<Time(clock)>>
    <2>1. IsSeq(b) BY Sequences DEF Built
    <2>2. MakePrivate(n, r) = WithBody(r, b, {Content(r)})
        BY <1>2 DEF MakePrivate, CryptoComPrivate, WithBody, Built, Sendable
    <2> HIDE DEF b
    <2>3. Built(MakePrivate(n, r)) /\ MakePrivate(n, r).method = "POST"
        BY <1>2, <2>1, <2>2, PostWithBody
    <2> QED BY <1>2, <2>3 DEF Signable
<1>3. CASE exchange = "coinbase"
    BY <1>3, HeadersDoNotMatter DEF MakePrivate, UserAgent, Signable
<1>4. CASE exchange \notin {"kraken", "cryptocom", "coinbase"}
    BY <1>4 DEF MakePrivate, Signable
<1> QED BY <1>1, <1>2, <1>3, <1>4

LEMMA PrivateMethods ==
    ASSUME NEW e \in Private[exchange] \cup Placing[exchange],
           exchange \in {"kraken", "cryptocom"}
    PROVE  e.method = "POST"
<1>1. CASE exchange = "kraken"
    <2>1. \A d \in KrakenAccount \cup KrakenHistory \cup KrakenFunding : d.method = "POST"
        BY DEF KrakenAccount, KrakenHistory, KrakenFunding, KrakenPost, Endpoint
    <2>2. \A d \in KrakenTrading \cup Placing.kraken : d.method = "POST"
        BY DEF KrakenTrading, Placing, KrakenAddOrder, KrakenAddOrderBatch, Json, KrakenPost,
               Endpoint
    <2> QED BY <1>1, <2>1, <2>2 DEF Private
<1>2. CASE exchange = "cryptocom"
    BY <1>2 DEF Private, Placing, CryptoComBalance, CryptoComOrders, CryptoComCreateOrder,
                CryptoComPost, Json, Post, Endpoint
<1> QED BY <1>1, <1>2

LEMMA PrivateAreSignable ==
    ASSUME NEW n, NEW r \in PrivateRequests(n), ExchangesAssumption, exchange \in Exchanges
    PROVE  Signable(r)
<1>1. PICK e \in Private[exchange] : \E q \in Requests(e, n) : r = MakePrivate(n, q)
    BY DEF PrivateRequests
<1>2. PICK q \in Requests(e, n) : r = MakePrivate(n, q)
    BY <1>1
<1>3. Built(q)
    BY <1>2, EndpointMethods, EndpointsTyped, RequestsAreBuilt
<1>4. q.method = e.method
    BY <1>2 DEF Requests, Request
<1> QED BY <1>2, <1>3, <1>4, PrivateMethods, MadePrivateIsSignable

LEMMA OrdersAreSignable ==
    ASSUME NEW n, NEW e \in Placing[exchange], NEW o, NEW r \in OrderRequests(e, n, o),
           ExchangesAssumption, exchange \in Exchanges
    PROVE  Signable(r)
<1>1. PICK w \in Encoded(e, o) : r = MakePrivate(n, Request(e, n, o, w))
    BY DEF OrderRequests
<1>2. Built(Request(e, n, o, w))
    BY EndpointMethods, EndpointsTyped, RequestIsBuilt
<1>3. Request(e, n, o, w).method = e.method
    BY DEF Request
<1> QED BY <1>1, <1>2, <1>3, PrivateMethods, MadePrivateIsSignable

-----------------------------------------------------------------------------
(* Signing *)

\* A signature that was added at the end is what Unsigned takes off.
LEMMA UnsignedOf ==
    ASSUME NEW s, IsSeq(s)
    PROVE  Unsigned(s \o <<Sig>>) = s
<1> DEFINE q == s \o <<Sig>>
<1>0. PICK S : s \in Seq(S) BY DEF IsSeq
<1>1. s \in Seq(S \cup {Sig}) /\ <<Sig>> \in Seq(S \cup {Sig}) BY <1>0
<1>2. q \in Seq(S \cup {Sig}) /\ Len(q) = Len(s) + 1 /\ q[Len(q)] = Sig BY <1>1
<1>3. q # <<>> BY <1>2
<1>4. SubSeq(q, 1, Len(q) - 1) \in Seq(S \cup {Sig}) /\ Len(SubSeq(q, 1, Len(q) - 1)) = Len(s)
    BY <1>1, <1>2
<1>5. \A i \in 1..Len(s) : SubSeq(q, 1, Len(q) - 1)[i] = s[i]
    BY <1>1, <1>2
<1>6. SubSeq(q, 1, Len(q) - 1) = s BY <1>1, <1>4, <1>5
<1> QED BY <1>2, <1>3, <1>6 DEF Unsigned

\* A request with nothing in a part has no signature there to take off.
LEMMA UnsignedNothing == Unsigned(<<>>) = <<>>
BY DEF Unsigned

\* The request perform() is given: it can be sent, and its signature is of itself.
Proper(r) == Sendable(r) /\ (r.private => r.signature = Verified(r))

LEMMA SignedFields ==
    ASSUME NEW r, Sendable(r), NEW s, NEW h
    PROVE  LET q == Signed(r, s, h) IN
            /\ Sendable(q) /\ q.signature = s /\ q.time = clock
            /\ q.body = r.body /\ q.query = r.query /\ q.path = r.path /\ q.method = r.method
BY DEF Signed, Sendable, Typed

LEMMA KrakenSignsItself ==
    ASSUME NEW r, Signable(r), exchange = "kraken"
    PROVE  Proper(KrakenSign(r))
<1> DEFINE s == <<Path(r.path)>> \o NoncePart(r.body) \o r.body
           q == Signed(r, s, {"API-Key", "API-Sign"})
<1>1. Sendable(r) /\ r.headers = {Content(r)}
    BY DEF Signable, Built, Sendable, Typed
<1>2. NonceIn(r) = NoncePart(r.body)
    BY <1>1 DEF NonceIn
<1>3. KrakenSign(r) = q
    BY <1>2 DEF KrakenSign
<1> HIDE DEF s
<1>4. Sendable(q) /\ q.signature = s /\ q.path = r.path /\ q.body = r.body
    BY <1>1, SignedFields
<1> HIDE DEF q
<1>5. Verified(q) = s
    BY <1>4 DEF Verified, s
<1> QED BY <1>3, <1>4, <1>5 DEF Proper

LEMMA BinanceSignsItself ==
    ASSUME NEW r, Signable(r), exchange = "binance"
    PROVE  Proper(BinanceSign(r))
<1>0. Built(r)
    BY DEF Signable
<1>1. PICK h : BinanceSign(r) =
            Signed(AddSignature(Stamp(r)), Stamp(r).query \o Stamp(r).body, h)
    BY DEF BinanceSign
<1>4. ASSUME Sendable(AddSignature(Stamp(r))),
             Stamp(r).query = Unsigned(AddSignature(Stamp(r)).query),
             Stamp(r).body = Unsigned(AddSignature(Stamp(r)).body)
      PROVE  Proper(BinanceSign(r))
    <2> DEFINE q == BinanceSign(r)
               a == AddSignature(Stamp(r))
               s == Stamp(r).query \o Stamp(r).body
    <2>0. q = Signed(a, s, h) /\ Sendable(a) BY <1>1, <1>4
    <2> HIDE DEF a, s, q
    <2>1. Sendable(q) /\ q.signature = s /\ q.query = a.query /\ q.body = a.body
        BY <2>0, SignedFields
    <2>2. Verified(q) = Unsigned(q.query) \o Unsigned(q.body)
        BY DEF Verified
    <2>3. q.signature = Verified(q)
        BY <1>4, <2>1, <2>2 DEF a, s
    <2> QED BY <2>1, <2>3 DEF q, Proper
<1>2. CASE r.method = "POST"
    <2> DEFINE b == r.body \o <<Time(clock)>>
    <2>1. IsSeq(b) BY <1>0, Sequences DEF Built
    <2>2. Stamp(r) = [r EXCEPT !.body = b] BY <1>2 DEF Stamp
    <2>3. AddSignature(Stamp(r)) = [r EXCEPT !.body = b \o <<Sig>>]
        BY <1>0, <1>2, <2>2 DEF AddSignature, Built, Sendable
    <2>4. Sendable(AddSignature(Stamp(r)))
        BY <1>0, <1>2, <2>3 DEF Built, Sendable, Typed, Methods
    <2>5. Stamp(r).query = <<>> /\ Stamp(r).body = b
        BY <1>0, <1>2, <2>2 DEF Built, Sendable
    <2>6. AddSignature(Stamp(r)).query = <<>> /\ AddSignature(Stamp(r)).body = b \o <<Sig>>
        BY <1>0, <1>2, <2>3 DEF Built, Sendable
    <2>7. Unsigned(b \o <<Sig>>) = b
        BY <2>1, UnsignedOf
    <2> QED BY <1>4, <2>4, <2>5, <2>6, <2>7, UnsignedNothing
<1>3. CASE r.method # "POST"
    <2> DEFINE b == r.query \o <<Time(clock)>>
    <2>1. IsSeq(b) BY <1>0, Sequences DEF Built
    <2>2. Stamp(r) = [r EXCEPT !.query = b] BY <1>3 DEF Stamp
    <2>3. AddSignature(Stamp(r)) = [r EXCEPT !.query = b \o <<Sig>>]
        BY <1>0, <1>3, <2>2 DEF AddSignature, Built, Sendable
    <2>4. Sendable(AddSignature(Stamp(r)))
        BY <1>0, <1>3, <2>3 DEF Built, Sendable, Typed, Methods
    <2>5. Stamp(r).query = b /\ Stamp(r).body = <<>>
        BY <1>0, <1>3, <2>2 DEF Built, Sendable
    <2>6. AddSignature(Stamp(r)).query = b \o <<Sig>> /\ AddSignature(Stamp(r)).body = <<>>
        BY <1>0, <1>3, <2>3 DEF Built, Sendable
    <2>7. Unsigned(b \o <<Sig>>) = b
        BY <2>1, UnsignedOf
    <2> QED BY <1>4, <2>4, <2>5, <2>6, <2>7, UnsignedNothing
<1> QED BY <1>2, <1>3

LEMMA CoinbaseSignsItself ==
    ASSUME NEW r, Signable(r), exchange = "coinbase"
    PROVE  Proper(CoinbaseSign(r))
<1>1. Sendable(r)
    BY DEF Signable, Built
<1> DEFINE s == <<Time(clock), Method(r.method), Path(r.path)>> \o r.query \o r.body
<1>2. PICK h : CoinbaseSign(r) = Signed(r, s, h)
    BY DEF CoinbaseSign
<1> DEFINE q == Signed(r, s, h)
<1> HIDE DEF s
<1>3. /\ Sendable(q) /\ q.signature = s /\ q.time = clock /\ q.method = r.method
      /\ q.path = r.path /\ q.query = r.query /\ q.body = r.body
    BY <1>1, SignedFields
<1> HIDE DEF q
<1>4. Verified(q) = s
    BY <1>3 DEF Verified, s
<1> QED BY <1>2, <1>3, <1>4 DEF q, Proper

LEMMA CryptoComSignsItself ==
    ASSUME NEW r, Signable(r), exchange = "cryptocom"
    PROVE  Proper(CryptoComSign(r))
<1> DEFINE q == [r EXCEPT !.body = @ \o <<Sig>>]
<1>1. Built(r) /\ r.method = "POST"
    BY DEF Signable
<1>2. Sendable(q) /\ q.body = r.body \o <<Sig>>
    BY <1>1 DEF Built, Sendable, Typed, Methods
<1>3. Unsigned(r.body \o <<Sig>>) = r.body
    BY <1>1, UnsignedOf DEF Built
<1>4. CryptoComSign(r) = Signed(q, r.body, {})
    BY DEF CryptoComSign
<1> DEFINE t == Signed(q, r.body, {})
<1> HIDE DEF q
<1>5. Sendable(t) /\ t.signature = r.body /\ t.body = q.body
    BY <1>2, SignedFields
<1> HIDE DEF t
<1>6. Verified(t) = r.body
    BY <1>2, <1>3, <1>5 DEF Verified
<1> QED BY <1>4, <1>5, <1>6 DEF t, Proper

LEMMA SignedAreProper ==
    ASSUME NEW r, Signable(r), exchange \in {"kraken", "binance", "coinbase", "cryptocom"}
    PROVE  Proper(Sign(r))
BY KrakenSignsItself, BinanceSignsItself, CoinbaseSignsItself, CryptoComSignsItself DEF Sign

-----------------------------------------------------------------------------
(* Replies *)

\* What from_json does with a flaw is what Readable says of it.
LEMMA ReadingsAreMeant ==
    ASSUME NEW k \in Kinds, NEW o \in DOMAIN Reading[k]
    PROVE  LET flaw == [kind |-> k, oddity |-> o] IN
            /\ ReadingOf(flaw) = "throws" => ~Readable(flaw)
            /\ ReadingOf(flaw) = "undefined" => k = "unruly" /\ o = "absent" /\ ~Readable(flaw)
            /\ ReadingOf(flaw) \notin {"throws", "undefined"} => Readable(flaw)
<1> DEFINE flaw == [kind |-> k, oddity |-> o]
<1>1. ReadingOf(flaw) = Reading[k][o] /\ flaw # Flawless
    BY DEF ReadingOf, Flawless, Kinds
<1>2. CASE k \in {"plain", "checked", "status"}
    BY <1>1, <1>2 DEF Reading, Readable
<1>3. CASE k \in {"listed", "whole", "element", "row"}
    BY <1>1, <1>3 DEF Reading, Readable
<1>4. CASE k \in {"unruly", "positional", "lenient", "tolerant"}
    BY <1>1, <1>4 DEF Reading, Readable
<1> QED BY <1>2, <1>3, <1>4 DEF Kinds

\* A result of a reply, as OkMeansResult wants it, for one reply and one result.
Meant(p, r) ==
    LET undefined == p.flaw.kind = "unruly" /\ p.flaw.oddity = "absent" IN
    /\ ~r.thrown /\ r.ok = ~r.errors
    /\ r.value /\ exchange # "direct" => p.json = "result" /\ (Readable(p.flaw) \/ undefined)
    /\ r.ok /\ ~r.value => exchange = "kraken" /\ p.json = "other"
    /\ ~r.ok => p.json # "result" \/ ~Readable(p.flaw)

Answers == [ok : BOOLEAN, value : BOOLEAN, errors : BOOLEAN, thrown : BOOLEAN]
Empty == RestResponse(TRUE, FALSE)
Full == RestResponse(TRUE, TRUE)

LEMMA ThreeAnswers ==
    /\ RequestFailed \in Answers /\ Empty \in Answers /\ Full \in Answers
    /\ RequestFailed # Empty /\ RequestFailed # Full /\ Empty # Full
BY DEF RequestFailed, Empty, Full, RestResponse, Answers

\* Of a call that is not sent.
LEMMA UnbuiltIsNotOk ==
    ASSUME NEW r \in {RequestFailed, Unbuilt}
    PROVE  /\ r \in Answers /\ ~r.ok
           /\ r.thrown => exchange = "cryptocom"
           /\ ~r.thrown => r.ok = ~r.errors
<1>1. Thrown \in Answers /\ ~Thrown.ok /\ Thrown.thrown BY DEF Thrown, Answers
<1>2. /\ RequestFailed \in Answers /\ ~RequestFailed.ok /\ ~RequestFailed.thrown
      /\ RequestFailed.ok = ~RequestFailed.errors
    BY DEF RequestFailed, RestResponse, Answers
<1> QED BY <1>1, <1>2 DEF Unbuilt

LEMMA FailedIsMeant ==
    ASSUME NEW a, a.json # "result" \/ ~Readable(a.flaw)
    PROVE  Meant(a, RequestFailed)
BY DEF RequestFailed, RestResponse, Meant

LEMMA EmptyIsMeant ==
    ASSUME NEW a, exchange = "kraken", a.json = "other"
    PROVE  Meant(a, Empty)
BY DEF Empty, RestResponse, Meant

LEMMA FullIsMeant ==
    ASSUME NEW a,
           \/ exchange = "direct"
           \/ /\ a.json = "result"
              /\ Readable(a.flaw) \/ (a.flaw.kind = "unruly" /\ a.flaw.oddity = "absent")
    PROVE  Meant(a, Full)
BY DEF Full, RestResponse, Meant

LEMMA ParsedCases ==
    ASSUME NEW a, NEW p \in Parsed(a)
    PROVE  \/ /\ p = RequestFailed
              /\ a.json = "none" \/ ~Accepts(a) \/ ReadingOf(a.flaw) \in {"throws", "undefined"}
           \/ /\ p = Empty
              /\ Accepts(a) /\ exchange = "kraken" /\ a.json \notin {"result", "none"}
           \/ /\ p = Full
              /\ Accepts(a) /\ a.json # "none" /\ (exchange = "kraken" => a.json = "result")
              /\ ReadingOf(a.flaw) # "throws"
<1> DEFINE rejected == a.json = "none" \/ ~Accepts(a)
           absent == exchange = "kraken" /\ a.json # "result"
<1>1. CASE rejected
    BY <1>1 DEF Parsed, Full, Empty
<1>2. CASE ~rejected /\ absent
    BY <1>2 DEF Parsed, Full, Empty
<1>3. CASE ~rejected /\ ~absent
    <2>1. CASE ReadingOf(a.flaw) = "throws" BY <1>3, <2>1 DEF Parsed, Full, Empty
    <2>2. CASE ReadingOf(a.flaw) = "undefined" BY <1>3, <2>2 DEF Parsed, Full, Empty
    <2>3. CASE ReadingOf(a.flaw) \notin {"throws", "undefined"} BY <1>3, <2>3 DEF Parsed, Full, Empty
    <2> QED BY <2>1, <2>2, <2>3
<1> QED BY <1>1, <1>2, <1>3

LEMMA ResultIsAccepted ==
    ASSUME NEW a, a.status = 200, a.json = "result",
           exchange \in {"kraken", "binance", "coinbase", "cryptocom", "direct"}
    PROVE  Accepts(a)
<1>1. CASE exchange = "kraken" BY <1>1 DEF Accepts, KrakenAccepts
<1>2. CASE exchange = "binance" BY <1>2 DEF Accepts, BinanceAccepts
<1>3. CASE exchange = "coinbase" BY <1>3 DEF Accepts, CoinbaseAccepts
<1>4. CASE exchange = "cryptocom" BY <1>4 DEF Accepts, CryptoComAccepts
<1>5. CASE exchange = "direct" BY <1>5 DEF Accepts
<1> QED BY <1>1, <1>2, <1>3, <1>4, <1>5

\* Without a result, only Kraken's client accepts a reply, if it has no error.
LEMMA OtherIsNotAccepted ==
    ASSUME NEW a \in {Lost, Refusal, Reply(502, "none", Flawless), Reply(502, "other", Flawless)},
           exchange \in {"kraken", "binance", "coinbase", "cryptocom"}, Accepts(a), a.json # "none"
    PROVE  exchange = "kraken" /\ a.json = "other"
<1>1. \/ a.json = "error" /\ a = Refusal
      \/ a.json = "other" /\ a.status = 502
    BY DEF Lost, Refusal, Reply
<1>2. CASE exchange = "kraken" BY <1>1, <1>2 DEF Accepts, KrakenAccepts
<1>3. CASE exchange = "binance" BY <1>1, <1>3 DEF Accepts, BinanceAccepts
<1>4. CASE exchange = "coinbase"
    <2>1. a.status \in {400, 502} BY <1>1, <1>4 DEF Refusal, Reply
    <2> QED BY <1>4, <2>1 DEF Accepts, CoinbaseAccepts
<1>5. CASE exchange = "cryptocom" BY <1>1, <1>5 DEF Accepts, CryptoComAccepts
<1> QED BY <1>2, <1>3, <1>4, <1>5

LEMMA ParsedAsMeant ==
    ASSUME NEW r, Typed(r), NEW answer \in Replies(r), NEW p \in Parsed(answer),
           exchange \in {"kraken", "binance", "coinbase", "cryptocom", "direct"}
    PROVE  p \in Answers /\ Meant(answer, p)
<1>0. p \in Answers
    BY ParsedCases, ThreeAnswers
<1>1. CASE answer \in {Lost, Refusal, Reply(502, "none", Flawless), Reply(502, "other", Flawless)}
    <2>1. answer.json \in {"none", "error", "other"} /\ answer.flaw = Flawless
        BY <1>1 DEF Lost, Refusal, Reply
    <2>2. CASE p = RequestFailed
        BY <1>0, <2>1, <2>2, FailedIsMeant
    <2>3. CASE p = Empty
        <3>1. Accepts(answer) /\ exchange = "kraken" /\ answer.json # "none"
            BY <2>3, ParsedCases, ThreeAnswers
        <3>2. answer.json = "other" BY <1>1, <3>1, OtherIsNotAccepted
        <3> QED BY <1>0, <2>3, <3>1, <3>2, EmptyIsMeant
    <2>4. CASE p = Full
        <3>1. Accepts(answer) /\ answer.json # "none" /\ (exchange = "kraken" => answer.json = "result")
            BY <2>4, ParsedCases, ThreeAnswers
        <3>2. exchange = "direct" BY <1>1, <2>1, <3>1, OtherIsNotAccepted
        <3> QED BY <1>0, <2>4, <3>2, FullIsMeant
    <2> QED BY <1>0, <2>2, <2>3, <2>4, ParsedCases
<1>2. CASE \E flaw \in {Flawless} \cup Flaws(r) : answer = Reply(200, "result", flaw)
    <2>1. PICK flaw \in {Flawless} \cup Flaws(r) : answer = Reply(200, "result", flaw)
        BY <1>2
    <2>2. answer.status = 200 /\ answer.json = "result" /\ answer.flaw = flaw
        BY <2>1 DEF Reply
    <2>3. Accepts(answer)
        BY <2>2, ResultIsAccepted
    <2>4. /\ ReadingOf(flaw) = "throws" => ~Readable(flaw)
          /\ ReadingOf(flaw) = "undefined" =>
                flaw.kind = "unruly" /\ flaw.oddity = "absent" /\ ~Readable(flaw)
          /\ ReadingOf(flaw) \notin {"throws", "undefined"} => Readable(flaw)
        <3>1. CASE flaw = Flawless BY <3>1 DEF ReadingOf, Readable
        <3>2. CASE flaw \in Flaws(r)
            <4>1. PICK k \in r.reads : \E o \in DOMAIN Reading[k] : flaw = [kind |-> k, oddity |-> o]
                BY <3>2 DEF Flaws
            <4>2. PICK o \in DOMAIN Reading[k] : flaw = [kind |-> k, oddity |-> o]
                BY <4>1
            <4>3. k \in Kinds BY DEF Typed
            <4> QED BY <4>2, <4>3, ReadingsAreMeant
        <3> QED BY <3>1, <3>2
    <2>5. CASE p = RequestFailed
        <3>1. ~Readable(flaw) BY <2>2, <2>3, <2>4, <2>5, ParsedCases, ThreeAnswers
        <3> QED BY <1>0, <2>2, <2>5, <3>1, FailedIsMeant
    <2>6. CASE p = Full
        <3>1. ReadingOf(flaw) # "throws" BY <2>2, <2>6, ParsedCases, ThreeAnswers
        <3> QED BY <1>0, <2>2, <2>4, <2>6, <3>1, FullIsMeant
    <2>7. p # Empty BY <2>2, ParsedCases, ThreeAnswers
    <2> QED BY <1>0, <2>5, <2>6, <2>7, ParsedCases
<1> QED BY <1>1, <1>2 DEF Replies

-----------------------------------------------------------------------------
(* Orders *)

Worders == {"order_type", "side", "time_in_force", "close_order_type"}

\* The words that an exchange is told are the words that it knows.
LEMMA WordsAreKnown ==
    \A x \in {"kraken", "binance", "coinbase", "cryptocom"}, t \in Worders :
        \A v \in DOMAIN Spoken[x][t] : Means[x][t][Spoken[x][t][v]] = v
<1>1. \A v \in DOMAIN KrakenType : KrakenTypeMeans[KrakenType[v]] = v
    BY DEF KrakenType, KrakenTypeMeans
<1>2. \A v \in DOMAIN BinanceType : BinanceTypeMeans[BinanceType[v]] = v
    BY DEF BinanceType, BinanceTypeMeans
<1>3. \A v \in DOMAIN CoinbaseType : CoinbaseTypeMeans[CoinbaseType[v]] = v
    BY DEF CoinbaseType, CoinbaseTypeMeans
<1>4. \A v \in DOMAIN CryptoComType : CryptoComTypeMeans[CryptoComType[v]] = v
    BY DEF BinanceType, CryptoComType, CryptoComTypeMeans
<1>5. \A v \in DOMAIN KrakenTif : KrakenTifMeans[KrakenTif[v]] = v
    BY DEF KrakenTif, KrakenTifMeans
<1>6. \A v \in DOMAIN BinanceTif : BinanceTifMeans[BinanceTif[v]] = v
    BY DEF BinanceTif, BinanceTifMeans
<1>7. \A v \in DOMAIN CoinbaseTif : CoinbaseTifMeans[CoinbaseTif[v]] = v
    BY DEF CoinbaseTif, CoinbaseTifMeans
<1>8. \A v \in DOMAIN CryptoComTif : CryptoComTifMeans[CryptoComTif[v]] = v
    BY DEF CryptoComTif, CryptoComTifMeans
<1>9. \A v \in {"Buy", "Sell"} :
        /\ SideMeans[KrakenSide[v]] = v /\ BinanceSideMeans[BinanceSide[v]] = v
        /\ SideMeans[CoinbaseSide[v]] = v /\ BinanceSideMeans[CryptoComSide[v]] = v
    BY DEF SideMeans, BinanceSideMeans, KrakenSide, BinanceSide, CoinbaseSide, CryptoComSide
<1>10. /\ DOMAIN KrakenSide = {"Buy", "Sell"} /\ DOMAIN BinanceSide = {"Buy", "Sell"}
       /\ DOMAIN CoinbaseSide = {"Buy", "Sell"} /\ DOMAIN CryptoComSide = {"Buy", "Sell"}
    BY DEF KrakenSide, BinanceSide, CoinbaseSide, CryptoComSide
<1> QED BY <1>1, <1>2, <1>3, <1>4, <1>5, <1>6, <1>7, <1>8, <1>9, <1>10
        DEF Spoken, Means, Words, Worders

\* What is said term by term is understood term by term.
LEMMA SaidIsMeant ==
    ASSUME NEW x \in {"kraken", "binance", "coinbase", "cryptocom"}, NEW o,
           o = [t \in DOMAIN o |-> o[t]], Sayable(o, Spoken[x])
    PROVE  Say(Say(o, Spoken[x]), Means[x]) = o
<1> DEFINE w == Say(o, Spoken[x])
<1>1. DOMAIN w = DOMAIN o BY DEF Say
<1>2. Worded(w) = Worded(o) BY <1>1 DEF Worded
<1>3. ASSUME NEW t \in DOMAIN o
      PROVE  (IF t \in Worded(o) THEN Means[x][t][w[t]] ELSE w[t]) = o[t]
    <2>1. CASE t \in Worded(o)
        <3>1. w[t] = Spoken[x][t][o[t]] BY <2>1 DEF Say
        <3>2. o[t] \in DOMAIN Spoken[x][t] BY <2>1 DEF Sayable
        <3>3. t \in Worders BY <2>1 DEF Worded, Worders
        <3> QED BY <2>1, <3>1, <3>2, <3>3, WordsAreKnown
    <2>2. CASE t \notin Worded(o) BY <2>2 DEF Say
    <2> QED BY <2>1, <2>2
<1>4. Say(w, Means[x]) = [t \in DOMAIN o |-> IF t \in Worded(o) THEN Means[x][t][w[t]] ELSE w[t]]
    BY <1>1, <1>2 DEF Say
<1> HIDE DEF w
<1>5. [t \in DOMAIN o |-> IF t \in Worded(o) THEN Means[x][t][w[t]] ELSE w[t]]
        = [t \in DOMAIN o |-> o[t]]
    BY <1>3
<1> QED BY <1>4, <1>5 DEF w

\* What the proofs need of an order: its terms are the terms of an order, a price
\* goes with its type.
IsOrder(o) ==
    /\ o = [t \in DOMAIN o |-> o[t]]
    /\ {"order_type", "side", "order_qty"} \subseteq DOMAIN o /\ "price" \notin DOMAIN o
    /\ o.order_type \in OrderTypes /\ o.side \in {"Buy", "Sell"}

Priced(o) ==
    /\ "trigger_price" \in DOMAIN o <=> o.order_type \in Triggered
    /\ "limit_price" \in DOMAIN o <=> o.order_type \in Limited

LEMMA AlsoTerms ==
    ASSUME NEW f, NEW g
    PROVE  /\ DOMAIN Also(f, g) = DOMAIN f \cup DOMAIN g
           /\ \A t \in DOMAIN f : Also(f, g)[t] = f[t]
           /\ \A t \in DOMAIN g \ DOMAIN f : Also(f, g)[t] = g[t]
BY DEF Also

LEMMA AlsoIsFunction ==
    ASSUME NEW f, NEW g, NEW o, o = Also(f, g)
    PROVE  o = [t \in DOMAIN o |-> o[t]]
BY DEF Also

LEMMA OrderIsOrder ==
    ASSUME NEW type \in OrderTypes, NEW side \in {"Buy", "Sell"}, NEW qty,
           NEW terms \in SUBSET {"limit_price", "trigger_price"}
    PROVE  LET o == Order(type, side, qty, terms) IN
            /\ IsOrder(o) /\ DOMAIN o = {"order_type", "side", "order_qty"} \cup terms
            /\ o.order_type = type
<1> DEFINE f == [order_type |-> type, side |-> side, order_qty |-> qty]
           g == [t \in terms |-> t]
           o == Order(type, side, qty, terms)
<1>1. o = Also(f, g) BY DEF Order
<1>2. DOMAIN f = {"order_type", "side", "order_qty"} /\ DOMAIN g = terms OBVIOUS
<1>3. f.order_type = type /\ f.side = side OBVIOUS
<1> HIDE DEF f, g, o
<1>4. DOMAIN o = {"order_type", "side", "order_qty"} \cup terms
    BY <1>1, <1>2, AlsoTerms
<1>8. \A t \in DOMAIN f : o[t] = f[t]
    BY <1>1 DEF Also
<1>7. o.order_type = f.order_type /\ o.side = f.side
    BY <1>2, <1>8
<1>6. o = [t \in DOMAIN o |-> o[t]]
    BY <1>1, AlsoIsFunction
<1>5. IsOrder(o) BY <1>3, <1>4, <1>6, <1>7 DEF IsOrder
<1> QED BY <1>3, <1>4, <1>7, <1>5 DEF o

Known(terms) == {"order_type", "side", "order_qty"} \cup terms

LEMMA OrdersAreOrders ==
    ASSUME NEW terms, "price" \notin terms, NEW o \in OrdersWith(terms)
    PROVE  /\ IsOrder(o) /\ DOMAIN o \subseteq Known(terms)
           /\ {"limit_price", "trigger_price"} \subseteq terms => Priced(o)
<1>1. \A type : Prices(type) \cap terms \in SUBSET {"limit_price", "trigger_price"}
    BY DEF Prices
<1>2. ASSUME NEW type \in OrderTypes, NEW side \in {"Buy", "Sell"}, NEW qty,
             o = Order(type, side, qty, Prices(type) \cap terms)
      PROVE  /\ IsOrder(o) /\ DOMAIN o \subseteq Known(terms)
             /\ {"limit_price", "trigger_price"} \subseteq terms => Priced(o)
    <2>2. /\ IsOrder(o) /\ o.order_type = type
          /\ DOMAIN o = {"order_type", "side", "order_qty"} \cup (Prices(type) \cap terms)
        BY <1>1, <1>2, OrderIsOrder
    <2> QED BY <2>2 DEF Priced, Prices, Known
<1>3. ASSUME NEW type \in OrderTypes, NEW t \in terms \ {"limit_price", "trigger_price"}, NEW v,
             o = Also(Order(type, "Buy", 100, Prices(type) \cap terms), [u \in {t} |-> v])
      PROVE  /\ IsOrder(o) /\ DOMAIN o \subseteq Known(terms)
             /\ {"limit_price", "trigger_price"} \subseteq terms => Priced(o)
    <2> DEFINE p == Order(type, "Buy", 100, Prices(type) \cap terms)
               g == [u \in {t} |-> v]
    <2>1. /\ IsOrder(p) /\ p.order_type = type
          /\ DOMAIN p = {"order_type", "side", "order_qty"} \cup (Prices(type) \cap terms)
        BY <1>1, OrderIsOrder
    <2>2. o = Also(p, g) /\ DOMAIN g = {t} BY <1>3
    <2> HIDE DEF p, g
    <2>3. DOMAIN o = DOMAIN p \cup {t} /\ \A u \in DOMAIN p : o[u] = p[u]
        BY <2>2, AlsoTerms
    <2>4. o = [u \in DOMAIN o |-> o[u]]
        BY <2>2, AlsoIsFunction
    <2>5. o.order_type = type /\ o.side = p.side BY <2>1, <2>3
    <2>6. IsOrder(o) BY <2>1, <2>3, <2>4, <2>5 DEF IsOrder
    <2>7. ASSUME {"limit_price", "trigger_price"} \subseteq terms PROVE Priced(o)
        <3>1. \A u \in {"limit_price", "trigger_price"} : u \in DOMAIN o <=> u \in Prices(type)
            BY <2>1, <2>3, <2>7
        <3> QED BY <2>5, <3>1 DEF Priced, Prices
    <2>8. DOMAIN o \subseteq Known(terms) BY <2>1, <2>3 DEF Known
    <2> QED BY <2>6, <2>7, <2>8
<1>4. CASE o \in PricedOrders(terms)
    <2>1. PICK type \in OrderTypes, side \in {"Buy", "Sell"}, qty \in {100, 130} :
            o = Order(type, side, qty, Prices(type) \cap terms)
        BY <1>4 DEF PricedOrders
    <2> QED BY <1>2, <2>1
<1>5. CASE \E type \in OrderTypes : \E t \in Extras(type, terms) :
            o \in OrdersWithOne(type, t, terms)
    <2>1. PICK type \in OrderTypes, t \in terms \ {"limit_price", "trigger_price"} :
            o \in OrdersWithOne(type, t, terms)
        BY <1>5 DEF Extras
    <2>2. PICK v \in Values(t) :
            o = Also(Order(type, "Buy", 100, Prices(type) \cap terms), [u \in {t} |-> v])
        BY <2>1 DEF OrdersWithOne
    <2> QED BY <1>3, <2>2
<1> QED BY <1>4, <1>5 DEF OrdersWith

\* What one of Kraken's REST encoders makes of an order, as the exchange reads it:
\* some of the terms, quantities in six decimals, and perhaps a price.
LEMMA KrakenReads ==
    ASSUME NEW o, IsOrder(o), NEW w,
           "order_type" \in DOMAIN w, DOMAIN w \subseteq DOMAIN o \cup {"price"},
           \A t \in DOMAIN w \ {"price"} : w[t] = Rounded(Say(o, Spoken.kraken))[t],
           \A t \in DOMAIN w \cap Worders : o[t] \in DOMAIN Spoken.kraken[t]
    PROVE  LET read == Understood("kraken", w) IN
            /\ \A t \in DOMAIN read :
                \/ t \in DOMAIN o /\ read[t] = Rounded(o)[t]
                \/ "price" \in DOMAIN w /\ t = PriceTerm(o.order_type) /\ read[t] = w.price
            /\ DOMAIN w \ {"price"} \subseteq DOMAIN read
            /\ "price" \in DOMAIN w => PriceTerm(o.order_type) \in DOMAIN read
<1> DEFINE m == Say(w, Means.kraken)
           read == Understood("kraken", w)
           f == [t \in DOMAIN m \ {"price"} |-> m[t]]
           g == [t \in {PriceTerm(m.order_type)} |-> m.price]
<1>1. /\ DOMAIN m = DOMAIN w
      /\ \A t \in DOMAIN w : m[t] = IF t \in Worders THEN Means.kraken[t][w[t]] ELSE w[t]
    BY DEF Say, Worded, Worders
<1>2. \A t \in DOMAIN w \ {"price"} : m[t] = Rounded(o)[t]
    <2>1. TAKE t \in DOMAIN w \ {"price"}
    <2>2. t \in DOMAIN o OBVIOUS
    <2>3. CASE t \in Worders
        <3>1. w[t] = Spoken.kraken[t][o[t]]
            BY <2>2, <2>3 DEF Say, Worded, Worders, Rounded, Quantities
        <3>2. o[t] \in DOMAIN Spoken.kraken[t] BY <2>3
        <3>3. m[t] = o[t] BY <1>1, <2>3, <3>1, <3>2, WordsAreKnown
        <3> QED BY <2>2, <2>3, <3>3 DEF Rounded, Quantities, Worders
    <2>4. CASE t \notin Worders
        <3>1. Say(o, Spoken.kraken)[t] = o[t] /\ t \in DOMAIN Say(o, Spoken.kraken)
            BY <2>2, <2>4 DEF Say, Worded, Worders
        <3>2. w[t] = Rounded(o)[t] BY <2>2, <3>1 DEF Rounded
        <3> QED BY <1>1, <2>4, <3>2
    <2> QED BY <2>3, <2>4
<1>3. "price" \in DOMAIN w => m.price = w.price
    BY <1>1 DEF Worders
<1>4. m.order_type = o.order_type
    BY <1>2 DEF Rounded, Quantities, IsOrder
<1>5. read = IF "price" \notin DOMAIN m THEN m ELSE Also(f, g)
    BY DEF Understood
<1> HIDE DEF m, read
<1>6. CASE "price" \notin DOMAIN w
    <2>1. read = m BY <1>1, <1>5, <1>6
    <2> QED BY <1>1, <1>2, <1>6, <2>1 DEF read
<1>7. CASE "price" \in DOMAIN w
    <2>1. read = Also(f, g) BY <1>1, <1>5, <1>7
    <2>2. DOMAIN f = DOMAIN w \ {"price"} /\ \A t \in DOMAIN f : f[t] = m[t]
        BY <1>1
    <2>3. DOMAIN g = {PriceTerm(o.order_type)} /\ \A t \in DOMAIN g : g[t] = w.price
        BY <1>3, <1>4, <1>7
    <2> HIDE DEF f, g
    <2>4. DOMAIN read = DOMAIN f \cup DOMAIN g BY <2>1, AlsoTerms
    <2>5. \A t \in DOMAIN f : read[t] = f[t] BY <2>1 DEF Also
    <2>6. \A t \in DOMAIN g \ DOMAIN f : read[t] = g[t] BY <2>1 DEF Also
    <2>7. \A t \in DOMAIN f : t \in DOMAIN o /\ read[t] = Rounded(o)[t]
        BY <1>2, <2>2, <2>5
    <2> QED BY <1>7, <2>2, <2>3, <2>4, <2>6, <2>7 DEF read
<1> QED BY <1>6, <1>7 DEF read

\* Some of an order's terms, said and rounded, are those of the order.
LEMMA SomeTerms ==
    ASSUME NEW o, IsOrder(o), NEW terms, {"order_type", "price"} \cap terms = {"order_type"}
    PROVE  LET g == Rounded(Say(Only(o, terms), Spoken.kraken)) IN
            /\ DOMAIN g \subseteq DOMAIN o \cap terms /\ "order_type" \in DOMAIN g
            /\ \A t \in DOMAIN g : g[t] = Rounded(Say(o, Spoken.kraken))[t]
            /\ \A t \in (DOMAIN o \cap terms) \ DOMAIN g : t \in Flags /\ ~o[t]
<1> DEFINE p == Only(o, terms)
<1>1. /\ DOMAIN p \subseteq DOMAIN o \cap terms /\ "order_type" \in DOMAIN p
      /\ \A t \in DOMAIN p : p[t] = o[t]
      /\ \A t \in (DOMAIN o \cap terms) \ DOMAIN p : t \in Flags /\ ~o[t]
    BY DEF Only, Flags, IsOrder
<1> HIDE DEF p
<1>2. /\ DOMAIN Say(p, Spoken.kraken) = DOMAIN p
      /\ \A t \in DOMAIN p : Say(p, Spoken.kraken)[t] = Say(o, Spoken.kraken)[t]
    BY <1>1 DEF Say, Worded
<1>3. DOMAIN Say(o, Spoken.kraken) = DOMAIN o BY DEF Say
<1>4. /\ DOMAIN Rounded(Say(p, Spoken.kraken)) = DOMAIN p
      /\ \A t \in DOMAIN p :
            Rounded(Say(p, Spoken.kraken))[t] = Rounded(Say(o, Spoken.kraken))[t]
    BY <1>1, <1>2, <1>3 DEF Rounded
<1> QED BY <1>1, <1>4 DEF p

\* The AddOrder encoder.
LEMMA AddOrderIsUnderstood ==
    ASSUME NEW o, IsOrder(o), Priced(o), DOMAIN o \subseteq Known(KrakenTerms),
           NEW w \in KrakenRestOrder(o)
    PROVE  LET read == Understood("kraken", w) IN
            /\ \A t \in DOMAIN read : t \in DOMAIN o /\ read[t] = Rounded(o)[t]
            /\ \A t \in DOMAIN o \ DOMAIN read :
                \/ t \in AddOrderLeavesOut
                \/ t \in Flags /\ ~o[t]
                \/ t = "limit_price" /\ o.order_type \in Triggered
<1> DEFINE f == Price(o)
           g == Rounded(Say(Only(o, KrakenRestTerms), Spoken.kraken))
           read == Understood("kraken", w)
<1>1. w = Also(f, g) /\ Sayable(o, Spoken.kraken)
    BY DEF KrakenRestOrder
<1>2. /\ DOMAIN g \subseteq DOMAIN o \cap KrakenRestTerms /\ "order_type" \in DOMAIN g
      /\ \A t \in DOMAIN g : g[t] = Rounded(Say(o, Spoken.kraken))[t]
      /\ \A t \in (DOMAIN o \cap KrakenRestTerms) \ DOMAIN g : t \in Flags /\ ~o[t]
    <2>1. {"order_type", "price"} \cap KrakenRestTerms = {"order_type"} BY DEF KrakenRestTerms
    <2> QED BY <2>1, SomeTerms
<1>3. /\ DOMAIN f \subseteq {"price"}
      /\ "price" \in DOMAIN f <=> "limit_price" \in DOMAIN o \/ "trigger_price" \in DOMAIN o
    BY DEF Price, LimitPrice
<1>4. "price" \in DOMAIN f =>
            PriceTerm(o.order_type) \in DOMAIN o /\ f.price = o[PriceTerm(o.order_type)]
    BY DEF Price, LimitPrice, PriceTerm, Priced
<1> HIDE DEF f, g
<1>5. DOMAIN w = DOMAIN f \cup DOMAIN g BY <1>1, AlsoTerms
<1>6. \A t \in DOMAIN f : w[t] = f[t] BY <1>1 DEF Also
<1>7. \A t \in DOMAIN g \ DOMAIN f : w[t] = g[t] BY <1>1 DEF Also
<1>8. \A t \in DOMAIN w \cap Worders : o[t] \in DOMAIN Spoken.kraken[t]
    BY <1>1, <1>2, <1>3, <1>5 DEF Sayable, Worded, Worders
<1>9. \A t \in DOMAIN w \ {"price"} : w[t] = Rounded(Say(o, Spoken.kraken))[t]
    BY <1>2, <1>3, <1>5, <1>7
<1>10. "order_type" \in DOMAIN w /\ DOMAIN w \subseteq DOMAIN o \cup {"price"}
    BY <1>2, <1>3, <1>5
<1>11. /\ \A t \in DOMAIN read :
                \/ t \in DOMAIN o /\ read[t] = Rounded(o)[t]
                \/ "price" \in DOMAIN w /\ t = PriceTerm(o.order_type) /\ read[t] = w.price
       /\ DOMAIN w \ {"price"} \subseteq DOMAIN read
       /\ "price" \in DOMAIN w => PriceTerm(o.order_type) \in DOMAIN read
    BY <1>8, <1>9, <1>10, KrakenReads
<1> HIDE DEF read
<1>12. "price" \notin DOMAIN g BY <1>2 DEF KrakenRestTerms
<1>13. "price" \in DOMAIN w =>
            /\ PriceTerm(o.order_type) \in DOMAIN o
            /\ w.price = Rounded(o)[PriceTerm(o.order_type)]
    BY <1>4, <1>5, <1>6, <1>12 DEF Rounded, Quantities, PriceTerm
<1>14. \A t \in DOMAIN read : t \in DOMAIN o /\ read[t] = Rounded(o)[t]
    BY <1>11, <1>13
<1>15. ASSUME NEW t \in DOMAIN o \ DOMAIN read
       PROVE  \/ t \in AddOrderLeavesOut
              \/ t \in Flags /\ ~o[t]
              \/ t = "limit_price" /\ o.order_type \in Triggered
    <2>1. t \notin DOMAIN g BY <1>5, <1>11, <1>12
    <2>2. CASE t \in KrakenRestTerms BY <1>2, <2>1, <2>2
    <2>3. CASE t \in {"limit_price", "trigger_price"}
        <3>1. PriceTerm(o.order_type) \in DOMAIN read BY <1>3, <1>5, <1>11, <2>3
        <3> QED BY <2>3, <3>1 DEF PriceTerm, Priced
    <2>4. t \in AddOrderLeavesOut \cup KrakenRestTerms \cup {"limit_price", "trigger_price"}
        BY DEF Known, KrakenTerms, KrakenRestTerms, AddOrderLeavesOut, TriggerDetails
    <2> QED BY <2>2, <2>3, <2>4
<1> QED BY <1>14, <1>15 DEF read

\* The AddOrderBatch encoder.
LEMMA BatchIsUnderstood ==
    ASSUME NEW o, IsOrder(o), DOMAIN o \subseteq Known(KrakenTerms), NEW w \in KrakenBatchOrder(o)
    PROVE  LET read == Understood("kraken", w) IN
            /\ \A t \in DOMAIN read :
                \/ t \in DOMAIN o /\ read[t] = Rounded(o)[t]
                \/ t = "trigger_price" /\ o.order_type \in Triggered
            /\ \A t \in DOMAIN o \ DOMAIN read :
                \/ t \in BatchLeavesOut
                \/ t = "limit_price" /\ o.order_type \in Triggered
<1> DEFINE f == LimitPrice(o)
           g == Rounded(Say(Only(o, KrakenBatchTerms), Spoken.kraken))
           read == Understood("kraken", w)
<1>1. w = Also(f, g)
    BY DEF KrakenBatchOrder
<1>2. /\ DOMAIN g \subseteq DOMAIN o \cap KrakenBatchTerms /\ "order_type" \in DOMAIN g
      /\ \A t \in DOMAIN g : g[t] = Rounded(Say(o, Spoken.kraken))[t]
      /\ \A t \in (DOMAIN o \cap KrakenBatchTerms) \ DOMAIN g : t \in Flags /\ ~o[t]
    <2>1. {"order_type", "price"} \cap KrakenBatchTerms = {"order_type"} BY DEF KrakenBatchTerms
    <2> QED BY <2>1, SomeTerms
<1>3. /\ DOMAIN f \subseteq {"price"}
      /\ "price" \in DOMAIN f <=> "limit_price" \in DOMAIN o
      /\ "price" \in DOMAIN f => f.price = o.limit_price
    BY DEF LimitPrice
<1> HIDE DEF f, g
<1>5. DOMAIN w = DOMAIN f \cup DOMAIN g BY <1>1, AlsoTerms
<1>6. \A t \in DOMAIN f : w[t] = f[t] BY <1>1 DEF Also
<1>7. \A t \in DOMAIN g \ DOMAIN f : w[t] = g[t] BY <1>1 DEF Also
<1>8. \A t \in DOMAIN w \cap Worders : o[t] \in DOMAIN Spoken.kraken[t]
    <2>1. \A t \in DOMAIN w \cap Worders : t \in {"order_type", "side"}
        BY <1>2, <1>3, <1>5 DEF KrakenBatchTerms, Worders
    <2>2. o.order_type \in DOMAIN KrakenType /\ o.side \in DOMAIN KrakenSide
        BY DEF IsOrder, KrakenType, KrakenSide, OrderTypes
    <2> QED BY <2>1, <2>2 DEF Spoken, Words
<1>9. \A t \in DOMAIN w \ {"price"} : w[t] = Rounded(Say(o, Spoken.kraken))[t]
    BY <1>2, <1>3, <1>5, <1>7
<1>10. "order_type" \in DOMAIN w /\ DOMAIN w \subseteq DOMAIN o \cup {"price"}
    BY <1>2, <1>3, <1>5
<1>11. /\ \A t \in DOMAIN read :
                \/ t \in DOMAIN o /\ read[t] = Rounded(o)[t]
                \/ "price" \in DOMAIN w /\ t = PriceTerm(o.order_type) /\ read[t] = w.price
       /\ DOMAIN w \ {"price"} \subseteq DOMAIN read
       /\ "price" \in DOMAIN w => PriceTerm(o.order_type) \in DOMAIN read
    BY <1>8, <1>9, <1>10, KrakenReads
<1> HIDE DEF read
<1>12. "price" \notin DOMAIN g BY <1>2 DEF KrakenBatchTerms
<1>13. "price" \in DOMAIN w =>
            "limit_price" \in DOMAIN o /\ w.price = Rounded(o)["limit_price"]
    BY <1>3, <1>5, <1>6, <1>12 DEF Rounded, Quantities
<1>14. \/ PriceTerm(o.order_type) = "limit_price"
       \/ PriceTerm(o.order_type) = "trigger_price" /\ o.order_type \in Triggered
    BY DEF PriceTerm
<1>15. ASSUME NEW t \in DOMAIN o \ DOMAIN read
       PROVE  t \in BatchLeavesOut \/ (t = "limit_price" /\ o.order_type \in Triggered)
    <2>1. t \notin DOMAIN g BY <1>5, <1>11, <1>12
    <2>2. CASE t \in KrakenBatchTerms
        BY <1>2, <2>1, <2>2 DEF KrakenBatchTerms, Flags
    <2>3. CASE t = "limit_price"
        BY <1>3, <1>5, <1>11, <1>14, <2>3
    <2>4. t \in BatchLeavesOut \cup KrakenBatchTerms \cup {"limit_price"}
        BY DEF Known, KrakenTerms, KrakenBatchTerms, BatchLeavesOut, AddOrderLeavesOut,
               TriggerDetails
    <2> QED BY <2>2, <2>3, <2>4
<1> QED BY <1>11, <1>13, <1>14, <1>15 DEF read

\* The exchange understands params, sent to path, as the property wants it to
\* understand asks.
UnderstoodAs(path, asks, params) ==
    "order_type" \in DOMAIN asks =>
        LET read == Understood(exchange, params)
            batch == path = KrakenAddOrderBatch.path IN
        IF exchange # "kraken" THEN read = asks
        ELSE /\ \A t \in DOMAIN read :
                    \/ t \in DOMAIN asks /\ read[t] = Rounded(asks)[t]
                    \/ t = "trigger_price" /\ batch /\ asks.order_type \in Triggered
             /\ \A t \in DOMAIN asks \ DOMAIN read :
                    \/ t \in IF batch THEN BatchLeavesOut ELSE AddOrderLeavesOut
                    \/ t \in Flags /\ ~asks[t]
                    \/ t = "limit_price" /\ asks.order_type \in Triggered

LEMMA TermByTermIsUnderstood ==
    ASSUME NEW x \in {"binance", "coinbase", "cryptocom"}, NEW o, IsOrder(o),
           NEW w \in TermByTerm(o, Spoken[x])
    PROVE  Understood(x, w) = o
<1>1. Sayable(o, Spoken[x]) /\ w = Say(o, Spoken[x])
    BY DEF TermByTerm
<1>2. Say(w, Means[x]) = o
    BY <1>1, SaidIsMeant DEF IsOrder
<1> QED BY <1>2 DEF Understood, IsOrder

LEMMA EncodedIsUnderstood ==
    ASSUME exchange \in {"kraken", "binance", "coinbase", "cryptocom"},
           NEW e \in Placing[exchange], NEW o \in OrdersOf[exchange], NEW w \in Encoded(e, o)
    PROVE  UnderstoodAs(e.path, o, w)
<1>1. exchange \in DOMAIN Terms /\ o \in OrdersWith(Terms[exchange])
    BY DEF OrdersOf, Terms
<1>2. "price" \notin Terms[exchange]
    BY DEF Terms, KrakenTerms, BinanceTerms, CoinbaseTerms, CryptoComTerms
<1>3. /\ IsOrder(o) /\ DOMAIN o \subseteq Known(Terms[exchange])
      /\ {"limit_price", "trigger_price"} \subseteq Terms[exchange] => Priced(o)
    BY <1>1, <1>2, OrdersAreOrders
<1>6. /\ BinanceNewOrder.path = "order" /\ CoinbasePlaceOrder.path = "/orders"
      /\ CryptoComCreateOrder.path = "private/create-order"
      /\ KrakenAddOrder.path = "AddOrder" /\ KrakenAddOrderBatch.path = "AddOrderBatch"
    BY DEF BinanceNewOrder, CoinbasePlaceOrder, CryptoComCreateOrder, CryptoComPost,
           KrakenAddOrder, KrakenAddOrderBatch, KrakenPost, Post, Endpoint, Json
<1>4. CASE exchange = "kraken"
    <2>1. Priced(o) BY <1>3, <1>4 DEF Terms, KrakenTerms
    <2>2. DOMAIN o \subseteq Known(KrakenTerms) BY <1>3, <1>4 DEF Terms
    <2>3. CASE e = KrakenAddOrder
        <3>1. w \in KrakenRestOrder(o) BY <1>6, <2>3 DEF Encoded
        <3>2. e.path # KrakenAddOrderBatch.path BY <1>6, <2>3
        <3> QED BY <1>3, <1>4, <2>1, <2>2, <3>1, <3>2, AddOrderIsUnderstood DEF UnderstoodAs
    <2>4. CASE e = KrakenAddOrderBatch
        <3>1. w \in KrakenBatchOrder(o) BY <1>6, <2>4 DEF Encoded
        <3> QED BY <1>3, <1>4, <2>2, <2>4, <3>1, BatchIsUnderstood DEF UnderstoodAs
    <2> QED BY <1>4, <2>3, <2>4 DEF Placing
<1>5. CASE exchange \in {"binance", "coinbase", "cryptocom"}
    <2>1. w \in TermByTerm(o, Spoken[exchange])
        <3>1. CASE exchange = "binance"
            <4>1. e = BinanceNewOrder BY <3>1 DEF Placing
            <4>2. w \in BinanceOrder(o) BY <1>6, <4>1 DEF Encoded
            <4> QED BY <3>1, <4>2 DEF BinanceOrder
        <3>2. CASE exchange = "coinbase"
            <4>1. e = CoinbasePlaceOrder BY <3>2 DEF Placing
            <4>2. w \in CoinbaseOrder(o) BY <1>6, <4>1 DEF Encoded
            <4> QED BY <3>2, <4>2 DEF CoinbaseOrder
        <3>3. CASE exchange = "cryptocom"
            <4>1. e = CryptoComCreateOrder BY <3>3 DEF Placing
            <4>2. w \in CryptoComOrder(o) BY <1>6, <4>1 DEF Encoded
            <4> QED BY <3>3, <4>2 DEF CryptoComOrder
        <3> QED BY <1>5, <3>1, <3>2, <3>3
    <2>2. Understood(exchange, w) = o
        BY <1>3, <1>5, <2>1, TermByTermIsUnderstood
    <2> QED BY <1>5, <2>2 DEF UnderstoodAs
<1> QED BY <1>4, <1>5

\* Signing, and what a private request gets besides, leave the parameters alone.
Whole(r) ==
    {"asks", "params", "path", "headers", "body", "query", "private", "signature", "time"}
    \subseteq DOMAIN r

LEMMA RequestsHaveParameters ==
    ASSUME NEW e, NEW n, NEW asks, NEW params
    PROVE  LET r == Request(e, n, asks, params) IN
            Whole(r) /\ r.asks = asks /\ r.params = params /\ r.path = e.path
BY DEF Request, Whole

LEMMA MakePrivateKeeps ==
    ASSUME NEW n, NEW r, Whole(r)
    PROVE  LET q == MakePrivate(n, r) IN
            Whole(q) /\ q.asks = r.asks /\ q.params = r.params /\ q.path = r.path
BY DEF MakePrivate, KrakenPrivate, CryptoComPrivate, UserAgent, Whole

LEMMA SignKeeps ==
    ASSUME NEW r, Whole(r), exchange \in {"kraken", "binance", "coinbase", "cryptocom"}
    PROVE  LET q == Sign(r) IN
            q.asks = r.asks /\ q.params = r.params /\ q.path = r.path
<1>1. \A q, s, h : Whole(q) =>
        LET t == Signed(q, s, h) IN t.asks = q.asks /\ t.params = q.params /\ t.path = q.path
    BY DEF Signed, Whole
<1>2. CASE exchange = "kraken"
    <2>1. PICK s, h : Sign(r) = Signed(r, s, h) BY <1>2 DEF Sign, KrakenSign
    <2> QED BY <1>1, <2>1
<1>3. CASE exchange = "coinbase"
    <2>1. PICK s, h : Sign(r) = Signed(r, s, h) BY <1>3 DEF Sign, CoinbaseSign
    <2> QED BY <1>1, <2>1
<1>4. CASE exchange = "cryptocom"
    <2> DEFINE q == [r EXCEPT !.body = @ \o <<Sig>>]
    <2>1. Whole(q) /\ q.asks = r.asks /\ q.params = r.params /\ q.path = r.path BY DEF Whole
    <2>2. Sign(r) = Signed(q, r.body, {}) BY <1>4 DEF Sign, CryptoComSign
    <2> HIDE DEF q
    <2> QED BY <1>1, <2>1, <2>2
<1>5. CASE exchange = "binance"
    <2> DEFINE q == AddSignature(Stamp(r))
    <2>1. LET p == Stamp(r) IN Whole(p) /\ p.asks = r.asks /\ p.params = r.params /\ p.path = r.path
        BY DEF Stamp, Whole
    <2>2. Whole(q) /\ q.asks = r.asks /\ q.params = r.params /\ q.path = r.path
        BY <2>1 DEF AddSignature, Whole
    <2>3. PICK s, h : Sign(r) = Signed(q, s, h) BY <1>5 DEF Sign, BinanceSign
    <2> HIDE DEF q
    <2> QED BY <1>1, <2>2, <2>3
<1> QED BY <1>2, <1>3, <1>4, <1>5

\* A request for anything but an order has no order's type among its parameters.
Orderless(e) == "order_type" \notin e.always \cup e.given \cup e.flags

LEMMA OrderlessEndpoint ==
    \A m, p, a, g, f, r : "order_type" \notin a \cup g \cup f =>
        Orderless(Endpoint(m, p, a, g, f, r)) /\ Orderless(Json(Endpoint(m, p, a, g, f, r)))
BY DEF Orderless, Endpoint, Json

LEMMA KrakenOrderless == \A e \in Public.kraken \cup Private.kraken : Orderless(e)
<1>1. \A e \in KrakenReference \cup KrakenPrices : Orderless(e)
    BY OrderlessEndpoint DEF KrakenReference, KrakenPrices, Get
<1>2. \A e \in KrakenAccount \cup KrakenHistory : Orderless(e)
    BY OrderlessEndpoint DEF KrakenAccount, KrakenHistory, KrakenPost
<1>3. \A e \in KrakenTrading \cup KrakenFunding : Orderless(e)
    BY OrderlessEndpoint DEF KrakenTrading, KrakenFunding, KrakenPost
<1> QED BY <1>1, <1>2, <1>3 DEF Public, Private

LEMMA BinanceOrderless == \A e \in Public.binance \cup Private.binance : Orderless(e)
BY OrderlessEndpoint DEF Public, Private, BinancePublic, BinanceAccount, BinanceCancels, Get, Delete

LEMMA CoinbaseOrderless == \A e \in Public.coinbase \cup Private.coinbase : Orderless(e)
BY OrderlessEndpoint DEF Public, Private, CoinbasePublic, CoinbaseCharts, CoinbaseAccounts,
    CoinbaseOrders, Get, Delete

LEMMA CryptoComOrderless == \A e \in Public.cryptocom \cup Private.cryptocom : Orderless(e)
BY OrderlessEndpoint DEF Public, Private, CryptoComPublic, CryptoComCharts, CryptoComBalance,
    CryptoComOrders, CryptoComPost, Get, Post

LEMMA DirectOrderless == \A e \in Direct : Orderless(e)
BY OrderlessEndpoint DEF Direct, DirectDelete, Get, Post, Delete

LEMMA RequestsAreOrderless ==
    ASSUME NEW e, Orderless(e), NEW n, NEW r \in Requests(e, n)
    PROVE  Whole(r) /\ "order_type" \notin DOMAIN r.asks
<1>1. PICK names \in Parameters(e) : r = Request(e, n, Named(names), Named(names))
    BY DEF Requests
<1>2. Whole(r) /\ r.asks = Named(names)
    BY <1>1, RequestsHaveParameters
<1> QED BY <1>2 DEF Named, Parameters, Orderless

LEMMA PublicAreOrderless ==
    ASSUME NEW n, NEW r \in PublicRequests(n),
           exchange \in {"kraken", "binance", "coinbase", "cryptocom", "direct"}
    PROVE  "order_type" \notin DOMAIN r.asks
<1>1. CASE exchange = "direct"
    <2>1. \A q \in WithoutHeaders(n) : Whole(q) /\ "order_type" \notin DOMAIN q.asks
        BY DirectOrderless, RequestsAreOrderless DEF WithoutHeaders
    <2>2. \A q \in Requests(DirectDelete, n) : Whole(q) /\ "order_type" \notin DOMAIN q.asks
        BY DirectOrderless, RequestsAreOrderless DEF Direct
    <2>4. \/ r \in WithoutHeaders(n)
          \/ \E q \in WithoutHeaders(n) : r = [q EXCEPT !.headers = {"Content-Type: text"}]
          \/ \E q \in Requests(DirectDelete, n) : r = [q EXCEPT !.body = <<Params(n)>>]
        BY <1>1 DEF PublicRequests, DirectRequests
    <2>5. CASE \E q \in WithoutHeaders(n) : r = [q EXCEPT !.headers = {"Content-Type: text"}]
        <3>1. PICK q \in WithoutHeaders(n) : r = [q EXCEPT !.headers = {"Content-Type: text"}]
            BY <2>5
        <3>2. Whole(q) /\ "order_type" \notin DOMAIN q.asks BY <2>1
        <3> QED BY <3>1, <3>2 DEF Whole
    <2>6. CASE \E q \in Requests(DirectDelete, n) : r = [q EXCEPT !.body = <<Params(n)>>]
        <3>1. PICK q \in Requests(DirectDelete, n) : r = [q EXCEPT !.body = <<Params(n)>>]
            BY <2>6
        <3>2. Whole(q) /\ "order_type" \notin DOMAIN q.asks BY <2>2
        <3> QED BY <3>1, <3>2 DEF Whole
    <2> QED BY <2>1, <2>4, <2>5, <2>6
<1>2. CASE exchange = "coinbase"
    <2>1. PICK e \in Public.coinbase : \E q \in Requests(e, n) : r = UserAgent(q)
        BY <1>2 DEF PublicRequests
    <2>2. PICK q \in Requests(e, n) : r = UserAgent(q)
        BY <2>1
    <2>3. Whole(q) /\ "order_type" \notin DOMAIN q.asks
        BY CoinbaseOrderless, RequestsAreOrderless
    <2> QED BY <2>2, <2>3 DEF UserAgent, Whole
<1>3. CASE exchange \in {"kraken", "binance", "cryptocom"}
    <2>1. PICK e \in Public[exchange] : r \in Requests(e, n)
        BY <1>3 DEF PublicRequests
    <2>2. Orderless(e)
        BY <1>3, KrakenOrderless, BinanceOrderless, CryptoComOrderless
    <2> QED BY <2>1, <2>2, RequestsAreOrderless
<1> QED BY <1>1, <1>2, <1>3

LEMMA PrivateAreOrderless ==
    ASSUME NEW n, NEW r \in PrivateRequests(n),
           exchange \in {"kraken", "binance", "coinbase", "cryptocom"}
    PROVE  "order_type" \notin DOMAIN Sign(r).asks
<1>1. PICK e \in Private[exchange] : \E q \in Requests(e, n) : r = MakePrivate(n, q)
    BY DEF PrivateRequests
<1>2. PICK q \in Requests(e, n) : r = MakePrivate(n, q)
    BY <1>1
<1>3. Orderless(e)
    BY KrakenOrderless, BinanceOrderless, CoinbaseOrderless, CryptoComOrderless
<1>4. Whole(q) /\ "order_type" \notin DOMAIN q.asks
    BY <1>3, RequestsAreOrderless
<1> QED BY <1>2, <1>4, MakePrivateKeeps, SignKeeps

LEMMA OrdersAreUnderstood ==
    ASSUME NEW n, NEW e \in Placing[exchange], NEW o \in OrdersOf[exchange],
           NEW r \in OrderRequests(e, n, o),
           exchange \in {"kraken", "binance", "coinbase", "cryptocom"}
    PROVE  UnderstoodAs(Sign(r).path, Sign(r).asks, Sign(r).params)
<1>1. PICK w \in Encoded(e, o) : r = MakePrivate(n, Request(e, n, o, w))
    BY DEF OrderRequests
<1> DEFINE q == Request(e, n, o, w)
<1>2. Whole(q) /\ q.asks = o /\ q.params = w /\ q.path = e.path
    BY RequestsHaveParameters
<1> HIDE DEF q
<1>3. Sign(r).asks = o /\ Sign(r).params = w /\ Sign(r).path = e.path
    BY <1>1, <1>2, MakePrivateKeeps, SignKeeps DEF q
<1> QED BY <1>3, EncodedIsUnderstood

-----------------------------------------------------------------------------
(* The invariants *)

\* What perform() is given: a proper request, that asks for what its parameters say.
Due(r) == Proper(r) /\ UnderstoodAs(r.path, r.asks, r.params)

\* Every step is one of four; perform() is only ever given a request that is due.
LEMMA StepsOf ==
    ASSUME ExchangesAssumption, exchange \in Exchanges, Next
    PROVE  \/ Tick \/ Return
           \/ Ready /\ \E r \in {RequestFailed, Unbuilt} : Fail(r)
           \/ Ready /\ \E r : Due(r) /\ Perform(r)
<1>0. exchange \in {"kraken", "binance", "coinbase", "cryptocom", "direct"}
    BY DEF ExchangesAssumption
<1>1. CASE ExecutePublic
    <2>1. PICK r \in PublicRequests(calls + 1) : Perform(r) BY <1>1 DEF ExecutePublic
    <2>2. Proper(r) BY PublicAreSendable DEF Proper
    <2>3. Due(r) BY <1>0, <2>2, PublicAreOrderless DEF Due, UnderstoodAs
    <2> QED BY <1>1, <2>1, <2>3 DEF ExecutePublic
<1>2. CASE ExecutePrivate
    <2>1. PICK r \in PrivateRequests(calls + 1) : Perform(Sign(r)) BY <1>2 DEF ExecutePrivate
    <2>2. exchange # "direct" BY DEF PrivateRequests, Private
    <2>3. Proper(Sign(r)) BY <1>0, <2>2, PrivateAreSignable, SignedAreProper
    <2>4. Due(Sign(r)) BY <1>0, <2>2, <2>3, PrivateAreOrderless DEF Due, UnderstoodAs
    <2> QED BY <1>2, <2>1, <2>4 DEF ExecutePrivate
<1>3. CASE PlaceOrder
    <2>1. PICK e \in Placing[exchange], o \in OrdersOf[exchange] :
            \E r \in OrderRequests(e, calls + 1, o) : Perform(Sign(r))
        BY <1>3 DEF PlaceOrder
    <2>2. PICK r \in OrderRequests(e, calls + 1, o) : Perform(Sign(r)) BY <2>1
    <2>3. exchange # "direct" BY DEF Placing
    <2>4. Proper(Sign(r)) BY <1>0, <2>3, OrdersAreSignable, SignedAreProper
    <2>5. Due(Sign(r)) BY <1>0, <2>3, <2>4, OrdersAreUnderstood DEF Due
    <2> QED BY <1>3, <2>2, <2>5 DEF PlaceOrder
<1> QED BY <1>1, <1>2, <1>3 DEF Next, PlaceUnsayable, ExecuteUnsignable

\* The invariant: what is on record of a call belongs together, and nothing is on
\* record when none is under way.
Inv ==
    /\ TypeOK /\ RequestReachesWire /\ SignatureCoversRequest /\ OkMeansResult
    /\ OrderUnderstood
    /\ result = {} => reply = {}

LEMMA InitInv == ASSUME Init, LimitsAssumption PROVE Inv
BY DEF Init, Inv, TypeOK, RequestReachesWire, SignatureCoversRequest, OkMeansResult,
       OrderUnderstood, FreshHandle, LimitsAssumption

\* The options stay within their types, whatever the request.
LEMMA OptionsTyped ==
    ASSUME TypeOK, NEW r, Sendable(r), LimitsAssumption, calls < MaxRequests
    PROVE  LET e == Options(r, calls + 1) IN
            /\ e.mode \in {"GET", "POST"} /\ e.custom \in {"none", "DELETE"}
            /\ e.headers.of \in 0..(calls + 1) /\ e.fields.of \in 0..(calls + 1)
<1>1. calls + 1 \in 0..(calls + 1) /\ 0..calls \subseteq 0..(calls + 1)
    BY DEF TypeOK, LimitsAssumption
<1>2. CustomRequest(r.method) \in {"none", "DELETE"} BY DEF CustomRequest
<1>3. HeaderOption(r, calls + 1).of \in 0..(calls + 1)
    BY <1>1 DEF HeaderOption, TypeOK
<1>4. Options(r, calls + 1).mode \in {"GET", "POST"} BY DEF Options, TypeOK
<1>5. Options(r, calls + 1).fields.of \in 0..(calls + 1) BY <1>1 DEF Options, TypeOK
<1> QED BY <1>2, <1>3, <1>4, <1>5 DEF Options

LEMMA NextInv ==
    ASSUME Inv, [Next]_vars, ExchangesAssumption, LimitsAssumption
    PROVE  Inv'
<1>1. CASE UNCHANGED vars
    <2>1. UNCHANGED <<exchange, hmac, clock, calls, easy, asked, sent, reply, result>>
        BY <1>1 DEF vars
    <2>2. TypeOK' BY <2>1 DEF Inv, TypeOK
    <2>3. RequestReachesWire' /\ OkMeansResult' /\ (result = {} => reply = {})'
        BY <2>1 DEF Inv, RequestReachesWire, OkMeansResult
    <2>4. SignatureCoversRequest' BY <2>1 DEF Inv, SignatureCoversRequest, Verified
    <2>5. OrderUnderstood' BY <2>1 DEF Inv, OrderUnderstood
    <2> QED BY <2>2, <2>3, <2>4, <2>5 DEF Inv
<1>2. CASE Tick
    <2>1. TypeOK' BY <1>2 DEF Tick, Inv, TypeOK, LimitsAssumption
    <2>2. RequestReachesWire' /\ OkMeansResult' /\ (result = {} => reply = {})'
        BY <1>2 DEF Tick, Inv, RequestReachesWire, OkMeansResult
    <2>3. SignatureCoversRequest' BY <1>2 DEF Tick, Inv, SignatureCoversRequest, Verified
    <2>4. OrderUnderstood' BY <1>2 DEF Tick, Inv, OrderUnderstood
    <2> QED BY <2>1, <2>2, <2>3, <2>4 DEF Inv
<1>3. CASE Return
    BY <1>3 DEF Return, Inv, TypeOK, RequestReachesWire, SignatureCoversRequest, OkMeansResult,
                OrderUnderstood
<1>4. ASSUME NEW r \in {RequestFailed, Unbuilt}, Ready, Fail(r) PROVE Inv'
    <2>0. /\ r \in Answers /\ ~r.ok
          /\ r.thrown => exchange = "cryptocom"
          /\ ~r.thrown => r.ok = ~r.errors
        BY UnbuiltIsNotOk
    <2>1. reply = {} BY <1>4 DEF Ready, Inv
    <2>2. TypeOK'
        BY <1>4, <2>0 DEF Ready, Fail, Inv, TypeOK, LimitsAssumption, Answers
    <2>3. RequestReachesWire' /\ SignatureCoversRequest'
        BY <1>4 DEF Fail, Inv, RequestReachesWire, SignatureCoversRequest, Verified
    <2>4. OkMeansResult' /\ (result = {} => reply = {})'
        BY <1>4, <2>0, <2>1 DEF Fail, OkMeansResult
    <2>5. OrderUnderstood' BY <1>4 DEF Fail, Inv, OrderUnderstood
    <2> QED BY <2>2, <2>3, <2>4, <2>5 DEF Inv
<1>5. ASSUME NEW r, Ready, Due(r), Perform(r) PROVE Inv'
    <2>12. Proper(r) BY <1>5 DEF Due
    <2>1. exchange \in {"kraken", "binance", "coinbase", "cryptocom", "direct"}
        BY DEF Inv, TypeOK, ExchangesAssumption
    <2>0. PICK answer \in Replies(r) :
            reply' = {answer} /\ \E p \in Parsed(answer) : result' = {p}
        BY <1>5 DEF Perform
    <2>2. PICK p \in Parsed(answer) : reply' = {answer} /\ result' = {p}
        BY <2>0
    <2>3. p \in Answers /\ Meant(answer, p)
        BY <2>1, <2>12, ParsedAsMeant DEF Proper, Sendable
    <2> DEFINE e == Options(r, calls + 1)
               s == OnWire(r, e)
    <2>4. /\ asked' = {r} /\ sent' = {s} /\ easy' = e /\ calls' = calls + 1
          /\ UNCHANGED <<exchange, hmac, clock>>
        BY <1>5 DEF Perform
    <2>5. /\ s.verb = r.method /\ s.path = r.path /\ s.query = r.query /\ s.params = r.params
          /\ r.headers # {} => s.headers = r.headers
          /\ r.method \in {"GET", "POST"} => s.body = r.body
        BY <2>12, PerformOverwrites DEF Proper
    <2>6. /\ e.mode \in {"GET", "POST"} /\ e.custom \in {"none", "DELETE"}
          /\ e.headers.of \in 0..(calls + 1) /\ e.fields.of \in 0..(calls + 1)
        BY <1>5, <2>12, OptionsTyped DEF Proper, Ready, Inv
    <2>7. r.method \in Methods
        BY <2>12 DEF Proper, Sendable
    <2> HIDE DEF e, s
    <2>8. TypeOK'
        BY <1>5, <2>2, <2>3, <2>4, <2>5, <2>6, <2>7
        DEF Ready, Inv, TypeOK, Answers, LimitsAssumption
    <2>9. RequestReachesWire'
        BY <2>4, <2>5 DEF RequestReachesWire
    <2>10. SignatureCoversRequest'
        BY <2>4, <2>12 DEF SignatureCoversRequest, Verified, Proper
    <2>11. OkMeansResult'
        BY <2>2, <2>3, <2>4 DEF OkMeansResult, Meant
    <2>13. OrderUnderstood'
        BY <1>5, <2>4, <2>5 DEF OrderUnderstood, Places, Misplaced, LeftOut, UnderstoodAs, Due
    <2> QED BY <2>2, <2>8, <2>9, <2>10, <2>11, <2>13 DEF Inv
<1> QED BY <1>1, <1>2, <1>3, <1>4, <1>5, StepsOf DEF Inv, TypeOK

LEMMA Invariance == Spec => []Inv
<1> USE ExchangesAssumption, LimitsAssumption
<1>1. Init => Inv BY InitInv
<1>2. Inv /\ [Next]_vars => Inv' BY NextInv
<1> QED BY <1>1, <1>2, PTL DEF Spec

\* The handle, the request, and the response keep their types.
THEOREM TypeCorrect == Spec => []TypeOK
BY Invariance, PTL DEF Inv

\* What perform() puts on the wire is the request of the call, after any sequence
\* of earlier requests, whose options the handle still holds.
THEOREM RequestsReachWire == Spec => []RequestReachesWire
BY Invariance, PTL DEF Inv

\* What sign() signs is what the exchange computes the signature of from the
\* request it receives.
THEOREM SignaturesCover == Spec => []SignatureCoversRequest
BY Invariance, PTL DEF Inv

\* Every exchange reads the order that it is sent as the caller stated it; of Kraken's
\* REST requests, every term read is the order's, in six decimals if it is a quantity
\* and the trigger's price in a batch excepted, and every term not read is one of
\* those listed as left out.
THEOREM OrdersUnderstood == Spec => []OrderUnderstood
BY Invariance, PTL DEF Inv

\* A response has a value, or an error, for the reason its reply gives it.
THEOREM ResultsAreResults == Spec => []OkMeansResult
BY Invariance, PTL DEF Inv
=============================================================================
