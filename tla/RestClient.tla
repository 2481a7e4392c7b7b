------------------------------ MODULE RestClient ------------------------------
(***************************************************************************)
(* A REST client: the requests its exchange knows, their signing, the       *)
(* CurlHttpClient that sends them, and the envelope that comes back.        *)
(*                                                                         *)
(* Each client keeps one libcurl handle for its life, and the handle keeps  *)
(* every option until it is set again. That is the state here. A call is    *)
(* sequential (one client serves one thread) and is one action: execute()   *)
(* builds, signs, sets the options, performs and parses.                    *)
(*                                                                         *)
(* A query or body is the sequence of its parts: the parameters of request  *)
(* n, a clock reading, a signature; what the parameters are is a function   *)
(* of their names, params. A signature is the sequence that was signed.     *)
(* "direct" is a program that calls CurlHttpClient itself.                  *)
(***************************************************************************)
EXTENDS Integers, Sequences, FiniteSets, RestEndpoints, Orders

CONSTANTS
    Exchanges,      \* to consider; a client is of one of them
    MaxRequests,    \* bound: calls
    MaxClock        \* bound: ticks of the clock

ASSUME ExchangesAssumption ==
    Exchanges \subseteq {"kraken", "binance", "coinbase", "cryptocom", "direct"}
ASSUME LimitsAssumption == MaxRequests \in Nat /\ MaxClock \in Nat

VARIABLES
    exchange,       \* whose client this is
    hmac,           \* the credentials ask for HMAC-SHA256
    clock,          \* system_clock, or the clock injected
    calls,          \* calls so far
    easy,           \* the options of the curl handle
    asked,          \* the request handed to perform(), until its call returns
    sent,           \* what libcurl made of it
    reply, result   \* the exchange's reply to it, and the RestResponse

vars == <<exchange, hmac, clock, calls, easy, asked, sent, reply, result>>

-----------------------------------------------------------------------------
(* Requests, as build() makes them. n is the number of the call. *)

Params(n) == <<"params", n>>
Path(p) == <<"path", p>>
Time(t) == <<"time", t>>
Id(n) == <<"id", n>>
Method(m) == <<"method", m>>
Sig == <<"signature", 0>>

\* asks: the parameters the caller has set, or the order.
Request(e, n, asks, params) ==
    [method |-> e.method, path |-> e.path, reads |-> e.reads,
     query |-> IF e.method # "POST" /\ params # <<>> THEN <<Params(n)>> ELSE <<>>,
     body |-> IF e.method = "POST" /\ params # <<>> THEN <<Params(n)>> ELSE <<>>,
     headers |-> {}, asks |-> asks, params |-> params, json |-> e.json,
     private |-> FALSE, signature |-> <<>>, time |-> 0]
Named(names) == [p \in names |-> "given"]
Requests(e, n) == {Request(e, n, Named(names), Named(names)) : names \in Parameters(e)}

UserAgent(r) == [r EXCEPT !.headers = {"User-Agent"}]
WithoutHeaders(n) == UNION {Requests(e, n) : e \in Direct}
DirectRequests(n) ==
    WithoutHeaders(n)
    \cup {[r EXCEPT !.headers = {"Content-Type: text"}] : r \in WithoutHeaders(n)}
    \cup {[r EXCEPT !.body = <<Params(n)>>] : r \in Requests(DirectDelete, n)}
PublicRequests(n) ==
    CASE exchange = "direct" -> DirectRequests(n)
      [] exchange = "coinbase" -> {UserAgent(r) : r \in UNION {Requests(e, n) : e \in Public.coinbase}}
      [] OTHER -> UNION {Requests(e, n) : e \in Public[exchange]}

\* Before signing: Kraken's nonce is a parameter, Crypto.com's body is an
\* envelope around the parameters.
Content(r) == IF r.json THEN "Content-Type: json" ELSE "Content-Type: form"
KrakenPrivate(r) == [r EXCEPT !.body = <<Time(clock)>> \o @, !.headers = {Content(r)}]
CryptoComPrivate(n, r) ==
    [r EXCEPT !.body = <<Method(Path(r.path)), Id(n)>> \o @ \o <<Time(clock)>>,
              !.headers = {Content(r)}]
MakePrivate(n, r) ==
    CASE exchange = "kraken" -> KrakenPrivate(r)
      [] exchange = "cryptocom" -> CryptoComPrivate(n, r)
      [] exchange = "coinbase" -> UserAgent(r)
      [] OTHER -> r
PrivateRequests(n) ==
    {MakePrivate(n, r) : r \in UNION {Requests(e, n) : e \in Private[exchange]}}

\* The requests that place an order o at an endpoint, none if a converter throws.
Encoded(e, o) ==
    CASE e = KrakenAddOrder -> KrakenRestOrder(o)
      [] e = KrakenAddOrderBatch -> KrakenBatchOrder(o)
      [] e = BinanceNewOrder -> BinanceOrder(o)
      [] e = CoinbasePlaceOrder -> CoinbaseOrder(o)
      [] e = CryptoComCreateOrder -> CryptoComOrder(o)
OrderRequests(e, n, o) == {MakePrivate(n, Request(e, n, o, w)) : w \in Encoded(e, o)}

-----------------------------------------------------------------------------
(* Signing *)

Signed(r, signature, headers) ==
    [r EXCEPT !.headers = @ \cup headers, !.private = TRUE, !.signature = signature, !.time = clock]

\* The nonce is read back from the body that carries it, as the content type says.
NoncePart(parts) == SelectSeq(parts, LAMBDA part : part[1] = "time")
NonceIn(r) == IF Content(r) \in r.headers THEN NoncePart(r.body) ELSE <<>>
KrakenSign(r) ==
    Signed(r, <<Path(r.path)>> \o NonceIn(r) \o r.body, {"API-Key", "API-Sign"})

\* The timestamp goes to the body of a POST and to the query of the others, and
\* what is signed is both, with the timestamp.
Stamp(r) ==
    IF r.method = "POST" THEN [r EXCEPT !.body = @ \o <<Time(clock)>>]
                         ELSE [r EXCEPT !.query = @ \o <<Time(clock)>>]
AddSignature(r) ==
    IF r.method = "POST" THEN [r EXCEPT !.body = @ \o <<Sig>>]
                         ELSE [r EXCEPT !.query = @ \o <<Sig>>]
BinanceSignUnstamped(r) ==
    Signed(AddSignature(Stamp(r)), r.query \o r.body,
           {"X-MBX-APIKEY"} \cup IF r.method = "POST" THEN {"Content-Type: form"} ELSE {})
BinanceSign(r) ==
    Signed(AddSignature(Stamp(r)), Stamp(r).query \o Stamp(r).body,
           {"X-MBX-APIKEY"} \cup IF r.method = "POST" THEN {"Content-Type: form"} ELSE {})

CoinbaseSign(r) ==
    Signed(r, <<Time(clock), Method(r.method), Path(r.path)>> \o r.query \o r.body,
           {"CB-ACCESS-KEY", "CB-ACCESS-SIGN", "CB-ACCESS-TIMESTAMP", "CB-ACCESS-PASSPHRASE"}
           \cup IF r.method = "POST" THEN {"Content-Type: json"} ELSE {})

CryptoComSign(r) == Signed([r EXCEPT !.body = @ \o <<Sig>>], r.body, {})

Sign(r) ==
    CASE exchange = "kraken" -> KrakenSign(r)
      [] exchange = "binance" -> BinanceSign(r)
      [] exchange = "coinbase" -> CoinbaseSign(r)
      [] exchange = "cryptocom" -> CryptoComSign(r)

\* BinanceAuth::sign throws for RSA and Ed25519 keys.
SignThrows == exchange = "binance" /\ ~hmac

-----------------------------------------------------------------------------
(* CurlHttpClient::perform *)

\* libcurl keeps pointers to the header list and to the body. Whose they are is
\* recorded with what was in them; after the call that set them they dangle.
FreshHandle ==
    [mode |-> "GET", custom |-> "none",
     headers |-> [of |-> 0, names |-> {}], fields |-> [of |-> 0, parts |-> <<>>]]

\* CURLOPT_CUSTOMREQUEST is cleared before a method is chosen.
CustomRequestAlways(m) == m
KeepCustomRequest(m) == IF m = "DELETE" THEN "DELETE" ELSE easy.custom
CustomRequest(m) == IF m = "DELETE" THEN "DELETE" ELSE "none"
HeaderOption(r, n) ==
    IF r.headers # {} THEN [of |-> n, names |-> r.headers] ELSE easy.headers
HasFields(r) == r.method = "POST" \/ (r.method = "DELETE" /\ r.body # <<>>)

\* CURLOPT_POSTFIELDS makes the request a POST, as CURLOPT_POST does, and
\* CURLOPT_HTTPGET a GET; CURLOPT_CUSTOMREQUEST replaces the verb only.
Options(r, n) ==
    [mode |-> IF r.method = "GET" THEN "GET" ELSE IF HasFields(r) THEN "POST" ELSE easy.mode,
     custom |-> CustomRequest(r.method),
     headers |-> HeaderOption(r, n),
     fields |-> IF HasFields(r) THEN [of |-> n, parts |-> r.body] ELSE easy.fields]

\* What libcurl sends (external); the parameters are found where the method has
\* them.
OnWire(r, e) ==
    [verb |-> IF e.custom # "none" THEN e.custom ELSE e.mode,
     path |-> r.path, query |-> r.query,
     headers |-> e.headers.names,
     body |-> IF e.mode = "POST" THEN e.fields.parts ELSE <<>>,
     params |-> IF r.method = "POST" /\ (e.mode # "POST" \/ e.fields.parts # r.body)
                THEN <<>> ELSE r.params,
     uses |-> {e.headers.of} \cup IF e.mode = "POST" THEN {e.fields.of} ELSE {}]

-----------------------------------------------------------------------------
(* The reply and the envelope *)

\* json is "error" for an error in the exchange's own form, "other" for JSON that
\* is neither that nor a result, "none" for what is not JSON. A result may have a
\* flaw in a field that from_json reads. Status 0: no reply, perform() throws.
Reply(status, json, flaw) == [status |-> status, json |-> json, flaw |-> flaw]
Flawless == [kind |-> "none", oddity |-> "none"]
Lost == Reply(0, "none", Flawless)
Refusal == Reply(IF exchange = "kraken" THEN 200 ELSE 400, "error", Flawless)
Replies(r) ==
    {Lost, Refusal, Reply(502, "none", Flawless), Reply(502, "other", Flawless)}
    \cup {Reply(200, "result", flaw) : flaw \in {Flawless} \cup Flaws(r)}

\* Thrown is no response but an exception that leaves execute().
RestResponse(ok, value) == [ok |-> ok, value |-> value, errors |-> ~ok, thrown |-> FALSE]
RequestFailed == RestResponse(FALSE, FALSE)
Thrown == [ok |-> FALSE, value |-> FALSE, errors |-> FALSE, thrown |-> TRUE]

\* build() throws: it is called in the try that turns what is thrown into a failed
\* response, but Crypto.com's is evaluated for dispatch(), outside its try.
Unbuilt == IF exchange = "cryptocom" THEN Thrown ELSE RequestFailed
ReadingOf(flaw) == IF flaw = Flawless THEN "value" ELSE Reading[flaw.kind][flaw.oddity]

KrakenAccepts(r) == r.json # "error"
BinanceAccepts(r) == r.status < 400 /\ r.json # "error"
CoinbaseAccepts(r) == r.status \in 200..299
CryptoComAccepts(r) == r.status \in 200..299 /\ r.json = "result"

\* A parse that read every JSON body as a result.
AcceptsJson(r) == TRUE
Accepts(r) ==
    CASE exchange = "kraken" -> KrakenAccepts(r)
      [] exchange = "binance" -> BinanceAccepts(r)
      [] exchange = "coinbase" -> CoinbaseAccepts(r)
      [] exchange = "cryptocom" -> CryptoComAccepts(r)
      [] exchange = "direct" -> TRUE

\* parse_*_response. What throws on the way is caught, and the call has failed;
\* Kraken's result may be absent. What is undefined may do either.
Parsed(r) ==
    IF r.json = "none" \/ ~Accepts(r) THEN {RequestFailed}
    ELSE IF exchange = "kraken" /\ r.json # "result" THEN {RestResponse(TRUE, FALSE)}
    ELSE CASE ReadingOf(r.flaw) = "throws" -> {RequestFailed}
           [] ReadingOf(r.flaw) = "undefined" -> {RequestFailed, RestResponse(TRUE, TRUE)}
           [] OTHER -> {RestResponse(TRUE, TRUE)}

-----------------------------------------------------------------------------
Init ==
    /\ exchange \in Exchanges
    /\ hmac \in BOOLEAN
    /\ clock = 0 /\ calls = 0
    /\ easy = FreshHandle
    /\ asked = {} /\ sent = {} /\ reply = {} /\ result = {}

Tick ==
    /\ clock < MaxClock /\ clock' = clock + 1
    /\ UNCHANGED <<exchange, hmac, calls, easy, asked, sent, reply, result>>

Ready == result = {} /\ calls < MaxRequests

Perform(r) ==
    /\ calls' = calls + 1
    /\ easy' = Options(r, calls + 1)
    /\ asked' = {r} /\ sent' = {OnWire(r, easy')}
    /\ \E answer \in Replies(r) : reply' = {answer} /\ \E p \in Parsed(answer) : result' = {p}
    /\ UNCHANGED <<exchange, hmac, clock>>

\* build() or sign() throws: nothing is sent.
Fail(r) ==
    /\ calls' = calls + 1
    /\ result' = {r}
    /\ UNCHANGED <<exchange, hmac, clock, easy, asked, sent, reply>>

\* The caller takes the result, and only the curl handle remembers the call.
Return ==
    /\ result # {}
    /\ asked' = {} /\ sent' = {} /\ reply' = {} /\ result' = {}
    /\ UNCHANGED <<exchange, hmac, clock, calls, easy>>

\* execute(req)
ExecutePublic == Ready /\ \E r \in PublicRequests(calls + 1) : Perform(r)

\* execute(req, credentials)
ExecutePrivate ==
    /\ Ready /\ ~SignThrows
    /\ \E r \in PrivateRequests(calls + 1) : Perform(Sign(r))

PlaceOrder ==
    /\ Ready /\ ~SignThrows
    /\ \E e \in Placing[exchange] : \E o \in OrdersOf[exchange] :
        \E r \in OrderRequests(e, calls + 1, o) : Perform(Sign(r))

PlaceUnsayable ==
    /\ Ready
    /\ \E e \in Placing[exchange] : {o \in OrdersOf[exchange] : Encoded(e, o) = {}} # {}
    /\ Fail(Unbuilt)

ExecuteUnsignable == Ready /\ SignThrows /\ Fail(RequestFailed)

Next ==
    Tick \/ ExecutePublic \/ ExecutePrivate \/ PlaceOrder \/ PlaceUnsayable \/ ExecuteUnsignable
    \/ Return

Spec == Init /\ [][Next]_vars

-----------------------------------------------------------------------------
(* Properties *)

Methods == {"GET", "POST", "DELETE"}

TypeOK ==
    /\ exchange \in Exchanges /\ hmac \in BOOLEAN
    /\ clock \in 0..MaxClock /\ calls \in 0..MaxRequests
    /\ easy.mode \in {"GET", "POST"} /\ easy.custom \in {"none", "DELETE"}
    /\ easy.headers.of \in 0..calls /\ easy.fields.of \in 0..calls
    /\ \A r \in asked : r.method \in Methods
    /\ \A s \in sent : s.verb \in Methods
    /\ \A r \in result : r \in [ok : BOOLEAN, value : BOOLEAN, errors : BOOLEAN, thrown : BOOLEAN]

\* Whatever the client sent before, a request has its own method, path and
\* parameters and, if it has any, its own headers; a GET has no body, a POST has
\* its own. A list of orders never goes out as their cancelling, which differs from
\* it by the method only.
RequestReachesWire ==
    \A r \in asked, s \in sent :
        /\ s.verb = r.method /\ s.path = r.path /\ s.query = r.query /\ s.params = r.params
        /\ r.headers # {} => s.headers = r.headers
        /\ r.method \in {"GET", "POST"} => s.body = r.body

\* What the exchange computes the signature of, from the request it receives, is
\* what was signed: nothing is added, and no clock is read, after signing.
Unsigned(parts) ==
    IF parts # <<>> /\ parts[Len(parts)] = Sig THEN SubSeq(parts, 1, Len(parts) - 1) ELSE parts
Verified(r) ==
    CASE exchange = "kraken" -> <<Path(r.path)>> \o NoncePart(r.body) \o r.body
      [] exchange = "binance" -> Unsigned(r.query) \o Unsigned(r.body)
      [] exchange = "coinbase" ->
            <<Time(r.time), Method(r.method), Path(r.path)>> \o r.query \o r.body
      [] exchange = "cryptocom" -> Unsigned(r.body)
SignatureCoversRequest ==
    \A r \in asked : r.private => r.signature = Verified(r)

\* A call has a value only if the exchange gave a result all of whose fields could be
\* read: a default in it stands for a field that is absent, for a list that is null
\* or, with Crypto.com, for any field but a numeral that is none. It fails only for
\* a cause, and the status of an order is none: one that is not known does not fail
\* the list it is in. A call that asked nothing of the exchange is never ok. Whatever
\* fails is told in the envelope, but of Crypto.com an order that has no word there:
\* that alone is thrown at the caller. Kraken's envelope alone passes JSON that has
\* neither error nor result, and what is undefined is excepted.
Readable(flaw) ==
    \/ flaw = Flawless
    \/ flaw.oddity = "absent" /\ flaw.kind \notin {"row", "unruly"}
    \/ flaw.oddity = "null" /\ flaw.kind \in {"listed", "whole"}
    \/ flaw.oddity # "word" /\ flaw.kind \in {"lenient", "tolerant"}
    \/ flaw.kind = "status" /\ flaw.oddity = "word"
OkMeansResult ==
    \A r \in result :
        /\ r.thrown => exchange = "cryptocom" /\ reply = {}
        /\ ~r.thrown => r.ok = ~r.errors
        /\ reply = {} => ~r.ok
        /\ \A p \in reply :
            LET undefined == p.flaw.kind = "unruly" /\ p.flaw.oddity = "absent" IN
            /\ r.value /\ exchange # "direct" =>
                p.json = "result" /\ (Readable(p.flaw) \/ undefined)
            /\ r.ok /\ ~r.value => exchange = "kraken" /\ p.json = "other"
            /\ ~r.ok => p.json # "result" \/ ~Readable(p.flaw)

\* An exchange understands an order as it was asked, or nothing is sent. Of Kraken's
\* REST requests, whose quantities are rounded, every term is the order's, and
\* every term of the order is in them but the ones listed here, a flag that is
\* false and a limit price beside a trigger: AddOrder gives the trigger's price in
\* its place, and a batch the limit price in place of the trigger's.
Places(r) == "order_type" \in DOMAIN r.asks
Misplaced(r) == r.path = KrakenAddOrderBatch.path /\ r.asks.order_type \in Triggered
AddOrderLeavesOut ==
    TriggerDetails
    \cup {"limit_price_type", "close_limit_price_type", "close_trigger_price_type", "reduce_only",
          "effective_time", "fee_preference", "stp_type", "cash_order_qty", "sender_sub_id"}
BatchLeavesOut ==
    AddOrderLeavesOut
    \cup {"trigger_price", "close_order_type", "close_limit_price", "close_trigger_price",
          "time_in_force", "margin", "post_only", "expire_time", "deadline", "display_qty",
          "validate"}
LeftOut(r) == IF r.path = KrakenAddOrderBatch.path THEN BatchLeavesOut ELSE AddOrderLeavesOut
OrderUnderstood ==
    \A r \in asked, s \in sent : Places(r) =>
        LET read == Understood(exchange, s.params) IN
        IF exchange # "kraken" THEN read = r.asks
        ELSE /\ \A t \in DOMAIN read :
                    \/ t \in DOMAIN r.asks /\ read[t] = Rounded(r.asks)[t]
                    \/ t = "trigger_price" /\ Misplaced(r)
             /\ \A t \in DOMAIN r.asks \ DOMAIN read :
                    \/ t \in LeftOut(r)
                    \/ t \in Flags /\ ~r.asks[t]
                    \/ t = "limit_price" /\ r.asks.order_type \in Triggered

\* An order means the same on both of Kraken's transports, but for the digits of its
\* quantities.
OnWebSocket(r) ==
    IF r.path = KrakenAddOrderBatch.path THEN OrderParamsToJson(r.asks) ELSE KrakenWsOrder(r.asks)
SameOnBothTransports ==
    \A r \in asked, s \in sent : exchange = "kraken" /\ Places(r) =>
        \A w \in OnWebSocket(r) :
            Understood(exchange, s.params) =
                Rounded(Only(OrderParamsFromJson(w), DOMAIN w))

\* A request is sent as if it were the first of its client: from the memory of
\* no other request, with its own body and headers only.
InheritsNothing ==
    \A r \in asked, s \in sent :
        s.body = r.body /\ s.headers = r.headers /\ s.uses \subseteq {0, calls}
=============================================================================
