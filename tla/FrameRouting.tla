---------------------------- MODULE FrameRouting ----------------------------
(***************************************************************************)
(* What the four exchanges that share ExchangeWsClient put on the wire, and *)
(* what the client makes of it: the frames of requests, the frame           *)
(* identifiers, the parsing of answers and pushes, Crypto.com's heartbeats. *)
(*                                                                         *)
(* WsClient has the client's threads and leaves the frames out. Here the    *)
(* client does one thing at a time, and a frame is a record whose fields    *)
(* are the JSON fields that some branch of the code looks at. A value is    *)
(* tagged with its JSON type, for the code asks for it. The exchanges are   *)
(* external: they answer in order, push what is subscribed, send notices,   *)
(* and now and then a field of a type that nobody expects.                  *)
(*                                                                         *)
(* A channel stands for a channel name, with its depth, interval or period  *)
(* where the name the exchange gives it has one. Kraken's has none.         *)
(***************************************************************************)
EXTENDS Integers, Sequences, FiniteSets, SequencesExt

CONSTANTS
    Dialects,       \* exchanges to consider; one is chosen initially
    Channels, Symbols,
    MaxRequests,    \* bound: requests and subscriptions of the application
    MaxInFlight,    \* bound: frames under way to the client
    MaxUnasked,     \* bound: heartbeats, notices and odd frames
    MaxPushes       \* bound: pushes

ASSUME DialectsAssumption ==
    Dialects \subseteq {"kraken", "binance_stream", "binance_api", "cryptocom"}
ASSUME SymbolsAssumption == IsFiniteSet(Symbols)
ASSUME BoundsAssumption == {MaxRequests, MaxInFlight, MaxUnasked, MaxPushes} \subseteq Nat

VARIABLES
    dialect,
    calls,          \* requests made so far; the n-th has req_id n
    pending,        \* pending_: correlation ids that have a handler
    subscriptions,  \* subscriptions_: route key -> call
    running,        \* has no exception left the receive thread?
    last,           \* what the last frame came to, if it was a push
    toServer, toClient,     \* frames under way
    feed,           \* topics the exchange pushes
    answers,        \* per call: the verdicts the exchange has sent
    owed,           \* ids of heartbeats the exchange wants answered
    unasked, pushes

client == <<calls, pending, subscriptions, running>>
exchange == <<feed, answers, owed, unasked, pushes>>
vars == <<dialect, client, last, toServer, toClient, exchange>>

-----------------------------------------------------------------------------
(* JSON *)

Num(n) == [num |-> n]
Str(s) == [str |-> s]
Null == [null |-> TRUE]
Arr == [array |-> TRUE]
Has(j, field) == field \in DOMAIN j
IsStr(v) == "str" \in DOMAIN v
IsNum(v) == "num" \in DOMAIN v

Ids == 1..MaxRequests
Topics == Channels \X Symbols
TopicsOf(i) == {calls[i].channel} \X calls[i].symbols
NoChannel == "none"
NoPush == [came_to |-> "nothing"]

\* Nothing can be subscribed under the name of Kraken's notices: SubscribeChannel
\* has no status.
ASSUME ChannelsAssumption == {NoChannel, "status"} \cap Channels = {}

\* A push may lack a field (a book level never lacks its price and size), have
\* one of another JSON type, or a string that std::stod rejects.
Shapes == {"whole", "missing", "mistyped", "nonnumeric"}

-----------------------------------------------------------------------------
(* What the client sends *)

\* The names that the *_stream and *_channel helpers build are one-to-one.
SymbolFirst(c, s) == <<s, c>>
StreamName(c, s) == <<c, s>>

\* Kraken has any set of symbols in one subscription, the others one stream.
Selections == IF dialect = "kraken" THEN (SUBSET Symbols) \ {{}} ELSE {{s} : s \in Symbols}

KrakenSubscribe(id, c, S) ==
    [method |-> Str("subscribe"), req_id |-> Num(id), channel |-> c, symbols |-> S]
BinanceSubscribe(id, c, S) ==
    [method |-> Str("SUBSCRIBE"), id |-> Num(id), params |-> {StreamName(c, s) : s \in S}]
CryptoComSubscribe(id, c, S) ==
    [method |-> Str("subscribe"), id |-> Num(id), params |-> {StreamName(c, s) : s \in S}]

SubscribeFrame(id, c, S) ==
    CASE dialect = "kraken" -> KrakenSubscribe(id, c, S)
      [] dialect = "binance_stream" -> BinanceSubscribe(id, c, S)
      [] dialect = "cryptocom" -> CryptoComSubscribe(id, c, S)

\* unsubscribe_json(): Kraken's has no req_id, the others repeat the one of the
\* subscription they end.
UnsubscribeRepeatsSubscribe(id, c, S) == SubscribeFrame(id, c, S)
UnsubscribeFrame(id, c, S) ==
    CASE dialect = "kraken" ->
            [method |-> Str("unsubscribe"), channel |-> c, symbols |-> S]
      [] dialect = "binance_stream" ->
            [method |-> Str("UNSUBSCRIBE"), id |-> Num(id), params |-> {StreamName(c, s) : s \in S}]
      [] dialect = "cryptocom" ->
            [method |-> Str("unsubscribe"), id |-> Num(id), params |-> {StreamName(c, s) : s \in S}]

\* The requests of execute(): Kraken's eight order methods, Binance's order
\* methods, Crypto.com's authentication. Their parameters are data.
KrakenRequest(id) == [method |-> Str("add_order"), req_id |-> Num(id)]
BinanceRequest(id) == [method |-> Str("order.place"), id |-> Num(id)]
CryptoComRequest(id) == [method |-> Str("public/auth"), id |-> Num(id)]
RequestFrame(id) ==
    CASE dialect = "kraken" -> KrakenRequest(id)
      [] dialect = "binance_api" -> BinanceRequest(id)
      [] dialect = "cryptocom" -> CryptoComRequest(id)

\* route_key(): of Kraken's subscriptions the channel, whatever the symbols.
RouteOfChannel(c, S) == c
RouteKey(c, S) == IF dialect = "kraken" THEN c ELSE StreamName(c, CHOOSE s \in S : TRUE)

-----------------------------------------------------------------------------
(* What the client makes of what it receives: the frame identifiers *)

Response(id) == [kind |-> "MethodResponse", correlation_id |-> id]
Push(route) == [kind |-> "PushMessage", route_key |-> route]
Unknown == [kind |-> "Unknown"]
Throws == [kind |-> "throws"]

\* The type checks of kraken_frame_descriptor, without which get<> throws.
KrakenUnchecked(j) ==
    CASE Has(j, "req_id") -> IF IsNum(j.req_id) THEN Response(j.req_id) ELSE Throws
      [] ~Has(j, "req_id") /\ Has(j, "channel") ->
            IF IsStr(j.channel) THEN Push(j.channel.str) ELSE Throws
      [] OTHER -> Unknown
KrakenDescriptor(j) ==
    CASE Has(j, "req_id") /\ IsNum(j.req_id) -> Response(j.req_id)
      [] ~(Has(j, "req_id") /\ IsNum(j.req_id)) /\ Has(j, "channel") /\ IsStr(j.channel) ->
            Push(j.channel.str)
      [] OTHER -> Unknown

BinanceId(j) == IF IsNum(j.id) \/ IsStr(j.id) THEN Response(j.id) ELSE Throws

BinanceStreamDescriptor(j) ==
    CASE Has(j, "stream") -> IF IsStr(j.stream) THEN Push(j.stream.str) ELSE Throws
      [] ~Has(j, "stream") /\ Has(j, "id") /\ (Has(j, "result") \/ Has(j, "error")) ->
            IF j.id = Null THEN Unknown ELSE BinanceId(j)
      [] OTHER -> Unknown

BinanceApiDescriptor(j) ==
    IF Has(j, "id") THEN IF j.id = Null THEN Unknown ELSE BinanceId(j) ELSE Unknown

\* An id of -1 marks a push, and a result does not: an answer may carry one.
HasResult(j) == Has(j, "result")
IsUpdate(j) == Has(j, "id") /\ IsNum(j.id) /\ j.id.num = -1
Subscription(j) ==
    IF Has(j, "result") /\ Has(j.result, "subscription") THEN j.result.subscription.str ELSE "none"
Heartbeats == {Str("public/heartbeat"), Str("public/respond-heartbeat")}
CryptoComDescriptor(j) ==
    CASE Has(j, "method") /\ ~IsStr(j.method) -> Throws
      [] Has(j, "method") /\ j.method \in Heartbeats -> Unknown
      [] Has(j, "method") /\ j.method = Str("subscribe") /\ IsUpdate(j) -> Push(Subscription(j))
      [] OTHER -> IF Has(j, "id") /\ IsNum(j.id) THEN Response(j.id) ELSE Unknown

Identify(j) ==
    CASE dialect = "kraken" -> KrakenDescriptor(j)
      [] dialect = "binance_stream" -> BinanceStreamDescriptor(j)
      [] dialect = "binance_api" -> BinanceApiDescriptor(j)
      [] dialect = "cryptocom" -> CryptoComDescriptor(j)

-----------------------------------------------------------------------------
(* Parsing: whether an answer means yes, and which pushes can be parsed *)

KrakenOk(j) == Has(j, "success") /\ j.success
BinanceAckOk(j) == ~(Has(j, "error") /\ j.error # Null)
BinanceApiOk(j) ==
    /\ ~(Has(j, "error") /\ j.error # Null)
    /\ (Has(j, "status") => j.status.num < 400)
CryptoComOk(j) == Has(j, "code") /\ IsNum(j.code) /\ j.code.num = 0

\* The success of an answer, which make_ws_response copies into WsResponse::ok.
Replied(j) == TRUE
Ok(j) ==
    CASE dialect = "kraken" -> KrakenOk(j)
      [] dialect = "binance_stream" -> BinanceAckOk(j)
      [] dialect = "binance_api" -> BinanceApiOk(j)
      [] dialect = "cryptocom" -> CryptoComOk(j)

\* Results from_json may have: a value() or get<> of another type throws, as does
\* std::stod. Crypto.com's field helpers give a default for another type, its
\* book levels do not.
KrakenPushParses(shape) == {shape \in {"whole", "missing"}}
BinancePushParses(shape) == {shape \in {"whole", "missing"}}
CryptoComPushParses(shape) ==
    IF shape = "mistyped" THEN BOOLEAN ELSE {shape # "nonnumeric"}
PushParses(shape) ==
    CASE dialect = "kraken" -> KrakenPushParses(shape)
      [] dialect = "binance_stream" -> BinancePushParses(shape)
      [] dialect = "cryptocom" -> CryptoComPushParses(shape)

-----------------------------------------------------------------------------
Init ==
    /\ dialect \in Dialects
    /\ calls = <<>> /\ pending = {} /\ subscriptions = [r \in {} |-> 0]
    /\ running = TRUE /\ last = NoPush
    /\ toServer = <<>> /\ toClient = <<>>
    /\ feed = {} /\ answers = [i \in Ids |-> {}] /\ owed = <<>>
    /\ unasked = 0 /\ pushes = 0

-----------------------------------------------------------------------------
(* The application *)

Issue(frame, c, S) ==
    /\ running /\ Len(calls) < MaxRequests
    /\ calls' = Append(calls, [channel |-> c, symbols |-> S, outcome |-> "none", handle |-> "none"])
    /\ pending' = pending \cup {Num(Len(calls) + 1)}
    /\ toServer' = Append(toServer, frame)
    /\ last' = NoPush
    /\ UNCHANGED <<dialect, subscriptions, running, toClient, exchange>>

Subscribe ==
    /\ dialect # "binance_api"
    /\ \E c \in Channels, S \in Selections : Issue(SubscribeFrame(Len(calls) + 1, c, S), c, S)

Execute ==
    /\ dialect # "binance_stream"
    /\ Issue(RequestFrame(Len(calls) + 1), NoChannel, {})

Without(f, x) == [y \in DOMAIN f \ {x} |-> f[y]]

Cancel(i) ==
    /\ running /\ calls[i].handle = "active"
    /\ calls' = [calls EXCEPT ![i].handle = "cancelled"]
    /\ subscriptions' = Without(subscriptions, RouteKey(calls[i].channel, calls[i].symbols))
    /\ toServer' = Append(toServer, UnsubscribeFrame(i, calls[i].channel, calls[i].symbols))
    /\ last' = NoPush
    /\ UNCHANGED <<dialect, pending, running, toClient, exchange>>

Application == Subscribe \/ Execute \/ \E i \in 1..Len(calls) : Cancel(i)

-----------------------------------------------------------------------------
(* The exchange (external) *)

Asked(f) ==     \* the topics a frame of the application names
    IF dialect = "kraken" THEN {f.channel} \X f.symbols ELSE f.params

\* Kraken acknowledges every symbol by itself, under the one req_id.
KrakenAck(f, s, yes) ==
    IF s \in yes
    THEN [method |-> f.method, req_id |-> f.req_id, success |-> TRUE,
          result |-> [channel |-> f.channel, symbol |-> s]]
    ELSE [method |-> f.method, req_id |-> f.req_id, success |-> FALSE, error |-> Str("refused")]

\* Crypto.com's acknowledgement may be bare or carry a snapshot.
Answer(f, yes) ==
    CASE dialect = "kraken" ->
            {[method |-> f.method, req_id |-> f.req_id, success |-> yes]}
      [] dialect = "binance_stream" ->
            {IF yes THEN [result |-> Null, id |-> f.id] ELSE [error |-> Str("refused"), id |-> f.id]}
      [] dialect = "binance_api" ->
            {IF yes THEN [id |-> f.id, status |-> Num(200), result |-> Null]
                    ELSE [id |-> f.id, status |-> Num(400), error |-> Str("refused")]}
      [] dialect = "cryptocom" ->
            {[id |-> f.id, method |-> f.method, code |-> Num(IF yes THEN 0 ELSE 40004)],
             [id |-> f.id, method |-> f.method, code |-> Num(IF yes THEN 0 ELSE 40004),
              result |-> [data |-> "snapshot"]]}

Send(frames) ==
    /\ Len(toClient) + Len(frames) <= MaxInFlight
    /\ toClient' = toClient \o frames

RequestId(f) == IF Has(f, "req_id") THEN f.req_id.num ELSE f.id.num
Subscribing(f) == f.method \in {Str("subscribe"), Str("SUBSCRIBE")}
Unsubscribing(f) == f.method \in {Str("unsubscribe"), Str("UNSUBSCRIBE")}
HeartbeatReply(f) == f.method = Str("public/respond-heartbeat")

\* The exchange takes the oldest frame it was sent.
Take ==
    /\ toServer # <<>> /\ toServer' = Tail(toServer)
    /\ UNCHANGED <<dialect, client, last, unasked, pushes>>

KrakenServesSubscribe ==
    /\ dialect = "kraken" /\ Take
    /\ LET f == Head(toServer) IN
        /\ Subscribing(f)
        /\ \E yes \in SUBSET f.symbols, order \in SetToSeqs(f.symbols) :
            /\ Send([n \in 1..Len(order) |-> KrakenAck(f, order[n], yes)])
            /\ feed' = feed \cup ({f.channel} \X yes)
            /\ answers' = [answers EXCEPT ![RequestId(f)] = {(s \in yes) : s \in f.symbols}]
    /\ UNCHANGED owed

ServesSubscribe ==
    /\ dialect # "kraken" /\ Take
    /\ LET f == Head(toServer) IN
        /\ Subscribing(f)
        /\ \E yes \in BOOLEAN : \E answer \in Answer(f, yes) :
            /\ Send(<<answer>>)
            /\ feed' = IF yes THEN feed \cup f.params ELSE feed
            /\ answers' = [answers EXCEPT ![RequestId(f)] = {yes}]
    /\ UNCHANGED owed

KrakenServesUnsubscribe ==
    /\ dialect = "kraken" /\ Take
    /\ LET f == Head(toServer) IN
        /\ Unsubscribing(f)
        /\ Send(<<[method |-> f.method, success |-> TRUE]>>)
        /\ feed' = feed \ ({f.channel} \X f.symbols)
    /\ UNCHANGED <<answers, owed>>

ServesUnsubscribe ==
    /\ dialect # "kraken" /\ Take
    /\ LET f == Head(toServer) IN
        /\ Unsubscribing(f)
        /\ \E answer \in Answer(f, TRUE) : Send(<<answer>>)
        /\ feed' = feed \ f.params
    /\ UNCHANGED <<answers, owed>>

ServesRequest ==
    /\ Take
    /\ LET f == Head(toServer) IN
        /\ ~Subscribing(f) /\ ~Unsubscribing(f) /\ ~HeartbeatReply(f)
        /\ \E yes \in BOOLEAN : \E answer \in Answer(f, yes) :
            /\ Send(<<answer>>)
            /\ answers' = [answers EXCEPT ![RequestId(f)] = {yes}]
    /\ UNCHANGED <<feed, owed>>

ReceivesHeartbeatReply ==
    /\ Take /\ HeartbeatReply(Head(toServer))
    /\ owed' = IF owed # <<>> /\ Head(toServer).id = Num(Head(owed)) THEN Tail(owed) ELSE owed
    /\ UNCHANGED <<toClient, feed, answers>>

PushFrame(c, s, shape) ==
    CASE dialect = "kraken" ->
            [channel |-> Str(c), data |-> [topic |-> <<c, s>>, shape |-> shape]]
      [] dialect = "binance_stream" ->
            [stream |-> Str(StreamName(c, s)), data |-> [topic |-> <<c, s>>, shape |-> shape]]
      [] dialect = "cryptocom" ->
            [id |-> Num(-1), method |-> Str("subscribe"),
             result |-> [subscription |-> Str(StreamName(c, s)), topic |-> <<c, s>>, shape |-> shape]]

Pushes ==
    /\ pushes < MaxPushes /\ pushes' = pushes + 1
    /\ \E t \in feed, shape \in Shapes : Send(<<PushFrame(t[1], t[2], shape)>>)
    /\ UNCHANGED <<dialect, client, last, toServer, feed, answers, owed, unasked>>

Unasked(frame) ==
    /\ unasked < MaxUnasked /\ unasked' = unasked + 1
    /\ Send(<<frame>>)
    /\ UNCHANGED <<dialect, client, last, toServer, feed, answers, pushes>>

\* Its ids are as small as the ids of requests.
BeatsHeart ==
    /\ dialect = "cryptocom"
    /\ Unasked([method |-> Str("public/heartbeat"), id |-> Num(unasked + 1)])
    /\ owed' = Append(owed, unasked + 1)

\* Kraken's status and heartbeat channels; events of a Binance user stream;
\* errors that name no request.
Notice ==
    CASE dialect = "kraken" -> [channel |-> Str("status")]
      [] dialect = "binance_stream" -> [error |-> Str("invalid"), id |-> Null]
      [] dialect = "binance_api" -> [event |-> Null]
      [] dialect = "cryptocom" -> [method |-> Str("notice"), code |-> Num(0)]
Notifies == Unasked(Notice) /\ UNCHANGED owed

Odd ==
    CASE dialect = "kraken" -> {[req_id |-> Str("1")], [channel |-> Num(1)]}
      [] dialect = "binance_stream" -> {[stream |-> Num(1)], [id |-> Arr, result |-> Null]}
      [] dialect = "binance_api" -> {[id |-> Str("x")], [id |-> Arr]}
      [] dialect = "cryptocom" -> {[method |-> Num(1)], [id |-> Str("1")]}
Blunders == (\E frame \in Odd : Unasked(frame)) /\ UNCHANGED owed

Exchange ==
    \/ KrakenServesSubscribe \/ ServesSubscribe
    \/ KrakenServesUnsubscribe \/ ServesUnsubscribe
    \/ ServesRequest \/ ReceivesHeartbeatReply
    \/ Pushes \/ BeatsHeart \/ Notifies \/ Blunders

-----------------------------------------------------------------------------
(* The receive thread: HeartbeatResponder, if any, and then on_raw_message *)

Receive ==
    /\ running /\ toClient # <<>> /\ toClient' = Tail(toClient)
    /\ UNCHANGED <<dialect, exchange>>

\* handle_inbound: what the responder answers and swallows.
RespondWithoutId(j) == [method |-> Str("public/respond-heartbeat"), id |-> Null]
RespondTo(j) ==
    [method |-> Str("public/respond-heartbeat"), id |-> IF Has(j, "id") THEN j.id ELSE Null]
Heartbeat(j) ==
    dialect = "cryptocom" /\ Has(j, "method") /\ j.method = Str("public/heartbeat")

IoHeartbeat ==
    /\ Receive /\ Heartbeat(Head(toClient))
    /\ toServer' = Append(toServer, RespondTo(Head(toClient)))
    /\ last' = NoPush
    /\ UNCHANGED client

\* HeartbeatResponder asks for the method as a string and throws like the
\* identifier; nothing catches what either throws.
IoThrows ==
    /\ Receive /\ Identify(Head(toClient)) = Throws
    /\ running' = FALSE /\ last' = NoPush
    /\ UNCHANGED <<calls, pending, subscriptions, toServer>>

IoUnknown ==
    /\ Receive /\ ~Heartbeat(Head(toClient)) /\ Identify(Head(toClient)) = Unknown
    /\ last' = NoPush
    /\ UNCHANGED <<client, toServer>>

\* The handler in pending_ of a request, or of a subscription.
Resolved(i, ok) ==
    LET subscribed == calls[i].channel # NoChannel /\ ok IN
    /\ calls' = [calls EXCEPT ![i].outcome = IF ok THEN "ok" ELSE "failed",
                              ![i].handle = IF subscribed THEN "active" ELSE @]
    /\ subscriptions' =
          IF subscribed
          THEN [r \in DOMAIN subscriptions \cup {RouteKey(calls[i].channel, calls[i].symbols)} |->
                    IF r = RouteKey(calls[i].channel, calls[i].symbols) THEN i ELSE subscriptions[r]]
          ELSE subscriptions

\* A response takes its handler out of pending_, whether it finds one or not.
LeavesHandler(id) == UNCHANGED pending
TakesHandler(id) == pending' = pending \ {id}

IoResponse ==
    /\ Receive /\ last' = NoPush
    /\ LET j == Head(toClient)
           desc == Identify(j) IN
        /\ desc.kind = "MethodResponse"
        /\ TakesHandler(desc.correlation_id)
        /\ IF desc.correlation_id \in pending
           THEN Resolved(desc.correlation_id.num, Ok(j))
           ELSE UNCHANGED <<calls, subscriptions>>
    /\ UNCHANGED <<running, toServer>>

Payload(j) == IF Has(j, "data") THEN j.data ELSE j.result
CameTo(what, j, i) == last' = [came_to |-> what, push |-> Payload(j), call |-> i]

IoPush ==
    /\ Receive
    /\ LET j == Head(toClient)
           desc == Identify(j) IN
        /\ desc.kind = "PushMessage"
        /\ IF desc.route_key \in DOMAIN subscriptions
           THEN \E parses \in PushParses(Payload(j).shape) :
                    CameTo(IF parses THEN "callback" ELSE "report", j, subscriptions[desc.route_key])
           ELSE IF Has(j, "data") \/ Has(j, "result") THEN CameTo("dropped", j, 0) ELSE last' = NoPush
    /\ UNCHANGED <<client, toServer>>

ReceiveThread == IoHeartbeat \/ IoThrows \/ IoUnknown \/ IoResponse \/ IoPush

Next == Application \/ Exchange \/ ReceiveThread

Spec == Init /\ [][Next]_vars

-----------------------------------------------------------------------------
(* Properties *)

Outcomes == {"none", "ok", "failed"}
Handles == {"none", "active", "cancelled"}
Routes == Channels \cup Topics

\* What each variable may hold; a handler is of a call, a callback of a handle.
TypeOK ==
    /\ dialect \in Dialects
    /\ Len(calls) <= MaxRequests
    /\ \A i \in 1..Len(calls) :
        calls[i] \in [channel : Channels \cup {NoChannel}, symbols : SUBSET Symbols,
                      outcome : Outcomes, handle : Handles]
    /\ pending \subseteq {Num(i) : i \in 1..Len(calls)}
    /\ DOMAIN subscriptions \subseteq Routes
    /\ \A r \in DOMAIN subscriptions : calls[subscriptions[r]].handle # "none"
    /\ running \in BOOLEAN
    /\ last.came_to \in {"nothing", "callback", "report", "dropped"}
    /\ feed \subseteq Topics
    /\ answers \in [Ids -> SUBSET BOOLEAN]
    /\ owed \in Seq(1..MaxUnasked)
    /\ unasked \in 0..MaxUnasked /\ pushes \in 0..MaxPushes

\* A call that the exchange has answered has its result, or the answer is under
\* way: no identifier takes an answer for something else, and no notice, push or
\* heartbeat, whose ids may be those of calls, takes its handler away.
RepliesNotLost ==
    running => \A i \in Ids : answers[i] # {} =>
        \/ calls[i].outcome # "none"
        \/ \E n \in 1..Len(toClient) : Identify(toClient[n]) = Response(Num(i))

\* A call ends as the exchange answered it: ok only of what was accepted, failed
\* only of what was refused, whatever form the exchange gives to a yes and a no.
\* (RefinesExchangeContract says this and that it ends once; here as an invariant.)
VerdictReaches ==
    \A i \in 1..Len(calls) :
        calls[i].outcome # "none" => (calls[i].outcome = "ok") \in answers[i]

\* A push is handed to a callback that asked for its channel, and where the route
\* names it for its symbol; one that cannot be parsed is reported; one is dropped
\* only if no live handle asked for it, or a cancel has removed the callback of
\* its route.
PushesReachTheirCallback ==
    last # NoPush =>
        \/ /\ last.came_to = "callback"
           /\ last.push.topic[1] = calls[last.call].channel
           /\ dialect # "kraken" => last.push.topic \in TopicsOf(last.call)
        \/ /\ last.came_to = "report" /\ last.push.shape \in {"mistyped", "nonnumeric"}
        \/ /\ last.came_to = "dropped"
           /\ \A i \in 1..Len(calls) :
                calls[i].handle = "active" /\ last.push.topic \in TopicsOf(i) =>
                    \E k \in 1..Len(calls) :
                        /\ calls[k].handle = "cancelled"
                        /\ RouteKey(calls[k].channel, calls[k].symbols)
                             = RouteKey(calls[i].channel, calls[i].symbols)

\* Once all frames have arrived, the exchange pushes nothing that no live handle
\* asked for: what a cancel sends undoes what its subscribe asked. The exception
\* is a Kraken subscription of several symbols that was refused for the first of
\* them to be answered and accepted for another; the caller has no handle for it.
PartlyRefused(i) == calls[i].outcome = "failed" /\ TRUE \in answers[i]
NothingFedWithoutHandle ==
    running /\ toServer = <<>> /\ toClient = <<>> =>
        \A t \in feed : \E i \in 1..Len(calls) :
            t \in TopicsOf(i) /\ (calls[i].handle = "active" \/ PartlyRefused(i))

\* Crypto.com disconnects a client that leaves a heartbeat unanswered: every one
\* is still under way, or its answer is, once, with its id and in order.
HeartbeatsAnswered ==
    LET frames == toServer \o toClient
        beats == {n \in 1..Len(frames) :
                    /\ Has(frames[n], "method")
                    /\ frames[n].method \in {Str("public/heartbeat"), Str("public/respond-heartbeat")}}
    IN
    /\ \A n \in beats : \E k \in 1..Len(owed) : frames[n].id = Num(owed[k])
    /\ \A k \in 1..Len(owed) : \E n \in beats : frames[n].id = Num(owed[k])
    /\ \A m, n \in beats, k, l \in 1..Len(owed) :
        m < n /\ frames[m].id = Num(owed[k]) /\ frames[n].id = Num(owed[l]) => k < l

\* Kraken's identifier tests the type of each field before it reads it: no frame
\* of Kraken's ends the receive thread, as one of the others may.
KrakenNeverEscapes == dialect = "kraken" => running

\* Without its frames this is ExchangeContract: every call is decided at most once
\* and ends at most once, as it was decided, whatever Kraken answers after its first
\* answer; a push is of a topic that some call was granted, and comes to the callback
\* that is installed for it at that moment.
Delivery ==
    IF last = NoPush THEN NoPush
    ELSE [came_to |-> last.came_to, topic |-> last.push.topic, call |-> last.call]
EndToEnd == INSTANCE ExchangeContract WITH
    by_channel <- (dialect = "kraken"), callbacks <- subscriptions, verdicts <- answers,
    delivery <- Delivery, Nothing <- NoPush
RefinesExchangeContract == EndToEnd!Spec
=============================================================================
