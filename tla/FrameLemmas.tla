---------------------------- MODULE FrameLemmas -----------------------------
(*****************************************************************************)
(* What the operators of FrameRouting give: the frames of each exchange, what *)
(* the client reads in them, and queues of frames with heartbeats in them.   *)
(*****************************************************************************)
EXTENDS FrameRouting, TLAPS, SequenceTheorems, FiniteSetTheorems

-----------------------------------------------------------------------------
(* Frames *)

\* A heartbeat of Crypto.com, and the answer of HeartbeatResponder.
Beat(x) == [method |-> Str("public/heartbeat"), id |-> Num(x)]
Reply(x) == [method |-> Str("public/respond-heartbeat"), id |-> Num(x)]
IsBeat(f) ==
    Has(f, "method") /\ f.method \in {Str("public/heartbeat"), Str("public/respond-heartbeat")}

\* A method that has nothing to do with heartbeats.
Named(f) == \E m : f.method = Str(m) /\ m \notin {"public/heartbeat", "public/respond-heartbeat"}

\* JSON values of two types differ, and one says what it was made of.
LEMMA Values ==
    /\ \A m, n : Num(m) = Num(n) => m = n
    /\ \A s, t : Str(s) = Str(t) => s = t
    /\ \A n, s : Num(n) # Str(s) /\ Num(n) # Null /\ Num(n) # Arr /\ Str(s) # Null /\ Str(s) # Arr
    /\ \A n : IsNum(Num(n)) /\ ~IsStr(Num(n)) /\ Num(n).num = n
    /\ \A s : IsStr(Str(s)) /\ ~IsNum(Str(s)) /\ Str(s).str = s
    /\ ~IsStr(Arr) /\ ~IsNum(Arr) /\ Null # Arr
<1>1. \A m, n : Num(m) = Num(n) => m = n
  BY DEF Num
<1>2. \A s, t : Str(s) = Str(t) => s = t
  BY DEF Str
<1>3. \A n, s : Num(n) # Str(s) /\ Num(n) # Null /\ Num(n) # Arr /\ Str(s) # Null /\ Str(s) # Arr
  BY DEF Num, Str, Null, Arr
<1>4. \A n : IsNum(Num(n)) /\ ~IsStr(Num(n)) /\ Num(n).num = n
  BY DEF Num, IsNum, IsStr
<1>5. \A s : IsStr(Str(s)) /\ ~IsNum(Str(s)) /\ Str(s).str = s
  BY DEF Str, IsNum, IsStr
<1>6. ~IsStr(Arr) /\ ~IsNum(Arr) /\ Null # Arr
  BY DEF Arr, Null, IsNum, IsStr
<1> QED
  BY <1>1, <1>2, <1>3, <1>4, <1>5, <1>6

\* The kinds of frame that the identifiers tell apart.
LEMMA Kinds ==
    /\ \A v, w : Response(v) = Response(w) => v = w
    /\ \A v, w : Push(v) = Push(w) => v = w
    /\ \A v : /\ Response(v).kind = "MethodResponse" /\ Response(v).correlation_id = v
              /\ Push(v).kind = "PushMessage" /\ Push(v).route_key = v
    /\ \A v, w : Response(v) # Push(w) /\ Response(v) # Unknown /\ Response(v) # Throws
    /\ \A v : Push(v) # Unknown /\ Push(v) # Throws
    /\ Unknown # Throws /\ Unknown.kind = "Unknown" /\ Throws.kind = "throws"
<1>1. \A v, w : Response(v) = Response(w) => v = w
  BY DEF Response
<1>2. \A v, w : Push(v) = Push(w) => v = w
  BY DEF Push
<1>3. \A v : /\ Response(v).kind = "MethodResponse" /\ Response(v).correlation_id = v
             /\ Push(v).kind = "PushMessage" /\ Push(v).route_key = v
  BY DEF Response, Push
<1>4. Unknown.kind = "Unknown" /\ Throws.kind = "throws"
  BY DEF Unknown, Throws
<1> QED
  BY <1>1, <1>2, <1>3, <1>4

\* The frame that subscribes.
LEMMA SubscribeFrames ==
  ASSUME NEW i, NEW c, NEW S, dialect \in {"kraken", "binance_stream", "cryptocom"}
  PROVE  LET f == SubscribeFrame(i, c, S) IN
         /\ Subscribing(f) /\ ~Unsubscribing(f) /\ ~HeartbeatReply(f) /\ ~IsBeat(f) /\ Named(f)
         /\ RequestId(f) = i
         /\ IF dialect = "kraken" THEN f.channel = c /\ f.symbols = S /\ f.req_id = Num(i)
            ELSE f.params = {c} \X S /\ f.id = Num(i)
<1>1. CASE dialect = "kraken"
  <2> DEFINE f == KrakenSubscribe(i, c, S)
  <2>1. /\ Has(f, "method") /\ f.method = Str("subscribe") /\ Has(f, "req_id") /\ f.req_id = Num(i)
        /\ f.channel = c /\ f.symbols = S
    BY DEF Has, KrakenSubscribe
  <2>2. SubscribeFrame(i, c, S) = f
    BY <1>1 DEF SubscribeFrame
  <2> HIDE DEF f
  <2> QED
    BY <1>1, <2>1, <2>2, Values DEF Subscribing, Unsubscribing, HeartbeatReply, IsBeat, Named, RequestId
<1>2. CASE dialect = "binance_stream"
  <2> DEFINE f == BinanceSubscribe(i, c, S)
  <2>1. /\ Has(f, "method") /\ f.method = Str("SUBSCRIBE") /\ ~Has(f, "req_id") /\ f.id = Num(i)
        /\ f.params = {c} \X S
    BY DEF Has, BinanceSubscribe, StreamName
  <2>2. SubscribeFrame(i, c, S) = f
    BY <1>2 DEF SubscribeFrame
  <2> HIDE DEF f
  <2> QED
    BY <1>2, <2>1, <2>2, Values DEF Subscribing, Unsubscribing, HeartbeatReply, IsBeat, Named, RequestId
<1>3. CASE dialect = "cryptocom"
  <2> DEFINE f == CryptoComSubscribe(i, c, S)
  <2>1. /\ Has(f, "method") /\ f.method = Str("subscribe") /\ ~Has(f, "req_id") /\ f.id = Num(i)
        /\ f.params = {c} \X S
    BY DEF Has, CryptoComSubscribe, StreamName
  <2>2. SubscribeFrame(i, c, S) = f
    BY <1>3 DEF SubscribeFrame
  <2> HIDE DEF f
  <2> QED
    BY <1>3, <2>1, <2>2, Values DEF Subscribing, Unsubscribing, HeartbeatReply, IsBeat, Named, RequestId
<1> QED
  BY <1>1, <1>2, <1>3

\* The frame that ends a subscription.
LEMMA UnsubscribeFrames ==
  ASSUME NEW i, NEW c, NEW S, dialect \in {"kraken", "binance_stream", "cryptocom"}
  PROVE  LET f == UnsubscribeFrame(i, c, S) IN
         /\ Unsubscribing(f) /\ ~Subscribing(f) /\ ~HeartbeatReply(f) /\ ~IsBeat(f) /\ Named(f)
         /\ IF dialect = "kraken" THEN f.channel = c /\ f.symbols = S
            ELSE f.params = {c} \X S /\ f.id = Num(i)
<1>1. CASE dialect = "kraken"
  <2> DEFINE f == [method |-> Str("unsubscribe"), channel |-> c, symbols |-> S]
  <2>1. /\ Has(f, "method") /\ f.method = Str("unsubscribe") /\ f.channel = c /\ f.symbols = S
    BY DEF Has
  <2>2. UnsubscribeFrame(i, c, S) = f
    BY <1>1 DEF UnsubscribeFrame
  <2> HIDE DEF f
  <2> QED
    BY <1>1, <2>1, <2>2, Values DEF Subscribing, Unsubscribing, HeartbeatReply, IsBeat, Named
<1>2. CASE dialect = "binance_stream"
  <2> DEFINE f == [method |-> Str("UNSUBSCRIBE"), id |-> Num(i), params |-> {StreamName(c, s) : s \in S}]
  <2>1. /\ Has(f, "method") /\ f.method = Str("UNSUBSCRIBE") /\ f.id = Num(i)
        /\ f.params = {c} \X S
    BY DEF Has, StreamName
  <2>2. UnsubscribeFrame(i, c, S) = f
    BY <1>2 DEF UnsubscribeFrame
  <2> HIDE DEF f
  <2> QED
    BY <1>2, <2>1, <2>2, Values DEF Subscribing, Unsubscribing, HeartbeatReply, IsBeat, Named
<1>3. CASE dialect = "cryptocom"
  <2> DEFINE f == [method |-> Str("unsubscribe"), id |-> Num(i), params |-> {StreamName(c, s) : s \in S}]
  <2>1. /\ Has(f, "method") /\ f.method = Str("unsubscribe") /\ f.id = Num(i)
        /\ f.params = {c} \X S
    BY DEF Has, StreamName
  <2>2. UnsubscribeFrame(i, c, S) = f
    BY <1>3 DEF UnsubscribeFrame
  <2> HIDE DEF f
  <2> QED
    BY <1>3, <2>1, <2>2, Values DEF Subscribing, Unsubscribing, HeartbeatReply, IsBeat, Named
<1> QED
  BY <1>1, <1>2, <1>3

\* The frame of a request.
LEMMA RequestFrames ==
  ASSUME NEW i, dialect \in {"kraken", "binance_api", "cryptocom"}
  PROVE  LET f == RequestFrame(i) IN
         /\ ~Subscribing(f) /\ ~Unsubscribing(f) /\ ~HeartbeatReply(f) /\ ~IsBeat(f) /\ Named(f)
         /\ RequestId(f) = i
         /\ IF dialect = "kraken" THEN f.req_id = Num(i) ELSE f.id = Num(i)
<1>1. CASE dialect = "kraken"
  <2> DEFINE f == KrakenRequest(i)
  <2>1. /\ Has(f, "method") /\ f.method = Str("add_order") /\ Has(f, "req_id") /\ f.req_id = Num(i)
    BY DEF Has, KrakenRequest
  <2>2. RequestFrame(i) = f
    BY <1>1 DEF RequestFrame
  <2> HIDE DEF f
  <2> QED
    BY <1>1, <2>1, <2>2, Values DEF Subscribing, Unsubscribing, HeartbeatReply, IsBeat, Named, RequestId
<1>2. CASE dialect = "binance_api"
  <2> DEFINE f == BinanceRequest(i)
  <2>1. /\ Has(f, "method") /\ f.method = Str("order.place") /\ ~Has(f, "req_id") /\ f.id = Num(i)
    BY DEF Has, BinanceRequest
  <2>2. RequestFrame(i) = f
    BY <1>2 DEF RequestFrame
  <2> HIDE DEF f
  <2> QED
    BY <1>2, <2>1, <2>2, Values DEF Subscribing, Unsubscribing, HeartbeatReply, IsBeat, Named, RequestId
<1>3. CASE dialect = "cryptocom"
  <2> DEFINE f == CryptoComRequest(i)
  <2>1. /\ Has(f, "method") /\ f.method = Str("public/auth") /\ ~Has(f, "req_id") /\ f.id = Num(i)
    BY DEF Has, CryptoComRequest
  <2>2. RequestFrame(i) = f
    BY <1>3 DEF RequestFrame
  <2> HIDE DEF f
  <2> QED
    BY <1>3, <2>1, <2>2, Values DEF Subscribing, Unsubscribing, HeartbeatReply, IsBeat, Named, RequestId
<1> QED
  BY <1>1, <1>2, <1>3

\* What the client reads in a frame of each exchange.
LEMMA KrakenReads ==
  ASSUME NEW j, dialect = "kraken"
  PROVE  /\ Has(j, "req_id") /\ IsNum(j.req_id) => Identify(j) = Response(j.req_id)
         /\ ~Has(j, "req_id") /\ Has(j, "channel") /\ IsStr(j.channel) => Identify(j) = Push(j.channel.str)
         /\ ~(Has(j, "req_id") /\ IsNum(j.req_id)) /\ ~(Has(j, "channel") /\ IsStr(j.channel))
                => Identify(j) = Unknown
         /\ Ok(j) = KrakenOk(j)
<1>1. Identify(j) = KrakenDescriptor(j) /\ Ok(j) = KrakenOk(j)
  BY DEF Identify, Ok
<1> QED
  BY <1>1 DEF KrakenDescriptor

LEMMA BinanceStreamReads ==
  ASSUME NEW j, dialect = "binance_stream"
  PROVE  /\ Has(j, "stream") =>
                Identify(j) = IF IsStr(j.stream) THEN Push(j.stream.str) ELSE Throws
         /\ ~Has(j, "stream") /\ Has(j, "id") /\ (Has(j, "result") \/ Has(j, "error")) =>
                Identify(j) = IF j.id = Null THEN Unknown ELSE BinanceId(j)
         /\ Ok(j) = BinanceAckOk(j)
<1>1. Identify(j) = BinanceStreamDescriptor(j) /\ Ok(j) = BinanceAckOk(j)
  BY DEF Identify, Ok
<1> QED
  BY <1>1 DEF BinanceStreamDescriptor

LEMMA BinanceApiReads ==
  ASSUME NEW j, dialect = "binance_api"
  PROVE  /\ Has(j, "id") => Identify(j) = IF j.id = Null THEN Unknown ELSE BinanceId(j)
         /\ ~Has(j, "id") => Identify(j) = Unknown
         /\ Ok(j) = BinanceApiOk(j)
<1>1. Identify(j) = BinanceApiDescriptor(j) /\ Ok(j) = BinanceApiOk(j)
  BY DEF Identify, Ok
<1> QED
  BY <1>1 DEF BinanceApiDescriptor

LEMMA CryptoComReads ==
  ASSUME NEW j, dialect = "cryptocom"
  PROVE  /\ Has(j, "method") /\ j.method \in Heartbeats => Identify(j) = Unknown
         /\ Has(j, "method") /\ j.method = Str("subscribe") /\ IsUpdate(j) =>
                Identify(j) = Push(Subscription(j))
         /\ (Has(j, "method") => Named(j)) /\ Has(j, "id") /\ IsNum(j.id) /\ ~IsUpdate(j) =>
                Identify(j) = Response(j.id)
         /\ (Has(j, "method") => Named(j)) /\ ~(Has(j, "id") /\ IsNum(j.id)) => Identify(j) = Unknown
         /\ Has(j, "method") /\ ~IsStr(j.method) => Identify(j) = Throws
         /\ Ok(j) = CryptoComOk(j)
<1>1. Identify(j) = CryptoComDescriptor(j) /\ Ok(j) = CryptoComOk(j)
  BY DEF Identify, Ok
<1>2. Named(j) => IsStr(j.method) /\ j.method \notin Heartbeats
  BY Values DEF Named, Heartbeats
<1>3. j.method \in Heartbeats => IsStr(j.method) /\ j.method # Str("subscribe")
  BY Values DEF Heartbeats
<1>4. j.method = Str("subscribe") => IsStr(j.method)
  BY Values
<1>5. ~(Has(j, "id") /\ IsNum(j.id)) => ~IsUpdate(j)
  BY DEF IsUpdate
<1> HIDE DEF Named
<1>6. Has(j, "method") /\ j.method \in Heartbeats => Identify(j) = Unknown
  BY <1>1, <1>3 DEF CryptoComDescriptor
<1>7. Has(j, "method") /\ j.method = Str("subscribe") /\ IsUpdate(j) => Identify(j) = Push(Subscription(j))
  BY <1>1, <1>3, <1>4 DEF CryptoComDescriptor
<1>8. (Has(j, "method") => Named(j)) /\ Has(j, "id") /\ IsNum(j.id) /\ ~IsUpdate(j) =>
         Identify(j) = Response(j.id)
  BY <1>1, <1>2 DEF CryptoComDescriptor
<1>9. (Has(j, "method") => Named(j)) /\ ~(Has(j, "id") /\ IsNum(j.id)) => Identify(j) = Unknown
  BY <1>1, <1>2, <1>5 DEF CryptoComDescriptor
<1>10. Has(j, "method") /\ ~IsStr(j.method) => Identify(j) = Throws
  BY <1>1, <1>3, <1>4 DEF CryptoComDescriptor
<1> QED
  BY <1>1, <1>6, <1>7, <1>8, <1>9, <1>10

\* An answer is identified as the response to the call it names, and read as the
\* verdict that the exchange gave.
LEMMA Answers ==
  ASSUME NEW i \in Nat, NEW f, Named(f), NEW yes \in BOOLEAN, NEW a \in Answer(f, yes),
         dialect \in {"kraken", "binance_stream", "binance_api", "cryptocom"},
         IF dialect = "kraken" THEN f.req_id = Num(i) ELSE f.id = Num(i)
  PROVE  Identify(a) = Response(Num(i)) /\ Ok(a) = yes /\ ~IsBeat(a)
<1>0. Named(a) => ~IsBeat(a)
  BY Values DEF Named, IsBeat
<1>1. CASE dialect = "kraken"
  <2>1. a = [method |-> f.method, req_id |-> Num(i), success |-> yes]
    <3>1. f.req_id = Num(i)
      BY <1>1
    <3>2. Answer(f, yes) = {[method |-> f.method, req_id |-> f.req_id, success |-> yes]}
      BY <1>1 DEF Answer
    <3> QED
      BY <3>1, <3>2
  <2>2. /\ Has(a, "req_id") /\ a.req_id = Num(i) /\ Has(a, "success") /\ a.success = yes
        /\ a.method = f.method
    BY <2>1 DEF Has
  <2>3. Ok(a) = yes
    BY <1>1, <2>2, KrakenReads DEF KrakenOk
  <2>4. Identify(a) = Response(Num(i))
    BY <1>1, <2>2, KrakenReads, Values
  <2> QED
    BY <1>0, <2>2, <2>3, <2>4 DEF Named
<1>2. CASE dialect = "binance_stream"
  <2>1. a = IF yes THEN [result |-> Null, id |-> Num(i)] ELSE [error |-> Str("refused"), id |-> Num(i)]
    BY <1>2 DEF Answer
  <2>2. /\ ~Has(a, "stream") /\ Has(a, "id") /\ a.id = Num(i) /\ ~Has(a, "method")
        /\ yes => Has(a, "result") /\ ~Has(a, "error")
        /\ ~yes => Has(a, "error") /\ a.error = Str("refused")
    BY <2>1 DEF Has
  <2>3. BinanceAckOk(a) = yes
    BY <2>2, Values DEF BinanceAckOk
  <2>4. BinanceId(a) = Response(Num(i)) /\ a.id # Null
    BY <2>2, Values DEF BinanceId
  <2>5. Identify(a) = Response(Num(i))
    BY <1>2, <2>2, <2>4, BinanceStreamReads
  <2>6. Ok(a) = yes
    BY <1>2, <2>3, BinanceStreamReads
  <2> QED
    BY <2>2, <2>5, <2>6 DEF IsBeat
<1>3. CASE dialect = "binance_api"
  <2>1. a = IF yes THEN [id |-> Num(i), status |-> Num(200), result |-> Null]
            ELSE [id |-> Num(i), status |-> Num(400), error |-> Str("refused")]
    BY <1>3 DEF Answer
  <2>2. /\ Has(a, "id") /\ a.id = Num(i) /\ ~Has(a, "method")
        /\ yes => ~Has(a, "error") /\ a.status = Num(200)
        /\ ~yes => Has(a, "error") /\ a.error = Str("refused")
    BY <2>1 DEF Has
  <2>3. BinanceApiOk(a) = yes
    <3>1. CASE yes
      <4>1. a.status.num = 200
        BY <2>2, <3>1, Values
      <4> QED
        BY <2>2, <3>1, <4>1 DEF BinanceApiOk
    <3>2. CASE ~yes
      BY <2>2, <3>2, Values DEF BinanceApiOk
    <3> QED
      BY <3>1, <3>2
  <2>4. BinanceId(a) = Response(Num(i)) /\ a.id # Null
    BY <2>2, Values DEF BinanceId
  <2>5. Identify(a) = Response(Num(i))
    BY <1>3, <2>2, <2>4, BinanceApiReads
  <2>6. Ok(a) = yes
    BY <1>3, <2>3, BinanceApiReads
  <2> QED
    BY <2>2, <2>5, <2>6 DEF IsBeat
<1>4. CASE dialect = "cryptocom"
  <2>1. \/ a = [id |-> Num(i), method |-> f.method, code |-> Num(IF yes THEN 0 ELSE 40004)]
        \/ a = [id |-> Num(i), method |-> f.method, code |-> Num(IF yes THEN 0 ELSE 40004),
                result |-> [data |-> "snapshot"]]
    BY <1>4 DEF Answer
  <2>2. /\ Has(a, "id") /\ a.id = Num(i) /\ Has(a, "method") /\ a.method = f.method
        /\ Has(a, "code") /\ a.code = Num(IF yes THEN 0 ELSE 40004)
    BY <2>1 DEF Has
  <2>3. a.code.num = (IF yes THEN 0 ELSE 40004) /\ IsNum(a.code) /\ a.id.num = i /\ IsNum(a.id)
    BY <2>2, Values
  <2>4. CryptoComOk(a) = yes
    BY <2>2, <2>3 DEF CryptoComOk
  <2>5. ~IsUpdate(a)
    BY <2>3 DEF IsUpdate
  <2>6. Named(a)
    BY <2>2 DEF Named
  <2>7. Identify(a) = Response(Num(i))
    BY <1>4, <2>2, <2>3, <2>5, <2>6, CryptoComReads
  <2>8. Ok(a) = yes
    BY <1>4, <2>4, CryptoComReads
  <2> QED
    BY <1>0, <2>6, <2>7, <2>8
<1> QED
  BY <1>1, <1>2, <1>3, <1>4

\* So is the acknowledgement of one of the symbols of a Kraken subscription.
LEMMA KrakenAcks ==
  ASSUME NEW i, NEW f, Named(f), NEW yes, NEW s, dialect = "kraken", f.req_id = Num(i)
  PROVE  LET a == KrakenAck(f, s, yes) IN
         Identify(a) = Response(Num(i)) /\ Ok(a) = (s \in yes) /\ ~IsBeat(a)
<1> DEFINE a == KrakenAck(f, s, yes)
<1>1. CASE s \in yes
  <2>1. a = [method |-> f.method, req_id |-> Num(i), success |-> TRUE,
             result |-> [channel |-> f.channel, symbol |-> s]]
    BY <1>1 DEF KrakenAck
  <2>2. a.method = f.method /\ Has(a, "req_id") /\ a.req_id = Num(i) /\ Has(a, "success") /\ a.success
    BY <2>1 DEF Has
  <2> HIDE DEF a
  <2>3. Ok(a) = TRUE
    BY <2>2, KrakenReads DEF KrakenOk
  <2>4. Identify(a) = Response(Num(i))
    BY <2>2, KrakenReads, Values
  <2>5. ~IsBeat(a)
    BY <2>2, Values DEF IsBeat, Named
  <2> QED
    BY <1>1, <2>3, <2>4, <2>5 DEF a
<1>2. CASE s \notin yes
  <2>1. a = [method |-> f.method, req_id |-> Num(i), success |-> FALSE, error |-> Str("refused")]
    BY <1>2 DEF KrakenAck
  <2>2. a.method = f.method /\ Has(a, "req_id") /\ a.req_id = Num(i) /\ ~a.success
    BY <2>1 DEF Has
  <2> HIDE DEF a
  <2>3. Ok(a) = FALSE
    BY <2>2, KrakenReads DEF KrakenOk
  <2>4. Identify(a) = Response(Num(i))
    BY <2>2, KrakenReads, Values
  <2>5. ~IsBeat(a)
    BY <2>2, Values DEF IsBeat, Named
  <2>6. (s \in yes) = FALSE
    BY <1>2
  <2> QED
    BY <2>3, <2>4, <2>5, <2>6 DEF a
<1> QED
  BY <1>1, <1>2

\* The answer to an unsubscription of Kraken has no req_id and is of no call.
LEMMA KrakenGoodbye ==
  ASSUME NEW f, Named(f), dialect = "kraken"
  PROVE  LET a == [method |-> f.method, success |-> TRUE] IN Identify(a) = Unknown /\ ~IsBeat(a)
<1> DEFINE a == [method |-> f.method, success |-> TRUE]
<1>1. ~Has(a, "req_id") /\ ~Has(a, "channel") /\ a.method = f.method
  BY DEF Has
<1> HIDE DEF a
<1>2. Identify(a) = Unknown
  BY <1>1, KrakenReads
<1>3. ~IsBeat(a)
  BY <1>1, Values DEF IsBeat, Named
<1> QED
  BY <1>2, <1>3 DEF a

\* A push is identified by its channel or stream, and holds its topic.
LEMMA PushFrames ==
  ASSUME NEW c, NEW s, NEW shape, dialect \in {"kraken", "binance_stream", "cryptocom"}
  PROVE  LET f == PushFrame(c, s, shape) IN
         /\ Identify(f) = Push(IF dialect = "kraken" THEN c ELSE StreamName(c, s))
         /\ Has(f, "data") \/ Has(f, "result")
         /\ Payload(f).topic = <<c, s>> /\ Payload(f).shape = shape
         /\ ~IsBeat(f)
<1> DEFINE f == PushFrame(c, s, shape)
<1>1. CASE dialect = "kraken"
  <2>1. f = [channel |-> Str(c), data |-> [topic |-> <<c, s>>, shape |-> shape]]
    BY <1>1 DEF PushFrame
  <2>2. /\ ~Has(f, "req_id") /\ Has(f, "channel") /\ f.channel = Str(c) /\ Has(f, "data")
        /\ f.data.topic = <<c, s>> /\ f.data.shape = shape /\ ~Has(f, "method")
    BY <2>1 DEF Has
  <2> HIDE DEF f
  <2>3. Identify(f) = Push(c)
    BY <1>1, <2>2, KrakenReads, Values
  <2>4. Payload(f) = f.data
    BY <2>2 DEF Payload
  <2> QED
    BY <1>1, <2>2, <2>3, <2>4 DEF f, IsBeat
<1>2. CASE dialect = "binance_stream"
  <2>1. f = [stream |-> Str(StreamName(c, s)), data |-> [topic |-> <<c, s>>, shape |-> shape]]
    BY <1>2 DEF PushFrame
  <2>2. /\ Has(f, "stream") /\ f.stream = Str(StreamName(c, s)) /\ Has(f, "data")
        /\ f.data.topic = <<c, s>> /\ f.data.shape = shape /\ ~Has(f, "method")
    BY <2>1 DEF Has
  <2> HIDE DEF f
  <2>3. Identify(f) = Push(StreamName(c, s))
    BY <1>2, <2>2, BinanceStreamReads, Values
  <2>4. Payload(f) = f.data
    BY <2>2 DEF Payload
  <2> QED
    BY <1>2, <2>2, <2>3, <2>4 DEF f, IsBeat
<1>3. CASE dialect = "cryptocom"
  <2> DEFINE r == [subscription |-> Str(StreamName(c, s)), topic |-> <<c, s>>, shape |-> shape]
  <2>1. f = [id |-> Num(-1), method |-> Str("subscribe"), result |-> r]
    BY <1>3 DEF PushFrame
  <2>2. /\ Has(r, "subscription") /\ r.subscription = Str(StreamName(c, s))
        /\ r.topic = <<c, s>> /\ r.shape = shape
    BY DEF Has
  <2> HIDE DEF r
  <2>3. /\ Has(f, "id") /\ f.id = Num(-1) /\ Has(f, "method") /\ f.method = Str("subscribe")
        /\ Has(f, "result") /\ f.result = r /\ ~Has(f, "data")
    BY <2>1 DEF Has
  <2> HIDE DEF f
  <2>4. IsUpdate(f)
    BY <2>3, Values DEF IsUpdate
  <2>5. Subscription(f) = StreamName(c, s)
    BY <2>2, <2>3, Values DEF Subscription
  <2>6. Identify(f) = Push(StreamName(c, s))
    BY <1>3, <2>3, <2>4, <2>5, CryptoComReads
  <2>7. Payload(f) = f.result
    BY <2>3 DEF Payload
  <2>8. ~IsBeat(f)
    BY <2>3, Values DEF IsBeat
  <2>9. /\ Payload(f).topic = <<c, s>> /\ Payload(f).shape = shape
        /\ Has(f, "data") \/ Has(f, "result")
    BY <2>2, <2>3, <2>7
  <2> QED
    BY <1>3, <2>6, <2>8, <2>9 DEF f
<1> QED
  BY <1>1, <1>2, <1>3

\* HeartbeatResponder takes a heartbeat and answers it with its id.
LEMMA Beats ==
  ASSUME NEW k
  PROVE  LET f == Beat(k) g == Reply(k) IN
         /\ IsBeat(f) /\ f.id = Num(k) /\ IsBeat(g) /\ g.id = Num(k)
         /\ RespondTo(f) = g
         /\ dialect = "cryptocom" => Heartbeat(f) /\ Identify(f) = Unknown
         /\ HeartbeatReply(g) /\ ~Subscribing(g) /\ ~Unsubscribing(g)
<1> DEFINE f == Beat(k) g == Reply(k)
<1>1. Has(f, "method") /\ f.method = Str("public/heartbeat") /\ Has(f, "id") /\ f.id = Num(k)
  BY DEF Has, Beat
<1>2. Has(g, "method") /\ g.method = Str("public/respond-heartbeat") /\ Has(g, "id") /\ g.id = Num(k)
  BY DEF Has, Reply
<1> HIDE DEF f, g
<1>3. RespondTo(f) = Reply(k)
  BY <1>1 DEF RespondTo, Reply
<1>4. IsBeat(f) /\ IsBeat(g)
  BY <1>1, <1>2 DEF IsBeat
<1>5. dialect = "cryptocom" => Heartbeat(f) /\ Identify(f) = Unknown
  BY <1>1, CryptoComReads DEF Heartbeat, Heartbeats
<1>6. HeartbeatReply(g) /\ ~Subscribing(g) /\ ~Unsubscribing(g)
  BY <1>2, Values DEF HeartbeatReply, Subscribing, Unsubscribing
<1> QED
  BY <1>1, <1>2, <1>3, <1>4, <1>5, <1>6 DEF f, g

\* Of what nobody asked for, nothing is an answer or a push of a topic.
Idle(f) ==
    /\ ~IsBeat(f)
    /\ \A n : Identify(f) # Response(Num(n))
    /\ Identify(f).kind = "PushMessage" =>
        /\ dialect = "kraken" /\ Identify(f) = Push("status")
        /\ ~Has(f, "data") /\ ~Has(f, "result")

\* Notices are idle, and so are frames with a field of another type.
LEMMA Notices ==
  ASSUME dialect \in {"kraken", "binance_stream", "binance_api", "cryptocom"}
  PROVE  Idle(Notice)
<1> DEFINE f == Notice
<1>1. CASE dialect = "kraken"
  <2>1. f = [channel |-> Str("status")]
    BY <1>1 DEF Notice
  <2>2. /\ ~Has(f, "req_id") /\ Has(f, "channel") /\ f.channel = Str("status") /\ ~Has(f, "method")
        /\ ~Has(f, "data") /\ ~Has(f, "result")
    BY <2>1 DEF Has
  <2> HIDE DEF f
  <2>3. Identify(f) = Push("status")
    BY <1>1, <2>2, KrakenReads, Values
  <2> QED
    BY <1>1, <2>2, <2>3, Kinds DEF f, IsBeat, Idle
<1>2. CASE dialect = "binance_stream"
  <2>1. f = [error |-> Str("invalid"), id |-> Null]
    BY <1>2 DEF Notice
  <2>2. ~Has(f, "stream") /\ Has(f, "id") /\ f.id = Null /\ Has(f, "error") /\ ~Has(f, "method")
    BY <2>1 DEF Has
  <2> HIDE DEF f
  <2>3. Identify(f) = Unknown
    BY <1>2, <2>2, BinanceStreamReads
  <2> QED
    BY <2>2, <2>3, Kinds DEF f, IsBeat, Idle
<1>3. CASE dialect = "binance_api"
  <2>1. f = [event |-> Null]
    BY <1>3 DEF Notice
  <2>2. ~Has(f, "id") /\ ~Has(f, "method")
    BY <2>1 DEF Has
  <2> HIDE DEF f
  <2>3. Identify(f) = Unknown
    BY <1>3, <2>2, BinanceApiReads
  <2> QED
    BY <2>2, <2>3, Kinds DEF f, IsBeat, Idle
<1>4. CASE dialect = "cryptocom"
  <2>1. f = [method |-> Str("notice"), code |-> Num(0)]
    BY <1>4 DEF Notice
  <2>2. f.method = Str("notice") /\ ~Has(f, "id")
    BY <2>1 DEF Has
  <2> HIDE DEF f
  <2>3. Named(f)
    BY <2>2 DEF Named
  <2>4. Identify(f) = Unknown
    BY <1>4, <2>2, <2>3, CryptoComReads
  <2> QED
    BY <2>2, <2>4, Kinds, Values DEF f, IsBeat, Idle
<1> QED
  BY <1>1, <1>2, <1>3, <1>4

LEMMA OddFrames ==
  ASSUME dialect \in {"kraken", "binance_stream", "binance_api", "cryptocom"}, NEW f \in Odd
  PROVE  Idle(f)
<1>1. CASE dialect = "kraken"
  <2>1. f = [req_id |-> Str("1")] \/ f = [channel |-> Num(1)]
    BY <1>1 DEF Odd
  <2>2. /\ ~Has(f, "method")
        /\ Has(f, "req_id") => f.req_id = Str("1")
        /\ Has(f, "channel") => f.channel = Num(1)
    BY <2>1 DEF Has
  <2>3. Identify(f) = Unknown
    BY <1>1, <2>2, KrakenReads, Values
  <2> QED
    BY <2>2, <2>3, Kinds DEF IsBeat, Idle
<1>2. CASE dialect = "binance_stream"
  <2>1. f = [stream |-> Num(1)] \/ f = [id |-> Arr, result |-> Null]
    BY <1>2 DEF Odd
  <2>2. /\ ~Has(f, "method")
        /\ \/ Has(f, "stream") /\ f.stream = Num(1)
           \/ ~Has(f, "stream") /\ Has(f, "id") /\ f.id = Arr /\ Has(f, "result")
    BY <2>1 DEF Has
  <2>3. Identify(f) = Throws
    BY <1>2, <2>2, BinanceStreamReads, Values DEF BinanceId
  <2> QED
    BY <2>2, <2>3, Kinds DEF IsBeat, Idle
<1>3. CASE dialect = "binance_api"
  <2>1. f = [id |-> Str("x")] \/ f = [id |-> Arr]
    BY <1>3 DEF Odd
  <2>2. ~Has(f, "method") /\ Has(f, "id") /\ f.id \in {Str("x"), Arr}
    BY <2>1 DEF Has
  <2>3. Identify(f) = Throws \/ Identify(f) = Response(Str("x"))
    BY <1>3, <2>2, BinanceApiReads, Values DEF BinanceId
  <2> QED
    BY <2>2, <2>3, Kinds, Values DEF IsBeat, Idle
<1>4. CASE dialect = "cryptocom"
  <2>1. f = [method |-> Num(1)] \/ f = [id |-> Str("1")]
    BY <1>4 DEF Odd
  <2>2. CASE f = [method |-> Num(1)]
    <3>1. Has(f, "method") /\ f.method = Num(1)
      BY <2>2 DEF Has
    <3>2. Identify(f) = Throws
      BY <1>4, <3>1, CryptoComReads, Values
    <3> QED
      BY <3>1, <3>2, Kinds, Values DEF IsBeat, Idle
  <2>3. CASE f = [id |-> Str("1")]
    <3>1. ~Has(f, "method") /\ Has(f, "id") /\ f.id = Str("1")
      BY <2>3 DEF Has
    <3>2. Identify(f) = Unknown
      BY <1>4, <3>1, CryptoComReads, Values
    <3> QED
      BY <3>1, <3>2, Kinds DEF IsBeat, Idle
  <2> QED
    BY <2>1, <2>2, <2>3
<1> QED
  BY <1>1, <1>2, <1>3, <1>4

-----------------------------------------------------------------------------
(* Queues of frames *)

\* A queue of frames of any shape, and the frames in it.
IsQueue(q) == Len(q) \in Nat /\ q = [n \in 1..Len(q) |-> q[n]]
Frames(q) == {q[n] : n \in 1..Len(q)}

\* The sequence theorems ask for a set of elements: the frames will do.
LEMMA QueueIsSeq ==
  ASSUME NEW q, IsQueue(q)
  PROVE  q \in Seq(Frames(q))
<1>1. \A n \in 1..Len(q) : q[n] \in Frames(q)
  BY DEF Frames
<1>2. [n \in 1..Len(q) |-> q[n]] \in Seq(Frames(q))
  BY <1>1, IsASeq DEF IsQueue
<1> QED
  BY <1>2 DEF IsQueue

LEMMA SeqIsQueue ==
  ASSUME NEW S, NEW q \in Seq(S)
  PROVE  IsQueue(q)
BY LenProperties DEF IsQueue

LEMMA QueueEmpty == IsQueue(<<>>) /\ Frames(<<>>) = {}
BY DEF IsQueue, Frames

\* What Append, Tail and \o make of a queue.
LEMMA QueueAppend ==
  ASSUME NEW q, NEW e, IsQueue(q)
  PROVE  LET p == Append(q, e) IN
         /\ IsQueue(p) /\ Len(p) = Len(q) + 1
         /\ \A n \in 1..Len(q) : p[n] = q[n]
         /\ p[Len(q) + 1] = e
         /\ Frames(p) = Frames(q) \cup {e}
<1> DEFINE S == Frames(q) \cup {e} p == Append(q, e)
<1>1. q \in Seq(S)
  BY QueueIsSeq, SeqMonotonic
<1> HIDE DEF S
<1>2. e \in S
  BY DEF S
<1>3. p \in Seq(S) /\ Len(p) = Len(q) + 1
      /\ (\A n \in 1..Len(q) : p[n] = q[n]) /\ p[Len(q) + 1] = e
  BY <1>1, <1>2
<1>4. IsQueue(p)
  BY <1>3, SeqIsQueue
<1> HIDE DEF p
<1>5. 1..Len(p) = 1..Len(q) \cup {Len(q) + 1}
  BY <1>3 DEF IsQueue
<1>6. Frames(p) = Frames(q) \cup {e}
  BY <1>3, <1>5 DEF Frames
<1> QED
  BY <1>3, <1>4, <1>6 DEF p

LEMMA QueueTail ==
  ASSUME NEW q, IsQueue(q), q # <<>>
  PROVE  LET p == Tail(q) IN
         /\ IsQueue(p) /\ Len(q) > 0 /\ Len(p) = Len(q) - 1
         /\ Head(q) = q[1] /\ Head(q) \in Frames(q)
         /\ \A n \in 1..Len(p) : p[n] = q[n + 1]
         /\ Frames(q) = Frames(p) \cup {Head(q)}
<1> DEFINE S == Frames(q) p == Tail(q)
<1>1. q \in Seq(S)
  BY QueueIsSeq
<1> HIDE DEF S
<1>2. Len(q) > 0 /\ Len(q) \in Nat /\ Head(q) = q[1] /\ p \in Seq(S) /\ Len(p) = Len(q) - 1
  BY <1>1, HeadTailProperties, EmptySeq, LenProperties
<1>3. \A n \in 1..Len(p) : p[n] = q[n + 1]
  BY <1>1, <1>2, HeadTailProperties
<1>4. IsQueue(p)
  BY <1>2, SeqIsQueue
<1> HIDE DEF p
<1>5. 1 \in 1..Len(q)
  BY <1>2
<1>6. Head(q) \in Frames(q)
  BY <1>2, <1>5 DEF Frames
<1>7. Frames(p) \subseteq Frames(q)
  <2>1. \A n \in 1..Len(p) : n + 1 \in 1..Len(q)
    BY <1>2
  <2> QED
    BY <1>3, <2>1 DEF Frames
<1>8. Frames(q) \subseteq Frames(p) \cup {Head(q)}
  <2>1. \A n \in 1..Len(q) : n # 1 => n - 1 \in 1..Len(p) /\ q[n] = p[n - 1]
    BY <1>2, <1>3
  <2> QED
    BY <1>2, <2>1 DEF Frames
<1> QED
  BY <1>2, <1>3, <1>4, <1>6, <1>7, <1>8 DEF p

LEMMA QueueConcat ==
  ASSUME NEW q, NEW r, IsQueue(q), IsQueue(r)
  PROVE  LET p == q \o r IN
         /\ IsQueue(p) /\ Len(p) = Len(q) + Len(r)
         /\ \A n \in 1..Len(q) : p[n] = q[n]
         /\ \A n \in 1..Len(r) : p[Len(q) + n] = r[n]
         /\ Frames(p) = Frames(q) \cup Frames(r)
<1> DEFINE S == Frames(q) \cup Frames(r) p == q \o r
<1>1. q \in Seq(S) /\ r \in Seq(S)
  BY QueueIsSeq, SeqMonotonic
<1> HIDE DEF S
<1>2. p \in Seq(S) /\ Len(p) = Len(q) + Len(r) /\ Len(q) \in Nat /\ Len(r) \in Nat
  BY <1>1, ConcatProperties, LenProperties
<1>3. \A n \in 1..Len(p) : p[n] = IF n <= Len(q) THEN q[n] ELSE r[n - Len(q)]
  BY <1>1, ConcatProperties
<1>4. IsQueue(p)
  BY <1>2, SeqIsQueue
<1> HIDE DEF p
<1>5. \A n \in 1..Len(q) : n \in 1..Len(p) /\ p[n] = q[n]
  BY <1>2, <1>3
<1>6. \A n \in 1..Len(r) : Len(q) + n \in 1..Len(p) /\ p[Len(q) + n] = r[n]
  <2> TAKE n \in 1..Len(r)
  <2>1. Len(q) + n \in 1..Len(p) /\ ~(Len(q) + n <= Len(q)) /\ Len(q) + n - Len(q) = n
    BY <1>2
  <2> QED
    BY <1>3, <2>1
<1>7. \A n \in 1..Len(p) : n \in 1..Len(q) \/ (n - Len(q) \in 1..Len(r) /\ p[n] = r[n - Len(q)])
  <2> TAKE n \in 1..Len(p)
  <2>1. n \in 1..Len(q) \/ (n - Len(q) \in 1..Len(r) /\ ~(n <= Len(q)))
    BY <1>2
  <2> QED
    BY <1>3, <2>1
<1>8. Frames(p) \subseteq Frames(q) \cup Frames(r)
  BY <1>5, <1>7 DEF Frames
<1>9. Frames(q) \cup Frames(r) \subseteq Frames(p)
  BY <1>5, <1>6 DEF Frames
<1> QED
  BY <1>2, <1>4, <1>5, <1>6, <1>8, <1>9 DEF p

-----------------------------------------------------------------------------
(* Heartbeats in a queue *)

\* The ids of the heartbeats in a queue, or of their answers.
BeatAt(q, n, x) == IsBeat(q[n]) /\ q[n].id = Num(x)
BeatIds(q) == {x \in Nat : \E n \in 1..Len(q) : BeatAt(q, n, x)}
InOrder(q) ==
    \A m, n \in 1..Len(q), x, y \in Nat : m < n /\ BeatAt(q, m, x) /\ BeatAt(q, n, y) => x < y

LEMMA BeatsEmpty == BeatIds(<<>>) = {} /\ InOrder(<<>>)
BY DEF BeatIds, InOrder

\* What they make of its heartbeats.
LEMMA BeatsAppend ==
  ASSUME NEW q, NEW e, IsQueue(q), InOrder(q),
         IsBeat(e) => \E x \in Nat : e.id = Num(x) /\ \A y \in BeatIds(q) : y < x
  PROVE  LET p == Append(q, e) IN
         /\ InOrder(p)
         /\ BeatIds(p) = BeatIds(q) \cup {x \in Nat : IsBeat(e) /\ e.id = Num(x)}
<1> DEFINE p == Append(q, e)
<1>1. /\ Len(p) = Len(q) + 1 /\ Len(q) \in Nat
      /\ \A n \in 1..Len(q) : p[n] = q[n]
      /\ p[Len(q) + 1] = e
  BY QueueAppend DEF IsQueue
<1> HIDE DEF p
<1>2. \A n \in 1..Len(p) : n \in 1..Len(q) \/ n = Len(q) + 1
  BY <1>1
<1>3. \A n \in 1..Len(q) : \A x : n \in 1..Len(p) /\ (BeatAt(p, n, x) <=> BeatAt(q, n, x))
  BY <1>1 DEF BeatAt
<1>4. \A x : Len(q) + 1 \in 1..Len(p) /\ (BeatAt(p, Len(q) + 1, x) <=> (IsBeat(e) /\ e.id = Num(x)))
  BY <1>1 DEF BeatAt
<1>5. BeatIds(p) = BeatIds(q) \cup {x \in Nat : IsBeat(e) /\ e.id = Num(x)}
  BY <1>2, <1>3, <1>4 DEF BeatIds
<1>6. InOrder(p)
  <2> SUFFICES ASSUME NEW m \in 1..Len(p), NEW n \in 1..Len(p), NEW x \in Nat, NEW y \in Nat,
                      m < n, BeatAt(p, m, x), BeatAt(p, n, y)
               PROVE  x < y
    BY DEF InOrder
  <2>1. m \in 1..Len(q) /\ BeatAt(q, m, x) /\ x \in BeatIds(q)
    BY <1>1, <1>2, <1>3 DEF BeatIds
  <2>2. CASE n \in 1..Len(q)
    BY <1>3, <2>1, <2>2 DEF InOrder
  <2>3. CASE n = Len(q) + 1
    BY <1>4, <2>1, <2>3, Values
  <2> QED
    BY <1>2, <2>2, <2>3
<1> QED
  BY <1>5, <1>6 DEF p

LEMMA BeatsTail ==
  ASSUME NEW q, IsQueue(q), InOrder(q), q # <<>>
  PROVE  LET p == Tail(q) e == Head(q) IN
         /\ InOrder(p)
         /\ BeatIds(q) = BeatIds(p) \cup {x \in Nat : IsBeat(e) /\ e.id = Num(x)}
         /\ \A x \in Nat : IsBeat(e) /\ e.id = Num(x) => \A y \in BeatIds(p) : x < y
<1> DEFINE p == Tail(q) e == Head(q)
<1>1. /\ Len(q) > 0 /\ Len(p) = Len(q) - 1 /\ Len(q) \in Nat /\ e = q[1]
      /\ \A n \in 1..Len(p) : p[n] = q[n + 1]
  BY QueueTail DEF IsQueue
<1> HIDE DEF p, e
<1>2. \A n \in 1..Len(p) : \A x : n + 1 \in 1..Len(q) /\ (BeatAt(p, n, x) <=> BeatAt(q, n + 1, x))
  BY <1>1 DEF BeatAt
<1>3. \A n \in 1..Len(q) : n = 1 \/ (n - 1 \in 1..Len(p) /\ n = n - 1 + 1)
  BY <1>1
<1>4. \A x : 1 \in 1..Len(q) /\ (BeatAt(q, 1, x) <=> (IsBeat(e) /\ e.id = Num(x)))
  BY <1>1 DEF BeatAt
<1>5. BeatIds(q) \subseteq BeatIds(p) \cup {x \in Nat : IsBeat(e) /\ e.id = Num(x)}
  <2> SUFFICES ASSUME NEW x \in Nat, NEW n \in 1..Len(q), BeatAt(q, n, x), n # 1
               PROVE  x \in BeatIds(p)
    BY <1>4 DEF BeatIds
  <2>1. n - 1 \in 1..Len(p) /\ n = n - 1 + 1
    BY <1>3
  <2>2. BeatAt(p, n - 1, x)
    BY <1>2, <2>1
  <2> QED
    BY <2>1, <2>2 DEF BeatIds
<1>6. BeatIds(p) \cup {x \in Nat : IsBeat(e) /\ e.id = Num(x)} \subseteq BeatIds(q)
  BY <1>2, <1>4 DEF BeatIds
<1>7. \A m, n \in 1..Len(p) : m < n => m + 1 < n + 1 /\ 1 < m + 1
  BY <1>1
<1>8. InOrder(p)
  <2> SUFFICES ASSUME NEW m \in 1..Len(p), NEW n \in 1..Len(p), NEW x \in Nat, NEW y \in Nat,
                      m < n, BeatAt(p, m, x), BeatAt(p, n, y)
               PROVE  x < y
    BY DEF InOrder
  <2>1. m + 1 \in 1..Len(q) /\ n + 1 \in 1..Len(q) /\ BeatAt(q, m + 1, x) /\ BeatAt(q, n + 1, y)
    BY <1>2
  <2>2. m + 1 < n + 1
    BY <1>7
  <2> QED
    BY <2>1, <2>2 DEF InOrder
<1>9. ASSUME NEW x \in Nat, IsBeat(e), e.id = Num(x), NEW y \in BeatIds(p)
      PROVE  x < y
  <2>1. PICK n \in 1..Len(p) : BeatAt(p, n, y)
    BY DEF BeatIds
  <2>2. y \in Nat /\ n + 1 \in 1..Len(q) /\ BeatAt(q, n + 1, y) /\ 1 < n + 1
    BY <1>1, <1>2, <2>1 DEF BeatIds
  <2>3. 1 \in 1..Len(q) /\ BeatAt(q, 1, x)
    BY <1>4, <1>9
  <2> QED
    BY <2>2, <2>3 DEF InOrder
<1> QED
  BY <1>5, <1>6, <1>8, <1>9 DEF p, e

LEMMA BeatsConcat ==
  ASSUME NEW q, NEW r, IsQueue(q), IsQueue(r), InOrder(q), \A f \in Frames(r) : ~IsBeat(f)
  PROVE  BeatIds(q \o r) = BeatIds(q) /\ InOrder(q \o r)
<1> DEFINE p == q \o r
<1>1. /\ Len(p) = Len(q) + Len(r) /\ Len(q) \in Nat /\ Len(r) \in Nat
      /\ \A n \in 1..Len(q) : p[n] = q[n]
      /\ \A n \in 1..Len(r) : p[Len(q) + n] = r[n]
  BY QueueConcat DEF IsQueue
<1> HIDE DEF p
<1>2. \A n \in 1..Len(q) : \A x : n \in 1..Len(p) /\ (BeatAt(p, n, x) <=> BeatAt(q, n, x))
  BY <1>1 DEF BeatAt
<1>3. \A n \in 1..Len(p) : \A x : BeatAt(p, n, x) => n \in 1..Len(q)
  <2> SUFFICES ASSUME NEW n \in 1..Len(p), n \notin 1..Len(q) PROVE ~IsBeat(p[n])
    BY DEF BeatAt
  <2>1. n - Len(q) \in 1..Len(r) /\ Len(q) + (n - Len(q)) = n
    BY <1>1
  <2>2. p[n] = r[n - Len(q)]
    BY <1>1, <2>1
  <2> QED
    BY <2>1, <2>2 DEF Frames
<1>4. BeatIds(p) = BeatIds(q)
  BY <1>2, <1>3 DEF BeatIds
<1>5. InOrder(p)
  BY <1>2, <1>3 DEF InOrder
<1> QED
  BY <1>4, <1>5 DEF p

\* kraken_frame_descriptor throws for no frame, whatever fields it has and
\* whatever their types are.
LEMMA KrakenDescribesAll == \A j : KrakenDescriptor(j) # Throws
<1> SUFFICES ASSUME NEW j PROVE KrakenDescriptor(j) # Throws
  OBVIOUS
<1>1. \A v : Response(v).kind = "MethodResponse" /\ Push(v).kind = "PushMessage"
  BY DEF Response, Push
<1>2. Unknown.kind = "Unknown" /\ Throws.kind = "throws"
  BY DEF Unknown, Throws
<1>3. CASE Has(j, "req_id") /\ IsNum(j.req_id)
  BY <1>1, <1>2, <1>3 DEF KrakenDescriptor
<1>4. CASE ~(Has(j, "req_id") /\ IsNum(j.req_id)) /\ Has(j, "channel") /\ IsStr(j.channel)
  BY <1>1, <1>2, <1>4 DEF KrakenDescriptor
<1>5. CASE ~(Has(j, "req_id") /\ IsNum(j.req_id)) /\ ~(Has(j, "channel") /\ IsStr(j.channel))
  BY <1>1, <1>2, <1>5 DEF KrakenDescriptor
<1> QED
  BY <1>3, <1>4, <1>5
=============================================================================
