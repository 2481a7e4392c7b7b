------------------------ MODULE FrameRoutingProofs --------------------------
(*****************************************************************************)
(* What holds of FrameRouting for any channels, symbols and bounds: answers, *)
(* pushes and heartbeats reach those they are for. RoutingInv is inductive.  *)
(*****************************************************************************)
EXTENDS FrameLemmas

-----------------------------------------------------------------------------
(* The inductive invariant *)

\* The route of a call, the frame that asks for it and the one that ends it.
Route(i) == RouteKey(calls[i].channel, calls[i].symbols)
AskFrame(i) ==
    IF calls[i].channel = NoChannel THEN RequestFrame(i)
    ELSE SubscribeFrame(i, calls[i].channel, calls[i].symbols)
EndFrame(i) == UnsubscribeFrame(i, calls[i].channel, calls[i].symbols)
CallType == [channel : Channels \cup {NoChannel}, symbols : SUBSET Symbols,
             outcome : Outcomes, handle : Handles]

\* The types, with those that queues and sequences need.
TypeInv ==
    /\ dialect \in Dialects
    /\ calls \in Seq(CallType) /\ Len(calls) <= MaxRequests
    /\ pending \subseteq {Num(i) : i \in 1..Len(calls)}
    /\ running \in BOOLEAN
    /\ last.came_to \in {"nothing", "callback", "report", "dropped"}
    /\ IsQueue(toServer) /\ IsQueue(toClient)
    /\ feed \subseteq Topics
    /\ answers \in [Ids -> SUBSET BOOLEAN]
    /\ owed \in Seq(1..MaxUnasked)
    /\ unasked \in 0..MaxUnasked /\ pushes \in 0..MaxPushes

\* A handler waits for exactly the calls without a result. Only a subscription
\* that was accepted has a handle.
CallInv ==
    \A i \in 1..Len(calls) :
        /\ Num(i) \in pending <=> calls[i].outcome = "none"
        /\ IF calls[i].channel = NoChannel THEN dialect # "binance_stream"
           ELSE dialect # "binance_api" /\ calls[i].symbols \in Selections
        /\ calls[i].handle # "none" <=> calls[i].outcome = "ok" /\ calls[i].channel # NoChannel

\* A callback is installed under the route of its own call, which is live. A live
\* call without one has lost it to the cancel of another with its route.
RouteInv ==
    \A r \in DOMAIN subscriptions : \E i \in 1..Len(calls) :
        subscriptions[r] = i /\ calls[i].handle = "active" /\ Route(i) = r
LiveInv ==
    \A i \in 1..Len(calls) : calls[i].handle = "active" =>
        \/ Route(i) \in DOMAIN subscriptions
        \/ \E k \in 1..Len(calls) : calls[k].handle = "cancelled" /\ Route(k) = Route(i)

\* What is under way to the exchange asks for a call, ends a cancelled one or
\* answers a heartbeat. A call is asked for once, and not before it is asked for
\* does the exchange answer it.
Ends(f, i) == calls[i].handle = "cancelled" /\ f = EndFrame(i)
ServerInv ==
    \A f \in Frames(toServer) :
        \/ \E i \in 1..Len(calls) : f = AskFrame(i) \/ Ends(f, i)
        \/ dialect = "cryptocom" /\ \E x \in 1..MaxUnasked : f = Reply(x)
WaitInv ==
    \A i \in 1..Len(calls) :
        AskFrame(i) \in Frames(toServer) => calls[i].outcome = "none" /\ answers[i] = {}
OnceInv ==
    \A i \in 1..Len(calls), m, n \in 1..Len(toServer) :
        toServer[m] = AskFrame(i) /\ toServer[n] = AskFrame(i) => m = n
AnswersInv == \A i \in Ids : answers[i] # {} => i \in 1..Len(calls)

\* What is under way to the client: an answer says what the exchange decided.
Pushed(f) == \E t \in Topics, shape \in Shapes : f = PushFrame(t[1], t[2], shape)
ClientInv ==
    \A f \in Frames(toClient) :
        /\ \A i \in Ids : Identify(f) = Response(Num(i)) =>
            i \in 1..Len(calls) /\ (calls[i].outcome = "none" => Ok(f) \in answers[i])
        /\ Identify(f).kind = "PushMessage" =>
            \/ dialect # "binance_api" /\ Pushed(f)
            \/ /\ dialect = "kraken" /\ Identify(f) = Push("status")
               /\ ~Has(f, "data") /\ ~Has(f, "result")
        /\ IsBeat(f) => dialect = "cryptocom" /\ \E x \in 1..MaxUnasked : f = Beat(x)

\* The answer to a call is on its way until the call has its result.
RepliesInv ==
    running => \A i \in 1..Len(calls) : calls[i].outcome = "none" /\ answers[i] # {} =>
        \E f \in Frames(toClient) : Identify(f) = Response(Num(i))

\* Whatever the exchange pushes, it was asked for by an accepted call whose answer
\* or cancel is still under way, or that is live or partly refused.
FedInv ==
    \A t \in feed : \E i \in 1..Len(calls) :
        /\ calls[i].channel # NoChannel
        /\ t \in TopicsOf(i) /\ TRUE \in answers[i]
        /\ \/ calls[i].outcome = "none"
           \/ PartlyRefused(i)
           \/ calls[i].handle = "active"
           \/ calls[i].handle = "cancelled" /\ EndFrame(i) \in Frames(toServer)

\* The heartbeats under way and the answers to them are those the exchange waits
\* for, in the order in which it sent them.
HeartbeatInv ==
    /\ InOrder(toServer) /\ InOrder(toClient)
    /\ \A x \in BeatIds(toServer), y \in BeatIds(toClient) : x < y
    /\ BeatIds(toServer) \cup BeatIds(toClient) = {owed[k] : k \in 1..Len(owed)}
    /\ \A k \in 1..Len(owed) : owed[k] <= unasked
    /\ \A k, l \in 1..Len(owed) : k < l => owed[k] < owed[l]

\* Needed together: that verdicts are right rests on what an answer under way says
\* (ClientInv), that on whose turn it is to be served (WaitInv, OnceInv); that nothing
\* is fed in vain, on callbacks being those of live calls (RouteInv).
RoutingInv ==
    /\ TypeInv /\ CallInv /\ RouteInv /\ LiveInv /\ ServerInv /\ WaitInv /\ OnceInv
    /\ AnswersInv /\ ClientInv /\ VerdictReaches /\ RepliesInv /\ FedInv /\ HeartbeatInv

-----------------------------------------------------------------------------
(* The exchange serves a frame *)

LEMMA OneDialect ==
  ASSUME TypeInv
  PROVE  dialect \in {"kraken", "binance_stream", "binance_api", "cryptocom"}
BY DialectsAssumption DEF TypeInv

\* The fields of a call.
LEMMA CallFields ==
  ASSUME TypeInv, NEW i \in 1..Len(calls)
  PROVE  /\ Len(calls) \in Nat /\ i \in Ids /\ i \in Nat
         /\ calls[i] \in CallType
         /\ calls[i].channel \in Channels \cup {NoChannel} /\ calls[i].symbols \subseteq Symbols
         /\ calls[i].outcome \in Outcomes /\ calls[i].handle \in Handles
<1>1. Len(calls) \in Nat /\ calls[i] \in CallType
  BY ElementOfSeq, LenProperties DEF TypeInv
<1>2. i \in Ids /\ i \in Nat
  BY <1>1, BoundsAssumption DEF TypeInv, Ids
<1> QED
  BY <1>1, <1>2 DEF CallType

\* The frame that asks for a call.
LEMMA AskFrames ==
  ASSUME TypeInv, CallInv, NEW i \in 1..Len(calls)
  PROVE  LET f == AskFrame(i) IN
         /\ ~Unsubscribing(f) /\ ~HeartbeatReply(f) /\ ~IsBeat(f) /\ Named(f) /\ RequestId(f) = i
         /\ Subscribing(f) <=> calls[i].channel # NoChannel
         /\ IF dialect = "kraken" THEN f.req_id = Num(i) ELSE f.id = Num(i)
         /\ calls[i].channel # NoChannel =>
                IF dialect = "kraken" THEN f.channel = calls[i].channel /\ f.symbols = calls[i].symbols
                ELSE f.params = TopicsOf(i)
<1>1. dialect \in {"kraken", "binance_stream", "binance_api", "cryptocom"}
  BY OneDialect
<1>2. CASE calls[i].channel = NoChannel
  <2>1. AskFrame(i) = RequestFrame(i)
    BY <1>2 DEF AskFrame
  <2>2. dialect \in {"kraken", "binance_api", "cryptocom"}
    BY <1>1, <1>2 DEF CallInv
  <2> QED
    BY <1>2, <2>1, <2>2, RequestFrames
<1>3. CASE calls[i].channel # NoChannel
  <2>1. AskFrame(i) = SubscribeFrame(i, calls[i].channel, calls[i].symbols)
    BY <1>3 DEF AskFrame
  <2>2. dialect \in {"kraken", "binance_stream", "cryptocom"}
    BY <1>1, <1>3 DEF CallInv
  <2> QED
    BY <1>3, <2>1, <2>2, SubscribeFrames DEF TopicsOf
<1> QED
  BY <1>2, <1>3

\* The frame that ends one.
LEMMA EndFrames ==
  ASSUME TypeInv, CallInv, NEW i \in 1..Len(calls), calls[i].handle # "none"
  PROVE  LET f == EndFrame(i) IN
         /\ Unsubscribing(f) /\ ~Subscribing(f) /\ ~HeartbeatReply(f) /\ ~IsBeat(f) /\ Named(f)
         /\ IF dialect = "kraken" THEN f.channel = calls[i].channel /\ f.symbols = calls[i].symbols
            ELSE f.params = TopicsOf(i) /\ f.id = Num(i)
<1>1. dialect \in {"kraken", "binance_stream", "cryptocom"}
  BY OneDialect DEF CallInv
<1> QED
  BY <1>1, UnsubscribeFrames DEF EndFrame, TopicsOf

\* No frame asks for two calls, and none that asks for one ends another.
LEMMA AsksDiffer ==
  ASSUME TypeInv, CallInv, NEW i \in 1..Len(calls)
  PROVE  /\ \A k \in 1..Len(calls) : AskFrame(i) = AskFrame(k) => i = k
         /\ \A k \in 1..Len(calls) : ~(Ends(AskFrame(i), k))
         /\ \A x : AskFrame(i) # Reply(x)
<1>1. \A k \in 1..Len(calls) : AskFrame(i) = AskFrame(k) => i = k
  BY AskFrames
<1>2. \A k \in 1..Len(calls) : ~(Ends(AskFrame(i), k))
  <2> SUFFICES ASSUME NEW k \in 1..Len(calls), Ends(AskFrame(i), k) PROVE FALSE
    OBVIOUS
  <2>1. calls[k].handle # "none" /\ AskFrame(i) = EndFrame(k)
    BY DEF Ends
  <2> QED
    BY <2>1, AskFrames, EndFrames
<1>3. \A x : AskFrame(i) # Reply(x)
  BY AskFrames, Beats
<1> QED
  BY <1>1, <1>2, <1>3

\* A frame that is neither a subscription, nor its end, nor a heartbeat answered.
PlainRequest(f) == ~Subscribing(f) /\ ~Unsubscribing(f) /\ ~HeartbeatReply(f)

\* The topics of one channel correspond to their symbols.
LEMMA OneChannel ==
  ASSUME NEW c, NEW S, NEW T \in SUBSET S
  PROVE  /\ {c} \X T \subseteq {c} \X S
         /\ {c} \X T # {} <=> T # {}
         /\ {c} \X T # {c} \X S <=> T # S
<1>1. \A s : /\ <<c, s>> \in {c} \X T <=> s \in T
             /\ <<c, s>> \in {c} \X S <=> s \in S
  OBVIOUS
<1>2. {c} \X T \subseteq {c} \X S
  OBVIOUS
<1>3. {c} \X T # {} <=> T # {}
  <2>1. ASSUME NEW t \in {c} \X T PROVE T # {}
    BY <2>1
  <2>2. ASSUME NEW s \in T PROVE {c} \X T # {}
    BY <1>1, <2>2
  <2> QED
    BY <2>1, <2>2
<1>4. {c} \X T # {c} \X S <=> T # S
  <2>1. ASSUME {c} \X T = {c} \X S PROVE T = S
    BY <1>1, <2>1
  <2> QED
    BY <2>1
<1> QED
  BY <1>2, <1>3, <1>4

\* What the oldest frame may be.
LEMMA HeadOfServer ==
  ASSUME TypeInv, CallInv, ServerInv, toServer # <<>>
  PROVE  LET f == Head(toServer) IN
         /\ Subscribing(f) => \E i \in 1..Len(calls) : calls[i].channel # NoChannel /\ f = AskFrame(i)
         /\ PlainRequest(f) => \E i \in 1..Len(calls) : calls[i].channel = NoChannel /\ f = AskFrame(i)
         /\ Unsubscribing(f) => \E i \in 1..Len(calls) : Ends(f, i)
         /\ HeartbeatReply(f) => \E x \in 1..MaxUnasked : f = Reply(x)
<1> DEFINE f == Head(toServer)
<1>1. f \in Frames(toServer)
  BY QueueTail DEF TypeInv
<1> HIDE DEF f
<1>2. \/ \E i \in 1..Len(calls) : f = AskFrame(i)
      \/ \E i \in 1..Len(calls) : Ends(f, i)
      \/ \E x \in 1..MaxUnasked : f = Reply(x)
  BY <1>1 DEF ServerInv
<1>3. CASE \E i \in 1..Len(calls) : f = AskFrame(i)
  BY <1>3, AskFrames DEF f, PlainRequest
<1>4. CASE \E i \in 1..Len(calls) : Ends(f, i)
  <2>1. PICK i \in 1..Len(calls) : Ends(f, i)
    BY <1>4
  <2>2. calls[i].handle # "none" /\ f = EndFrame(i)
    BY <2>1 DEF Ends
  <2> QED
    BY <2>1, <2>2, EndFrames DEF f, PlainRequest
<1>5. CASE \E x \in 1..MaxUnasked : f = Reply(x)
  BY <1>5, Beats DEF f, PlainRequest
<1> QED
  BY <1>2, <1>3, <1>4, <1>5

\* What serving a frame may come to.
Serves(new) ==
    /\ toServer # <<>> /\ toServer' = Tail(toServer)
    /\ IsQueue(new) /\ toClient' = toClient \o new
    /\ UNCHANGED <<dialect, client, last, unasked, pushes>>
AnswersCall(i, new, verdicts) ==
    /\ Serves(new) /\ owed' = owed
    /\ Head(toServer) = AskFrame(i)
    /\ verdicts \subseteq BOOLEAN /\ answers' = [answers EXCEPT ![i] = verdicts]
    /\ Frames(new) # {}
    /\ \A g \in Frames(new) : Identify(g) = Response(Num(i)) /\ Ok(g) \in verdicts /\ ~IsBeat(g)
    /\ \E topics \in SUBSET TopicsOf(i) :
            feed' = feed \cup topics /\ EndToEnd!Agrees(i, verdicts, topics)
EndsCall(i, new) ==
    /\ Serves(new) /\ owed' = owed /\ answers' = answers
    /\ Ends(Head(toServer), i)
    /\ \A g \in Frames(new) : Identify(g) \in {Response(Num(i)), Unknown} /\ ~IsBeat(g)
    /\ feed' = feed \ TopicsOf(i)
TakesReply(x) ==
    /\ Serves(<<>>) /\ feed' = feed /\ answers' = answers
    /\ Head(toServer) = Reply(x)
    /\ owed' = IF owed # <<>> /\ Num(x) = Num(Head(owed)) THEN Tail(owed) ELSE owed

LEMMA SingleFrame == ASSUME NEW a PROVE IsQueue(<<a>>) /\ Frames(<<a>>) = {a} /\ Len(<<a>>) = 1
BY DEF IsQueue, Frames

\* Kraken answers a subscription, symbol by symbol; its first answer settles the call.
LEMMA KrakenServesEffect ==
  ASSUME TypeInv, CallInv, ServerInv, KrakenServesSubscribe
  PROVE  \E i \in 1..Len(calls) : \E new, verdicts : AnswersCall(i, new, verdicts)
<1> DEFINE f == Head(toServer)
<1>1. dialect = "kraken" /\ Take /\ Subscribing(f) /\ UNCHANGED owed
  BY DEF KrakenServesSubscribe
<1>2. PICK yes \in SUBSET f.symbols, order \in SetToSeqs(f.symbols) :
         /\ Send([n \in 1..Len(order) |-> KrakenAck(f, order[n], yes)])
         /\ feed' = feed \cup ({f.channel} \X yes)
         /\ answers' = [answers EXCEPT ![RequestId(f)] = {(s \in yes) : s \in f.symbols}]
  BY DEF KrakenServesSubscribe
<1>3. PICK i \in 1..Len(calls) : calls[i].channel # NoChannel /\ f = AskFrame(i)
  BY <1>1, HeadOfServer DEF Take
<1>4. /\ RequestId(f) = i /\ Named(f) /\ f.req_id = Num(i)
      /\ f.channel = calls[i].channel /\ f.symbols = calls[i].symbols
  BY <1>1, <1>3, AskFrames
<1>5. calls[i].symbols # {} /\ calls[i].symbols \subseteq Symbols
  <2>1. calls[i].symbols \in Selections
    BY <1>3 DEF CallInv
  <2>2. Selections = (SUBSET Symbols) \ {{}}
    BY <1>1 DEF Selections
  <2> QED
    BY <2>1, <2>2
<1> DEFINE new == [n \in 1..Len(order) |-> KrakenAck(f, order[n], yes)]
           verdicts == {(s \in yes) : s \in f.symbols}
<1> HIDE DEF f
<1>6. IsFiniteSet(f.symbols) /\ f.symbols # {}
  BY <1>4, <1>5, SymbolsAssumption, FS_Subset
<1>7. Cardinality(f.symbols) \in Nat /\ Cardinality(f.symbols) # 0
  BY <1>6, FS_CardinalityType, FS_EmptySet
<1>8. order \in [1..Cardinality(f.symbols) -> f.symbols]
  BY <1>2 DEF SetToSeqs
<1>9. order \in Seq(f.symbols) /\ Len(order) = Cardinality(f.symbols)
  BY <1>7, <1>8
<1>10. IsQueue(new) /\ Len(new) = Len(order)
  BY <1>7, <1>9 DEF IsQueue
<1>11. \A n \in 1..Len(order) : order[n] \in f.symbols /\ new[n] = KrakenAck(f, order[n], yes)
  BY <1>8, <1>9
<1> HIDE DEF new
<1>12. 1 \in 1..Len(new)
  BY <1>7, <1>9, <1>10
<1>13. Frames(new) # {}
  BY <1>12 DEF Frames
<1>14. ASSUME NEW g \in Frames(new)
       PROVE  Identify(g) = Response(Num(i)) /\ Ok(g) \in verdicts /\ ~IsBeat(g)
  <2>1. PICK n \in 1..Len(order) : g = KrakenAck(f, order[n], yes) /\ order[n] \in f.symbols
    BY <1>10, <1>11 DEF Frames
  <2>2. Identify(g) = Response(Num(i)) /\ Ok(g) = (order[n] \in yes) /\ ~IsBeat(g)
    BY <1>1, <1>4, <2>1, KrakenAcks
  <2> QED
    BY <2>1, <2>2
<1>15. verdicts \subseteq BOOLEAN
  <2>1. \A s \in f.symbols : (s \in yes) \in BOOLEAN
    <3> TAKE s \in f.symbols
    <3>1. CASE s \in yes
      <4>1. (s \in yes) = TRUE
        BY <3>1
      <4> QED
        BY <4>1
    <3>2. CASE s \notin yes
      <4>1. (s \in yes) = FALSE
        BY <3>2
      <4> QED
        BY <4>1
    <3> QED
      BY <3>1, <3>2
  <2> QED
    BY <2>1, Zenon
<1>16. \E topics \in SUBSET TopicsOf(i) :
            feed' = feed \cup topics /\ EndToEnd!Agrees(i, verdicts, topics)
  <2> DEFINE topics == {f.channel} \X yes
  <2>1. TRUE \in verdicts <=> yes # {}
    <3>1. ASSUME NEW s \in f.symbols, s \in yes PROVE TRUE \in verdicts
      <4>1. (s \in yes) = TRUE
        BY <3>1
      <4> QED
        BY <4>1
    <3>2. ASSUME yes = {} PROVE TRUE \notin verdicts
      <4>1. \A s \in f.symbols : (s \in yes) = FALSE
        BY <3>2
      <4> QED
        BY <4>1
    <3> QED
      BY <1>2, <3>1, <3>2
  <2>2. FALSE \in verdicts <=> yes # f.symbols
    <3>1. ASSUME NEW s \in f.symbols, s \notin yes PROVE FALSE \in verdicts
      <4>1. (s \in yes) = FALSE
        BY <3>1
      <4> QED
        BY <4>1
    <3>2. ASSUME yes = f.symbols PROVE FALSE \notin verdicts
      <4>1. \A s \in f.symbols : (s \in yes) = TRUE
        BY <3>2
      <4> QED
        BY <4>1
    <3> QED
      BY <1>2, <3>1, <3>2
  <2> HIDE DEF verdicts
  <2>3. /\ topics \in SUBSET TopicsOf(i) /\ (topics # {} <=> yes # {})
        /\ topics # TopicsOf(i) <=> yes # f.symbols
    <3>1. TopicsOf(i) = {f.channel} \X f.symbols
      BY <1>4 DEF TopicsOf
    <3>2. yes \in SUBSET f.symbols
      BY <1>2
    <3>3. /\ topics \subseteq {f.channel} \X f.symbols
          /\ topics # {} <=> yes # {}
          /\ topics # {f.channel} \X f.symbols <=> yes # f.symbols
      BY <3>2, OneChannel
    <3> HIDE DEF topics
    <3> QED
      BY <3>1, <3>3
  <2>4. EndToEnd!Agrees(i, verdicts, topics)
    BY <1>3, <2>1, <2>2, <2>3 DEF EndToEnd!Agrees, EndToEnd!Subscription, EndToEnd!TopicsOf, TopicsOf
  <2> QED
    BY <1>2, <2>3, <2>4
<1>17. Serves(new)
  BY <1>1, <1>2, <1>10 DEF Serves, Take, Send, new
<1>18. AnswersCall(i, new, verdicts)
  <2> HIDE DEF verdicts
  <2> QED
    BY <1>1, <1>2, <1>3, <1>4, <1>13, <1>14, <1>15, <1>16, <1>17 DEF AnswersCall, f, verdicts
<1> QED
  BY <1>18

\* The others answer it once.
LEMMA ServesSubscribeEffect ==
  ASSUME TypeInv, CallInv, ServerInv, ServesSubscribe
  PROVE  \E i \in 1..Len(calls) : \E new, verdicts : AnswersCall(i, new, verdicts)
<1> DEFINE f == Head(toServer)
<1>1. dialect # "kraken" /\ Take /\ Subscribing(f) /\ UNCHANGED owed
  BY DEF ServesSubscribe
<1>2. PICK yes \in BOOLEAN : \E answer \in Answer(f, yes) :
         /\ Send(<<answer>>)
         /\ feed' = IF yes THEN feed \cup f.params ELSE feed
         /\ answers' = [answers EXCEPT ![RequestId(f)] = {yes}]
  BY DEF ServesSubscribe
<1>3. PICK answer \in Answer(f, yes) :
         /\ Send(<<answer>>)
         /\ feed' = IF yes THEN feed \cup f.params ELSE feed
         /\ answers' = [answers EXCEPT ![RequestId(f)] = {yes}]
  BY <1>2
<1>4. PICK i \in 1..Len(calls) : calls[i].channel # NoChannel /\ f = AskFrame(i)
  BY <1>1, HeadOfServer DEF Take
<1>5. RequestId(f) = i /\ Named(f) /\ f.id = Num(i) /\ f.params = TopicsOf(i)
  BY <1>1, <1>4, AskFrames
<1> HIDE DEF f
<1>6. Identify(answer) = Response(Num(i)) /\ Ok(answer) = yes /\ ~IsBeat(answer)
  BY <1>1, <1>5, Answers, OneDialect, CallFields
<1> DEFINE new == <<answer>> verdicts == {yes}
<1>7. IsQueue(new) /\ Frames(new) = {answer}
  BY SingleFrame
<1>8. Serves(new)
  BY <1>1, <1>3, <1>7 DEF Serves, Take, Send
<1> HIDE DEF new
<1>9. \A g \in Frames(new) : Identify(g) = Response(Num(i)) /\ Ok(g) \in verdicts /\ ~IsBeat(g)
  BY <1>6, <1>7
<1>10. \E topics \in SUBSET TopicsOf(i) :
            feed' = feed \cup topics /\ EndToEnd!Agrees(i, verdicts, topics)
  <2>1. TopicsOf(i) # {}
    <3>1. calls[i].symbols # {}
      BY <1>1, <1>4 DEF CallInv, Selections
    <3> QED
      BY <3>1, OneChannel DEF TopicsOf
  <2>2. EndToEnd!Subscription(i) /\ EndToEnd!TopicsOf(i) = TopicsOf(i)
    BY <1>4 DEF EndToEnd!Subscription, EndToEnd!TopicsOf, TopicsOf
  <2>3. CASE yes
    <3>1. feed' = feed \cup TopicsOf(i) /\ EndToEnd!Agrees(i, verdicts, TopicsOf(i))
      BY <1>3, <1>5, <2>1, <2>2, <2>3 DEF EndToEnd!Agrees
    <3> QED
      BY <3>1
  <2>4. CASE ~yes
    <3>1. feed' = feed \cup {} /\ EndToEnd!Agrees(i, verdicts, {})
      BY <1>3, <2>1, <2>2, <2>4 DEF EndToEnd!Agrees
    <3> QED
      BY <3>1
  <2> QED
    BY <2>3, <2>4
<1>11. AnswersCall(i, new, verdicts)
  BY <1>1, <1>3, <1>4, <1>5, <1>7, <1>8, <1>9, <1>10 DEF AnswersCall, f
<1> QED
  BY <1>11

\* A request is answered once, by any of them.
LEMMA ServesRequestEffect ==
  ASSUME TypeInv, CallInv, ServerInv, ServesRequest
  PROVE  \E i \in 1..Len(calls) : \E new, verdicts : AnswersCall(i, new, verdicts)
<1> DEFINE f == Head(toServer)
<1>1. Take /\ PlainRequest(f) /\ UNCHANGED <<feed, owed>>
  BY DEF ServesRequest, PlainRequest
<1>2. PICK yes \in BOOLEAN : \E answer \in Answer(f, yes) :
         /\ Send(<<answer>>)
         /\ answers' = [answers EXCEPT ![RequestId(f)] = {yes}]
  BY DEF ServesRequest
<1>3. PICK answer \in Answer(f, yes) :
         /\ Send(<<answer>>)
         /\ answers' = [answers EXCEPT ![RequestId(f)] = {yes}]
  BY <1>2
<1>4. PICK i \in 1..Len(calls) : calls[i].channel = NoChannel /\ f = AskFrame(i)
  BY <1>1, HeadOfServer DEF Take
<1>5. RequestId(f) = i /\ Named(f) /\ (IF dialect = "kraken" THEN f.req_id = Num(i) ELSE f.id = Num(i))
  BY <1>4, AskFrames
<1> HIDE DEF f
<1>6. Identify(answer) = Response(Num(i)) /\ Ok(answer) = yes /\ ~IsBeat(answer)
  BY <1>5, Answers, OneDialect, CallFields
<1> DEFINE new == <<answer>> verdicts == {yes}
<1>7. IsQueue(new) /\ Frames(new) = {answer}
  BY SingleFrame
<1>8. Serves(new)
  BY <1>1, <1>3, <1>7 DEF Serves, Take, Send
<1> HIDE DEF new
<1>9. \A g \in Frames(new) : Identify(g) = Response(Num(i)) /\ Ok(g) \in verdicts /\ ~IsBeat(g)
  BY <1>6, <1>7
<1>10. \E topics \in SUBSET TopicsOf(i) :
            feed' = feed \cup topics /\ EndToEnd!Agrees(i, verdicts, topics)
  <2>1. feed' = feed \cup {} /\ EndToEnd!Agrees(i, verdicts, {})
    BY <1>1, <1>4 DEF EndToEnd!Agrees, EndToEnd!Subscription
  <2> QED
    BY <2>1
<1>11. AnswersCall(i, new, verdicts)
  BY <1>1, <1>3, <1>4, <1>5, <1>7, <1>8, <1>9, <1>10 DEF AnswersCall, f
<1> QED
  BY <1>11

\* An unsubscription ends the call that it names.
LEMMA KrakenEndsEffect ==
  ASSUME TypeInv, CallInv, ServerInv, KrakenServesUnsubscribe
  PROVE  \E i \in 1..Len(calls) : \E new : EndsCall(i, new)
<1> DEFINE f == Head(toServer) a == [method |-> f.method, success |-> TRUE] new == <<a>>
<1>1. /\ dialect = "kraken" /\ Take /\ Unsubscribing(f) /\ UNCHANGED <<answers, owed>>
      /\ Send(new) /\ feed' = feed \ ({f.channel} \X f.symbols)
  BY DEF KrakenServesUnsubscribe
<1>2. PICK i \in 1..Len(calls) : Ends(f, i)
  BY <1>1, HeadOfServer DEF Take
<1>3. Named(f) /\ f.channel = calls[i].channel /\ f.symbols = calls[i].symbols
  BY <1>1, <1>2, EndFrames DEF Ends
<1>4. Identify(a) = Unknown /\ ~IsBeat(a)
  BY <1>1, <1>3, KrakenGoodbye
<1> HIDE DEF a
<1>5. IsQueue(new) /\ Frames(new) = {a}
  BY SingleFrame
<1>6. Serves(new)
  BY <1>1, <1>5 DEF Serves, Take, Send
<1> HIDE DEF new
<1>7. EndsCall(i, new)
  BY <1>1, <1>2, <1>3, <1>4, <1>5, <1>6 DEF EndsCall, TopicsOf
<1> QED
  BY <1>7

\* So it does of the others, whose answer has the id of the call it ends.
LEMMA EndsEffect ==
  ASSUME TypeInv, CallInv, ServerInv, ServesUnsubscribe
  PROVE  \E i \in 1..Len(calls) : \E new : EndsCall(i, new)
<1> DEFINE f == Head(toServer)
<1>1. /\ dialect # "kraken" /\ Take /\ Unsubscribing(f) /\ UNCHANGED <<answers, owed>>
      /\ feed' = feed \ f.params
  BY DEF ServesUnsubscribe
<1>2. PICK a \in Answer(f, TRUE) : Send(<<a>>)
  BY DEF ServesUnsubscribe
<1>3. PICK i \in 1..Len(calls) : Ends(f, i)
  BY <1>1, HeadOfServer DEF Take
<1>4. Named(f) /\ f.params = TopicsOf(i) /\ f.id = Num(i)
  BY <1>1, <1>3, EndFrames DEF Ends
<1> HIDE DEF f
<1>5. Identify(a) = Response(Num(i)) /\ ~IsBeat(a)
  BY <1>1, <1>2, <1>4, Answers, OneDialect, CallFields
<1> DEFINE new == <<a>>
<1>6. IsQueue(new) /\ Frames(new) = {a}
  BY SingleFrame
<1>7. Serves(new)
  BY <1>1, <1>2, <1>6 DEF Serves, Take, Send
<1> HIDE DEF new
<1>8. EndsCall(i, new)
  BY <1>1, <1>3, <1>4, <1>5, <1>6, <1>7 DEF EndsCall, f
<1> QED
  BY <1>8

\* The exchange takes the answer to the oldest heartbeat it waits for.
LEMMA ReplyEffect ==
  ASSUME TypeInv, CallInv, ServerInv, ReceivesHeartbeatReply
  PROVE  \E x \in 1..MaxUnasked : TakesReply(x)
<1> DEFINE f == Head(toServer)
<1>1. /\ Take /\ HeartbeatReply(f) /\ UNCHANGED <<toClient, feed, answers>>
      /\ owed' = IF owed # <<>> /\ f.id = Num(Head(owed)) THEN Tail(owed) ELSE owed
  BY DEF ReceivesHeartbeatReply
<1>2. PICK x \in 1..MaxUnasked : f = Reply(x)
  BY <1>1, HeadOfServer DEF Take
<1>3. f.id = Num(x)
  BY <1>2, Beats
<1>4. toClient' = toClient \o <<>>
  <2>1. toClient \in Seq(Frames(toClient))
    BY QueueIsSeq DEF TypeInv
  <2> QED
    BY <1>1, <2>1, ConcatEmptySeq
<1>5. Serves(<<>>)
  BY <1>1, <1>4, QueueEmpty DEF Serves, Take
<1> HIDE DEF f
<1>6. TakesReply(x)
  BY <1>1, <1>2, <1>3, <1>5 DEF TakesReply, f
<1> QED
  BY <1>6

-----------------------------------------------------------------------------
(* The exchange: every step keeps the invariant *)

\* What a frame means depends on the dialect alone; so do the frames of a call.
LEMMA FrameStable ==
  ASSUME dialect' = dialect, NEW f
  PROVE  /\ Identify(f)' = Identify(f) /\ Ok(f)' = Ok(f)
         /\ \A c, s, shape : PushFrame(c, s, shape)' = PushFrame(c, s, shape)
         /\ Selections' = Selections
<1>1. Identify(f)' = Identify(f)
  BY DEF Identify
<1>2. Ok(f)' = Ok(f)
  BY DEF Ok
<1>3. ASSUME NEW c, NEW s, NEW shape PROVE PushFrame(c, s, shape)' = PushFrame(c, s, shape)
  BY DEF PushFrame
<1> QED
  BY <1>1, <1>2, <1>3 DEF Selections

LEMMA CallStable ==
  ASSUME dialect' = dialect, NEW i,
         calls'[i].channel = calls[i].channel, calls'[i].symbols = calls[i].symbols
  PROVE  /\ AskFrame(i)' = AskFrame(i) /\ EndFrame(i)' = EndFrame(i) /\ Route(i)' = Route(i)
         /\ TopicsOf(i)' = TopicsOf(i)
<1>2. RequestFrame(i)' = RequestFrame(i)
  BY DEF RequestFrame
<1>3. AskFrame(i)' = AskFrame(i)
  BY <1>2 DEF AskFrame, SubscribeFrame
<1>4. EndFrame(i)' = EndFrame(i)
  BY DEF EndFrame, UnsubscribeFrame
<1>5. Route(i)' = Route(i)
  BY DEF Route, RouteKey
<1>6. TopicsOf(i)' = TopicsOf(i)
  BY DEF TopicsOf
<1> QED
  BY <1>3, <1>4, <1>5, <1>6

\* A step that leaves the calls and the callbacks as they are.
LEMMA CallsKept ==
  ASSUME RoutingInv, UNCHANGED <<dialect, calls, pending, subscriptions>>
  PROVE  /\ CallInv' /\ RouteInv' /\ LiveInv'
         /\ \A i \in 1..Len(calls) :
                AskFrame(i)' = AskFrame(i) /\ EndFrame(i)' = EndFrame(i) /\ TopicsOf(i)' = TopicsOf(i)
         /\ \A f, i : Ends(f, i)' <=> Ends(f, i)
<1>1. \A i : /\ AskFrame(i)' = AskFrame(i) /\ EndFrame(i)' = EndFrame(i) /\ Route(i)' = Route(i)
             /\ TopicsOf(i)' = TopicsOf(i)
  BY CallStable
<1>2. Selections' = Selections
  BY FrameStable
<1>3. CallInv'
  BY <1>2 DEF RoutingInv, CallInv
<1>4. RouteInv'
  BY <1>1 DEF RoutingInv, RouteInv
<1>5. LiveInv'
  BY <1>1 DEF RoutingInv, LiveInv
<1>6. \A f, i : Ends(f, i)' <=> Ends(f, i)
  BY <1>1 DEF Ends
<1> QED
  BY <1>1, <1>3, <1>4, <1>5, <1>6

\* What explains the feed still does, if no unsubscribe frame is lost on its way.
LEMMA FedKept ==
  ASSUME RoutingInv, UNCHANGED <<calls, feed, answers>>,
         \A k \in 1..Len(calls) : EndFrame(k)' = EndFrame(k) /\ TopicsOf(k)' = TopicsOf(k),
         \A k \in 1..Len(calls) :
            calls[k].handle = "cancelled" /\ EndFrame(k) \in Frames(toServer)
                => EndFrame(k) \in Frames(toServer')
  PROVE  FedInv'
<1> SUFFICES ASSUME NEW t \in feed
             PROVE  \E k \in 1..Len(calls) :
                      /\ calls[k].channel # NoChannel
                      /\ t \in TopicsOf(k) /\ TRUE \in answers[k]
                      /\ \/ calls[k].outcome = "none"
                         \/ PartlyRefused(k)
                         \/ calls[k].handle = "active"
                         \/ calls[k].handle = "cancelled" /\ EndFrame(k) \in Frames(toServer')
  BY DEF FedInv, PartlyRefused
<1>1. PICK k \in 1..Len(calls) :
             /\ calls[k].channel # NoChannel
             /\ t \in TopicsOf(k) /\ TRUE \in answers[k]
             /\ \/ calls[k].outcome = "none"
                \/ PartlyRefused(k)
                \/ calls[k].handle = "active"
                \/ calls[k].handle = "cancelled" /\ EndFrame(k) \in Frames(toServer)
  BY DEF RoutingInv, FedInv
<1> QED
  BY <1>1

\* What every service of a frame does.
LEMMA ServesStep ==
  ASSUME RoutingInv, NEW new, Serves(new)
  PROVE  /\ CallInv' /\ RouteInv' /\ LiveInv' /\ ServerInv' /\ OnceInv'
         /\ IsQueue(toServer') /\ IsQueue(toClient')
         /\ Head(toServer) \in Frames(toServer)
         /\ Frames(toServer) = Frames(toServer') \cup {Head(toServer)}
         /\ Frames(toClient') = Frames(toClient) \cup Frames(new)
         /\ \A k \in 1..Len(calls) : AskFrame(k) = Head(toServer) => AskFrame(k) \notin Frames(toServer')
         /\ \A k \in 1..Len(calls) :
               AskFrame(k)' = AskFrame(k) /\ EndFrame(k)' = EndFrame(k) /\ TopicsOf(k)' = TopicsOf(k)
         /\ \A f : Identify(f)' = Identify(f) /\ Ok(f)' = Ok(f) /\ (Pushed(f)' <=> Pushed(f))
<1> USE DEF RoutingInv
<1>1. /\ toServer # <<>> /\ toServer' = Tail(toServer) /\ IsQueue(new) /\ toClient' = toClient \o new
      /\ UNCHANGED <<dialect, calls, pending, subscriptions>>
  BY DEF Serves, client
<1>2. IsQueue(toServer) /\ toServer # <<>>
  BY <1>1 DEF TypeInv
<1>3. /\ IsQueue(toServer') /\ Len(toServer) > 0 /\ Len(toServer') = Len(toServer) - 1
      /\ Head(toServer) = toServer[1] /\ Head(toServer) \in Frames(toServer)
      /\ \A n \in 1..Len(toServer') : toServer'[n] = toServer[n + 1]
      /\ Frames(toServer) = Frames(toServer') \cup {Head(toServer)}
  BY <1>1, <1>2, QueueTail
<1>4. Len(toServer) \in Nat /\ 1 \in 1..Len(toServer)
  BY <1>2, <1>3 DEF IsQueue
<1>5. IsQueue(toClient') /\ Frames(toClient') = Frames(toClient) \cup Frames(new)
  BY <1>1, QueueConcat DEF TypeInv
<1>6. /\ CallInv' /\ RouteInv' /\ LiveInv'
      /\ \A k \in 1..Len(calls) :
            AskFrame(k)' = AskFrame(k) /\ EndFrame(k)' = EndFrame(k) /\ TopicsOf(k)' = TopicsOf(k)
      /\ \A f, k : Ends(f, k)' <=> Ends(f, k)
  BY <1>1, CallsKept
<1>7. ServerInv'
  BY <1>1, <1>3, <1>6 DEF ServerInv
<1>8. OnceInv'
  <2> SUFFICES ASSUME NEW k \in 1..Len(calls), NEW m \in 1..Len(toServer'), NEW n \in 1..Len(toServer'),
               toServer'[m] = AskFrame(k)', toServer'[n] = AskFrame(k)'
        PROVE  m = n
    BY <1>1 DEF OnceInv
  <2>1. m + 1 \in 1..Len(toServer) /\ n + 1 \in 1..Len(toServer)
    BY <1>3, <1>4
  <2>2. toServer[m + 1] = AskFrame(k) /\ toServer[n + 1] = AskFrame(k)
    BY <1>3, <1>6
  <2>3. m + 1 = n + 1
    BY <2>1, <2>2 DEF OnceInv
  <2> QED
    BY <2>3
<1>9. ASSUME NEW k \in 1..Len(calls), AskFrame(k) = Head(toServer), AskFrame(k) \in Frames(toServer')
      PROVE  FALSE
  <2>1. PICK n \in 1..Len(toServer') : toServer'[n] = AskFrame(k)
    BY <1>9 DEF Frames
  <2>2. n + 1 \in 1..Len(toServer) /\ toServer[n + 1] = AskFrame(k) /\ n + 1 # 1
    BY <1>3, <1>4, <2>1
  <2> QED
    BY <1>3, <1>4, <1>9, <2>2 DEF OnceInv
<1>10. \A f : Identify(f)' = Identify(f) /\ Ok(f)' = Ok(f) /\ (Pushed(f)' <=> Pushed(f))
  BY <1>1, FrameStable DEF Pushed
<1> QED
  BY <1>3, <1>5, <1>6, <1>7, <1>8, <1>9, <1>10

\* An answer to a call settles nothing else.
LEMMA AnswersCallStep ==
  ASSUME RoutingInv, NEW i \in 1..Len(calls), NEW new, NEW verdicts, AnswersCall(i, new, verdicts)
  PROVE  RoutingInv'
<1> USE DEF RoutingInv
<1>1. /\ Serves(new) /\ owed' = owed /\ Head(toServer) = AskFrame(i)
      /\ verdicts \subseteq BOOLEAN /\ answers' = [answers EXCEPT ![i] = verdicts]
      /\ Frames(new) # {}
      /\ \A g \in Frames(new) : Identify(g) = Response(Num(i)) /\ Ok(g) \in verdicts /\ ~IsBeat(g)
      /\ \A t \in feed' :
            t \in feed \/ (calls[i].channel # NoChannel /\ t \in TopicsOf(i) /\ TRUE \in verdicts)
  <2>1. PICK topics \in SUBSET TopicsOf(i) :
            feed' = feed \cup topics /\ EndToEnd!Agrees(i, verdicts, topics)
    BY DEF AnswersCall
  <2>2. topics # {} => calls[i].channel # NoChannel /\ TRUE \in verdicts
    BY <2>1 DEF EndToEnd!Agrees, EndToEnd!Subscription
  <2> QED
    BY <2>1, <2>2 DEF AnswersCall
<1>2. /\ toServer # <<>> /\ toServer' = Tail(toServer) /\ IsQueue(new) /\ toClient' = toClient \o new
      /\ UNCHANGED <<dialect, calls, pending, subscriptions, running, last, unasked, pushes>>
  BY <1>1 DEF Serves, client
<1>3. /\ CallInv' /\ RouteInv' /\ LiveInv' /\ ServerInv' /\ OnceInv'
      /\ IsQueue(toServer') /\ IsQueue(toClient')
      /\ AskFrame(i) \in Frames(toServer) /\ AskFrame(i) \notin Frames(toServer')
      /\ Frames(toServer) = Frames(toServer') \cup {AskFrame(i)}
      /\ Frames(toClient') = Frames(toClient) \cup Frames(new)
      /\ \A k \in 1..Len(calls) :
            AskFrame(k)' = AskFrame(k) /\ EndFrame(k)' = EndFrame(k) /\ TopicsOf(k)' = TopicsOf(k)
      /\ \A f : Identify(f)' = Identify(f) /\ Ok(f)' = Ok(f) /\ (Pushed(f)' <=> Pushed(f))
  BY <1>1, ServesStep
<1>5. i \in Ids /\ calls[i].outcome = "none" /\ answers[i] = {}
  BY <1>3, CallFields DEF WaitInv
<1>6. /\ answers' \in [Ids -> SUBSET BOOLEAN] /\ answers'[i] = verdicts
      /\ \A k \in Ids : k # i => answers'[k] = answers[k]
  BY <1>1, <1>5 DEF TypeInv
<1>8. \A k \in 1..Len(calls) : k \in Ids
  BY CallFields
<1>9. TypeInv'
  <2>1. feed' \subseteq Topics
    <3> SUFFICES ASSUME NEW t \in feed', t \notin feed PROVE t \in Topics
      BY DEF TypeInv
    <3>1. calls[i].channel \in Channels /\ calls[i].symbols \subseteq Symbols /\ t \in TopicsOf(i)
      BY <1>1, CallFields
    <3> QED
      BY <3>1 DEF TopicsOf, Topics
  <2> QED
    BY <1>1, <1>2, <1>3, <1>6, <2>1 DEF TypeInv
<1>11. WaitInv'
  <2>1. ASSUME NEW k \in 1..Len(calls), AskFrame(k) \in Frames(toServer')
        PROVE  calls[k].outcome = "none" /\ answers'[k] = {}
    BY <1>3, <1>6, <1>8, <2>1 DEF WaitInv
  <2> QED
    BY <1>2, <1>3, <2>1 DEF WaitInv
<1>12. AnswersInv'
  BY <1>2, <1>6 DEF AnswersInv
<1>14. ClientInv'
  <2> SUFFICES ASSUME NEW f \in Frames(toClient')
               PROVE
               /\ \A k \in Ids : Identify(f) = Response(Num(k)) =>
                   k \in 1..Len(calls) /\ (calls[k].outcome = "none" => Ok(f) \in answers'[k])
               /\ Identify(f).kind = "PushMessage" =>
                   \/ dialect # "binance_api" /\ Pushed(f)
                   \/ /\ dialect = "kraken" /\ Identify(f) = Push("status")
                      /\ ~Has(f, "data") /\ ~Has(f, "result")
               /\ IsBeat(f) => dialect = "cryptocom" /\ \E x \in 1..MaxUnasked : f = Beat(x)
    BY <1>2, <1>3 DEF ClientInv
  <2>1. CASE f \in Frames(toClient)
    BY <1>5, <1>6, <2>1 DEF ClientInv
  <2>2. CASE f \in Frames(new)
    BY <1>1, <1>5, <1>6, <2>2, Kinds, Values
  <2> QED
    BY <1>3, <2>1, <2>2
<1>15. VerdictReaches'
  BY <1>2, <1>5, <1>6, <1>8 DEF VerdictReaches
<1>16. RepliesInv'
  <2> SUFFICES ASSUME running, NEW k \in 1..Len(calls), calls[k].outcome = "none", answers'[k] # {}
               PROVE  \E f \in Frames(toClient') : Identify(f) = Response(Num(k))
    BY <1>2, <1>3 DEF RepliesInv
  <2>1. CASE k = i
    BY <1>1, <1>3, <2>1
  <2>2. CASE k # i
    BY <1>3, <1>6, <1>8, <2>2 DEF RepliesInv
  <2> QED
    BY <2>1, <2>2
<1>17. FedInv'
  <2> SUFFICES ASSUME NEW t \in feed'
               PROVE  \E k \in 1..Len(calls) :
                        /\ calls[k].channel # NoChannel
                        /\ t \in TopicsOf(k) /\ TRUE \in answers'[k]
                        /\ \/ calls[k].outcome = "none"
                           \/ calls[k].outcome = "failed" /\ TRUE \in answers'[k]
                           \/ calls[k].handle = "active"
                           \/ calls[k].handle = "cancelled" /\ EndFrame(k) \in Frames(toServer')
    BY <1>2, <1>3 DEF FedInv, PartlyRefused
  <2>1. CASE t \in feed
    <3>1. PICK k \in 1..Len(calls) :
                 /\ calls[k].channel # NoChannel
                 /\ t \in TopicsOf(k) /\ TRUE \in answers[k]
                 /\ \/ calls[k].outcome = "none"
                    \/ PartlyRefused(k)
                    \/ calls[k].handle = "active"
                    \/ calls[k].handle = "cancelled" /\ EndFrame(k) \in Frames(toServer)
      BY <2>1 DEF FedInv
    <3>2. k # i /\ answers'[k] = answers[k]
      BY <1>5, <1>6, <1>8, <3>1
    <3>3. calls[k].handle = "cancelled" => AskFrame(i) # EndFrame(k)
      BY AsksDiffer DEF Ends
    <3> QED
      BY <1>3, <3>1, <3>2, <3>3 DEF PartlyRefused
  <2>2. CASE t \notin feed
    BY <1>1, <1>5, <1>6, <2>2
  <2> QED
    BY <2>1, <2>2
<1>18. HeartbeatInv'
  <2>1. ~IsBeat(Head(toServer))
    BY <1>1, AskFrames
  <2>2. BeatIds(toServer) = BeatIds(toServer') /\ InOrder(toServer')
    <3>1. IsQueue(toServer) /\ InOrder(toServer) /\ toServer # <<>>
      BY <1>2 DEF TypeInv, HeartbeatInv
    <3> QED
      BY <1>2, <2>1, <3>1, BeatsTail
  <2>3. BeatIds(toClient') = BeatIds(toClient) /\ InOrder(toClient')
    BY <1>1, <1>2, BeatsConcat DEF TypeInv, HeartbeatInv
  <2> QED
    BY <1>1, <1>2, <2>2, <2>3 DEF HeartbeatInv
<1> QED
  BY <1>3, <1>9, <1>11, <1>12, <1>14, <1>15, <1>16, <1>17, <1>18

\* What is served last of a call is its end: then nothing of it is fed.
LEMMA EndsCallStep ==
  ASSUME RoutingInv, NEW i \in 1..Len(calls), NEW new, EndsCall(i, new)
  PROVE  RoutingInv'
<1> USE DEF RoutingInv
<1>1. /\ Serves(new) /\ owed' = owed /\ answers' = answers
      /\ calls[i].handle = "cancelled" /\ Head(toServer) = EndFrame(i)
      /\ \A g \in Frames(new) : Identify(g) \in {Response(Num(i)), Unknown} /\ ~IsBeat(g)
      /\ feed' = feed \ TopicsOf(i)
  BY DEF EndsCall, Ends
<1>2. /\ toServer # <<>> /\ toServer' = Tail(toServer) /\ IsQueue(new) /\ toClient' = toClient \o new
      /\ UNCHANGED <<dialect, calls, pending, subscriptions, running, last, unasked, pushes>>
  BY <1>1 DEF Serves, client
<1>3. /\ CallInv' /\ RouteInv' /\ LiveInv' /\ ServerInv' /\ OnceInv'
      /\ IsQueue(toServer') /\ IsQueue(toClient')
      /\ Frames(toServer) = Frames(toServer') \cup {EndFrame(i)}
      /\ Frames(toClient') = Frames(toClient) \cup Frames(new)
      /\ \A k \in 1..Len(calls) :
            AskFrame(k)' = AskFrame(k) /\ EndFrame(k)' = EndFrame(k) /\ TopicsOf(k)' = TopicsOf(k)
      /\ \A f : Identify(f)' = Identify(f) /\ Ok(f)' = Ok(f) /\ (Pushed(f)' <=> Pushed(f))
  BY <1>1, ServesStep
<1>4. i \in Ids /\ calls[i].outcome # "none"
  BY <1>1, CallFields DEF CallInv
<1>5. TypeInv'
  BY <1>1, <1>2, <1>3 DEF TypeInv
<1>6. WaitInv' /\ AnswersInv'
  BY <1>1, <1>2, <1>3 DEF WaitInv, AnswersInv
<1>7. ClientInv'
  <2> SUFFICES ASSUME NEW f \in Frames(toClient')
               PROVE
               /\ \A k \in Ids : Identify(f) = Response(Num(k)) =>
                   k \in 1..Len(calls) /\ (calls[k].outcome = "none" => Ok(f) \in answers[k])
               /\ Identify(f).kind = "PushMessage" =>
                   \/ dialect # "binance_api" /\ Pushed(f)
                   \/ /\ dialect = "kraken" /\ Identify(f) = Push("status")
                      /\ ~Has(f, "data") /\ ~Has(f, "result")
               /\ IsBeat(f) => dialect = "cryptocom" /\ \E x \in 1..MaxUnasked : f = Beat(x)
    BY <1>1, <1>2, <1>3 DEF ClientInv
  <2>1. CASE f \in Frames(toClient)
    BY <2>1 DEF ClientInv
  <2>2. CASE f \in Frames(new)
    BY <1>1, <1>4, <2>2, Kinds, Values
  <2> QED
    BY <1>3, <2>1, <2>2
<1>8. VerdictReaches'
  BY <1>1, <1>2 DEF VerdictReaches
<1>9. RepliesInv'
  BY <1>1, <1>2, <1>3 DEF RepliesInv
<1>10. FedInv'
  <2> SUFFICES ASSUME NEW t \in feed'
               PROVE  \E k \in 1..Len(calls) :
                        /\ calls[k].channel # NoChannel
                        /\ t \in TopicsOf(k) /\ TRUE \in answers[k]
                        /\ \/ calls[k].outcome = "none"
                           \/ calls[k].outcome = "failed" /\ TRUE \in answers[k]
                           \/ calls[k].handle = "active"
                           \/ calls[k].handle = "cancelled" /\ EndFrame(k) \in Frames(toServer')
    BY <1>1, <1>2, <1>3 DEF FedInv, PartlyRefused
  <2>1. PICK k \in 1..Len(calls) :
               /\ calls[k].channel # NoChannel
               /\ t \in TopicsOf(k) /\ TRUE \in answers[k]
               /\ \/ calls[k].outcome = "none"
                  \/ PartlyRefused(k)
                  \/ calls[k].handle = "active"
                  \/ calls[k].handle = "cancelled" /\ EndFrame(k) \in Frames(toServer)
    BY <1>1 DEF FedInv
  <2>2. TopicsOf(k) # TopicsOf(i)
    BY <1>1, <2>1
  <2>3. calls[k].handle = "cancelled" => EndFrame(k) # EndFrame(i)
    BY <1>1, <2>2, EndFrames DEF TopicsOf
  <2> QED
    BY <1>3, <2>1, <2>3 DEF PartlyRefused
<1>11. HeartbeatInv'
  <2>1. ~IsBeat(Head(toServer))
    BY <1>1, EndFrames
  <2>2. BeatIds(toServer) = BeatIds(toServer') /\ InOrder(toServer')
    <3>1. IsQueue(toServer) /\ InOrder(toServer) /\ toServer # <<>>
      BY <1>2 DEF TypeInv, HeartbeatInv
    <3> QED
      BY <1>2, <2>1, <3>1, BeatsTail
  <2>3. BeatIds(toClient') = BeatIds(toClient) /\ InOrder(toClient')
    BY <1>1, <1>2, BeatsConcat DEF TypeInv, HeartbeatInv
  <2> QED
    BY <1>1, <1>2, <2>2, <2>3 DEF HeartbeatInv
<1> QED
  BY <1>3, <1>5, <1>6, <1>7, <1>8, <1>9, <1>10, <1>11

\* What is left owed when the oldest is answered.
LEMMA OwedTail ==
  ASSUME TypeInv, owed # <<>>
  PROVE  /\ Len(owed) \in Nat /\ Len(owed) > 0 /\ Head(owed) = owed[1]
         /\ Tail(owed) \in Seq(1..MaxUnasked) /\ Len(Tail(owed)) = Len(owed) - 1
         /\ \A k \in 1..Len(Tail(owed)) : Tail(owed)[k] = owed[k + 1]
BY HeadTailProperties, EmptySeq, LenProperties DEF TypeInv

LEMMA OwedIds ==
  ASSUME TypeInv
  PROVE  Len(owed) \in Nat /\ \A k \in 1..Len(owed) : owed[k] \in 1..MaxUnasked /\ owed[k] \in Nat
BY ElementOfSeq, LenProperties, BoundsAssumption DEF TypeInv

LEMMA TakesReplyStep ==
  ASSUME RoutingInv, NEW x \in 1..MaxUnasked, TakesReply(x)
  PROVE  RoutingInv'
<1> USE DEF RoutingInv
<1>1. /\ Serves(<<>>) /\ feed' = feed /\ answers' = answers /\ Head(toServer) = Reply(x)
      /\ owed' = IF owed # <<>> /\ Num(x) = Num(Head(owed)) THEN Tail(owed) ELSE owed
  BY DEF TakesReply
<1>2. /\ toServer # <<>> /\ toServer' = Tail(toServer)
      /\ UNCHANGED <<dialect, calls, pending, subscriptions, running, last, unasked, pushes>>
  BY <1>1 DEF Serves, client
<1>3. /\ CallInv' /\ RouteInv' /\ LiveInv' /\ ServerInv' /\ OnceInv'
      /\ IsQueue(toServer') /\ IsQueue(toClient')
      /\ Frames(toServer) = Frames(toServer') \cup {Reply(x)}
      /\ Frames(toClient') = Frames(toClient)
      /\ \A k \in 1..Len(calls) :
            AskFrame(k)' = AskFrame(k) /\ EndFrame(k)' = EndFrame(k) /\ TopicsOf(k)' = TopicsOf(k)
      /\ \A f : Identify(f)' = Identify(f) /\ Ok(f)' = Ok(f) /\ (Pushed(f)' <=> Pushed(f))
  BY <1>1, ServesStep, QueueEmpty
<1>4. toClient' = toClient
  <2>1. toClient \in Seq(Frames(toClient))
    BY QueueIsSeq DEF TypeInv
  <2> QED
    BY <1>1, <2>1, ConcatEmptySeq DEF Serves
<1>5. x \in Nat /\ Len(owed) \in Nat
  BY BoundsAssumption, OwedIds
<1>6. /\ InOrder(toServer') /\ BeatIds(toServer) = BeatIds(toServer') \cup {x}
      /\ \A y \in BeatIds(toServer') : x < y
  <2>1. IsBeat(Reply(x)) /\ \A y \in Nat : Reply(x).id = Num(y) <=> x = y
    BY Beats, Values
  <2>2. IsQueue(toServer) /\ InOrder(toServer) /\ toServer # <<>>
    BY <1>2 DEF TypeInv, HeartbeatInv
  <2> DEFINE e == Reply(x)
  <2> HIDE DEF e
  <2>3. /\ InOrder(toServer')
        /\ BeatIds(toServer) = BeatIds(toServer') \cup {y \in Nat : IsBeat(e) /\ e.id = Num(y)}
        /\ \A y \in Nat : IsBeat(e) /\ e.id = Num(y) => \A z \in BeatIds(toServer') : y < z
    BY <1>1, <1>2, <2>2, BeatsTail DEF e
  <2> QED
    BY <1>5, <2>1, <2>3 DEF e
<1>7. BeatIds(toServer) \cup BeatIds(toClient) = {owed[k] : k \in 1..Len(owed)}
  BY DEF HeartbeatInv
<1>8. \A y \in BeatIds(toClient) : x < y
  BY <1>6 DEF HeartbeatInv
<1>9. PICK n \in 1..Len(owed) : owed[n] = x
  BY <1>6, <1>7
<1>10. 1 \in 1..Len(owed) /\ owed # <<>>
  BY <1>5, <1>9
<1>11. owed[1] = x
  <2> SUFFICES ASSUME owed[1] # x PROVE FALSE
    OBVIOUS
  <2>1. owed[1] < x /\ owed[1] \in Nat
    BY <1>5, <1>9, <1>10, OwedIds DEF HeartbeatInv
  <2>2. owed[1] \in BeatIds(toServer') \cup BeatIds(toClient)
    BY <1>6, <1>7, <1>10
  <2>3. x < owed[1]
    BY <1>6, <1>8, <2>2
  <2> QED
    BY <1>5, <2>1, <2>3
<1>12. /\ owed' = Tail(owed) /\ owed' \in Seq(1..MaxUnasked) /\ Len(owed') = Len(owed) - 1
       /\ \A k \in 1..Len(owed') : owed'[k] = owed[k + 1]
  BY <1>1, <1>10, <1>11, OwedTail
<1>13. TypeInv'
  BY <1>1, <1>2, <1>3, <1>12 DEF TypeInv
<1>14. WaitInv' /\ AnswersInv' /\ VerdictReaches'
  BY <1>1, <1>2, <1>3 DEF WaitInv, AnswersInv, VerdictReaches
<1>15. ClientInv'
  BY <1>1, <1>2, <1>3 DEF ClientInv
<1>16. RepliesInv'
  BY <1>1, <1>2, <1>3 DEF RepliesInv
<1>17. FedInv'
  <2>1. \A k \in 1..Len(calls) : calls[k].handle = "cancelled" => EndFrame(k) # Reply(x)
    BY EndFrames, Beats
  <2>2. \A k \in 1..Len(calls) : calls[k].handle = "cancelled" /\ EndFrame(k) \in Frames(toServer) =>
            EndFrame(k) \in Frames(toServer')
    BY <1>3, <2>1
  <2> QED
    BY <1>1, <1>2, <1>3, <2>2, FedKept
<1>18. HeartbeatInv'
  <2>1. \A k \in 1..Len(owed) : k = 1 \/ (k - 1 \in 1..Len(owed') /\ k - 1 + 1 = k)
    BY <1>5, <1>12
  <2>2. \A k \in 1..Len(owed') : k + 1 \in 1..Len(owed) /\ k + 1 > 1
    BY <1>5, <1>12
  <2>3. ASSUME NEW y \in {owed[k] : k \in 1..Len(owed)}, y # x
        PROVE  y \in {owed'[k] : k \in 1..Len(owed')}
    <3>1. PICK k \in 1..Len(owed) : y = owed[k]
      BY <2>3
    <3>2. k - 1 \in 1..Len(owed') /\ k - 1 + 1 = k
      BY <1>11, <2>1, <2>3, <3>1
    <3>3. y = owed'[k - 1]
      BY <1>12, <3>1, <3>2
    <3> QED
      BY <3>2, <3>3
  <2>4. ASSUME NEW k \in 1..Len(owed') PROVE owed'[k] \in {owed[n1] : n1 \in 1..Len(owed)} /\ owed'[k] > x
    <3>1. k + 1 \in 1..Len(owed) /\ owed'[k] = owed[k + 1] /\ 1 < k + 1
      BY <1>12, <2>2
    <3>2. owed[1] < owed[k + 1] /\ owed[k + 1] \in Nat
      BY <1>10, <3>1, OwedIds DEF HeartbeatInv
    <3> QED
      BY <1>5, <1>11, <3>1, <3>2
  <2>5. BeatIds(toServer') \cup BeatIds(toClient') \subseteq {owed'[k] : k \in 1..Len(owed')}
    <3> SUFFICES ASSUME NEW y \in BeatIds(toServer') \cup BeatIds(toClient)
                 PROVE  y \in {owed'[k] : k \in 1..Len(owed')}
      BY <1>4
    <3>1. y \in {owed[k] : k \in 1..Len(owed)} /\ x < y
      BY <1>6, <1>7, <1>8
    <3>2. y # x
      BY <1>5, <3>1
    <3> QED
      BY <2>3, <3>1, <3>2
  <2>6. {owed'[k] : k \in 1..Len(owed')} \subseteq BeatIds(toServer') \cup BeatIds(toClient')
    <3> SUFFICES ASSUME NEW k \in 1..Len(owed')
                 PROVE  owed'[k] \in BeatIds(toServer') \cup BeatIds(toClient)
      BY <1>4
    <3>1. owed'[k] \in BeatIds(toServer') \cup BeatIds(toClient) \cup {x}
      BY <1>6, <1>7, <2>4
    <3>2. owed'[k] # x
      BY <1>5, <2>4
    <3> QED
      BY <3>1, <3>2
  <2>7. \A k \in 1..Len(owed') : owed'[k] <= unasked'
    BY <1>2, <1>12, <2>2 DEF HeartbeatInv
  <2>8. ASSUME NEW k \in 1..Len(owed'), NEW l \in 1..Len(owed'), k < l PROVE owed'[k] < owed'[l]
    <3>1. k + 1 \in 1..Len(owed) /\ l + 1 \in 1..Len(owed) /\ k + 1 < l + 1
      BY <2>2, <2>8
    <3>2. owed'[k] = owed[k + 1] /\ owed'[l] = owed[l + 1]
      BY <1>12
    <3> QED
      BY <3>1, <3>2 DEF HeartbeatInv
  <2>9. \A y \in BeatIds(toServer'), z \in BeatIds(toClient') : y < z
    BY <1>4, <1>6 DEF HeartbeatInv
  <2>10. InOrder(toClient')
    BY <1>4 DEF HeartbeatInv
  <2> QED
    BY <1>6, <2>5, <2>6, <2>7, <2>8, <2>9, <2>10 DEF HeartbeatInv
<1> QED
  BY <1>3, <1>13, <1>14, <1>15, <1>16, <1>17, <1>18

\* A frame that is the answer to no call.
Adds(g) ==
    /\ toClient' = toClient \o <<g>>
    /\ UNCHANGED <<dialect, client, last, toServer, feed, answers>>
    /\ unasked' \in 0..MaxUnasked /\ unasked <= unasked' /\ pushes' \in 0..MaxPushes
    /\ \A n : Identify(g) # Response(Num(n))
    /\ Identify(g).kind = "PushMessage" =>
        \/ dialect # "binance_api" /\ Pushed(g)
        \/ /\ dialect = "kraken" /\ Identify(g) = Push("status")
           /\ ~Has(g, "data") /\ ~Has(g, "result")

\* It changes nothing that the client waits for.
LEMMA AddsStep ==
  ASSUME RoutingInv, NEW g, Adds(g), owed' \in Seq(1..MaxUnasked),
         IsBeat(g) => dialect = "cryptocom" /\ \E x \in 1..MaxUnasked : g = Beat(x),
         HeartbeatInv'
  PROVE  RoutingInv'
<1> USE DEF RoutingInv
<1>1. /\ UNCHANGED <<dialect, calls, pending, subscriptions, running, last, toServer, feed, answers>>
      /\ toClient' = toClient \o <<g>>
  BY DEF Adds, client
<1>2. IsQueue(toClient') /\ Frames(toClient') = Frames(toClient) \cup {g}
  BY <1>1, QueueConcat, SingleFrame DEF TypeInv
<1>3. /\ CallInv' /\ RouteInv' /\ LiveInv'
      /\ \A k \in 1..Len(calls) :
            AskFrame(k)' = AskFrame(k) /\ EndFrame(k)' = EndFrame(k) /\ TopicsOf(k)' = TopicsOf(k)
      /\ \A f, k : Ends(f, k)' <=> Ends(f, k)
  BY <1>1, CallsKept
<1>4. \A f : Identify(f)' = Identify(f) /\ Ok(f)' = Ok(f) /\ (Pushed(f)' <=> Pushed(f))
  BY <1>1, FrameStable DEF Pushed
<1>5. TypeInv'
  BY <1>1, <1>2 DEF TypeInv, Adds
<1>6. ServerInv'
  BY <1>1, <1>3 DEF ServerInv
<1>7. WaitInv' /\ OnceInv'
  BY <1>1, <1>3 DEF WaitInv, OnceInv
<1>8. AnswersInv' /\ VerdictReaches'
  BY <1>1 DEF AnswersInv, VerdictReaches
<1>9. ClientInv'
  <2> SUFFICES ASSUME NEW f \in Frames(toClient')
               PROVE
               /\ \A k \in Ids : Identify(f) = Response(Num(k)) =>
                   k \in 1..Len(calls) /\ (calls[k].outcome = "none" => Ok(f) \in answers[k])
               /\ Identify(f).kind = "PushMessage" =>
                   \/ dialect # "binance_api" /\ Pushed(f)
                   \/ /\ dialect = "kraken" /\ Identify(f) = Push("status")
                      /\ ~Has(f, "data") /\ ~Has(f, "result")
               /\ IsBeat(f) => dialect = "cryptocom" /\ \E x \in 1..MaxUnasked : f = Beat(x)
    BY <1>1, <1>4 DEF ClientInv
  <2>1. CASE f \in Frames(toClient)
    BY <2>1 DEF ClientInv
  <2>2. CASE f = g
    BY <2>2 DEF Adds
  <2> QED
    BY <1>2, <2>1, <2>2
<1>10. RepliesInv'
  BY <1>1, <1>2, <1>4 DEF RepliesInv
<1>11. FedInv'
  BY <1>1, <1>3, FedKept
<1> QED
  BY <1>3, <1>5, <1>6, <1>7, <1>8, <1>9, <1>10, <1>11

LEMMA QuietStep ==
  ASSUME RoutingInv, NEW g, Adds(g), ~IsBeat(g), owed' = owed
  PROVE  RoutingInv'
<1>1. toClient' = toClient \o <<g>> /\ toServer' = toServer
  BY DEF Adds
<1>2. BeatIds(toClient') = BeatIds(toClient) /\ InOrder(toClient')
  <2>1. IsQueue(toClient) /\ InOrder(toClient) /\ IsQueue(<<g>>) /\ \A f \in Frames(<<g>>) : ~IsBeat(f)
    BY SingleFrame DEF RoutingInv, TypeInv, HeartbeatInv
  <2> QED
    BY <1>1, <2>1, BeatsConcat
<1>3. unasked <= unasked' /\ unasked \in Nat /\ unasked' \in Nat
  BY BoundsAssumption DEF Adds, RoutingInv, TypeInv
<1>4. \A k \in 1..Len(owed) : owed[k] <= unasked'
  <2> TAKE k \in 1..Len(owed)
  <2>1. owed[k] \in Nat /\ owed[k] <= unasked
    BY OwedIds DEF RoutingInv, HeartbeatInv
  <2> QED
    BY <1>3, <2>1
<1>5. HeartbeatInv'
  BY <1>1, <1>2, <1>4 DEF RoutingInv, HeartbeatInv
<1>6. owed' \in Seq(1..MaxUnasked)
  BY DEF RoutingInv, TypeInv
<1> QED
  BY <1>5, <1>6, AddsStep

LEMMA PushesStep ==
  ASSUME RoutingInv, Pushes
  PROVE  RoutingInv'
<1> USE DEF RoutingInv
<1>1. PICK t \in feed, shape \in Shapes : Send(<<PushFrame(t[1], t[2], shape)>>)
  BY DEF Pushes
<1>2. PICK k \in 1..Len(calls) : calls[k].channel # NoChannel /\ t \in TopicsOf(k)
  BY DEF FedInv
<1>3. dialect \in {"kraken", "binance_stream", "cryptocom"}
  BY <1>2, OneDialect DEF CallInv
<1> DEFINE g == PushFrame(t[1], t[2], shape)
<1>4. /\ Identify(g) = Push(IF dialect = "kraken" THEN t[1] ELSE StreamName(t[1], t[2]))
      /\ ~IsBeat(g)
  BY <1>3, PushFrames
<1>5. Pushed(g)
  BY DEF Pushed, TypeInv
<1>6. pushes' \in 0..MaxPushes
  BY BoundsAssumption DEF Pushes, TypeInv
<1>7. unasked' \in 0..MaxUnasked /\ unasked <= unasked'
  BY BoundsAssumption DEF Pushes, TypeInv
<1>8. toClient' = toClient \o <<g>>
  BY <1>1 DEF Send
<1> HIDE DEF g
<1>9. \A n : Identify(g) # Response(Num(n))
  BY <1>4, Kinds
<1>10. Adds(g)
  BY <1>3, <1>5, <1>6, <1>7, <1>8, <1>9 DEF Adds, Pushes
<1>11. owed' = owed
  BY DEF Pushes
<1> QED
  BY <1>4, <1>10, <1>11, QuietStep

LEMMA IdleStep ==
  ASSUME RoutingInv, NEW g, Idle(g), Unasked(g), owed' = owed
  PROVE  RoutingInv'
<1>1. unasked' \in 0..MaxUnasked /\ unasked <= unasked' /\ pushes' \in 0..MaxPushes
  BY BoundsAssumption DEF Unasked, RoutingInv, TypeInv
<1>2. toClient' = toClient \o <<g>>
  BY DEF Unasked, Send
<1>3. Adds(g)
  BY <1>1, <1>2 DEF Idle, Unasked, Adds
<1> QED
  BY <1>3, QuietStep DEF Idle

\* A new heartbeat has the highest id, and is the last to be answered.
LEMMA BeatsHeartStep ==
  ASSUME RoutingInv, BeatsHeart
  PROVE  RoutingInv'
<1> USE DEF RoutingInv
<1> DEFINE x == unasked + 1 g == Beat(x)
<1>1. dialect = "cryptocom" /\ Unasked(g) /\ owed' = Append(owed, x)
  BY DEF BeatsHeart, Beat
<1>2. unasked \in Nat /\ x \in 1..MaxUnasked /\ unasked' = x /\ pushes' \in 0..MaxPushes
  BY <1>1, BoundsAssumption DEF Unasked, TypeInv
<1>3. toClient' = toClient \o <<g>> /\ toServer' = toServer
  BY <1>1 DEF Unasked, Send
<1>4. IsBeat(g) /\ g.id = Num(x) /\ Identify(g) = Unknown
  BY <1>1, Beats
<1>5. /\ owed' \in Seq(1..MaxUnasked) /\ Len(owed') = Len(owed) + 1 /\ Len(owed) \in Nat
      /\ \A k \in 1..Len(owed) : owed'[k] = owed[k] /\ owed[k] \in Nat /\ owed[k] <= unasked
      /\ owed'[Len(owed) + 1] = x
  BY <1>1, <1>2, AppendProperties, OwedIds DEF TypeInv, HeartbeatInv
<1> HIDE DEF x, g
<1>6. Adds(g)
  <2>1. unasked <= unasked' /\ unasked' \in 0..MaxUnasked
    BY <1>2 DEF x
  <2>2. (\A n : Identify(g) # Response(Num(n))) /\ Identify(g).kind # "PushMessage"
    BY <1>4, Kinds
  <2> QED
    BY <1>1, <1>2, <1>3, <2>1, <2>2 DEF Adds, Unasked
<1>7. \A y \in BeatIds(toServer) \cup BeatIds(toClient) : y \in Nat /\ y < x
  <2> SUFFICES ASSUME NEW k \in 1..Len(owed) PROVE owed[k] \in Nat /\ owed[k] < x
    BY DEF HeartbeatInv
  <2> QED
    BY <1>2, <1>5 DEF x
<1>8. /\ InOrder(toClient')
      /\ BeatIds(toClient') = BeatIds(toClient) \cup {x}
  <2>1. IsQueue(toClient) /\ InOrder(toClient)
    BY DEF TypeInv, HeartbeatInv
  <2>2. toClient' = Append(toClient, g)
    <3>1. toClient \in Seq(Frames(toClient) \cup {g}) /\ g \in Frames(toClient) \cup {g}
      BY <2>1, QueueIsSeq, SeqMonotonic
    <3> QED
      BY <1>3, <3>1, AppendIsConcat
  <2>3. x \in Nat /\ \A y \in Nat : g.id = Num(y) <=> y = x
    BY <1>2, <1>4, BoundsAssumption, Values DEF x
  <2>4. IsBeat(g) => \E z \in Nat : g.id = Num(z) /\ \A y \in BeatIds(toClient) : y < z
    BY <1>4, <1>7, <2>3
  <2>5. /\ InOrder(toClient')
        /\ BeatIds(toClient') = BeatIds(toClient) \cup {y \in Nat : IsBeat(g) /\ g.id = Num(y)}
    BY <2>1, <2>2, <2>4, BeatsAppend
  <2> QED
    BY <1>4, <2>3, <2>5
<1>9. HeartbeatInv'
  <2>1. \A k \in 1..Len(owed') : k \in 1..Len(owed) \/ k = Len(owed) + 1
    BY <1>5
  <2>2. 1..Len(owed') = 1..Len(owed) \cup {Len(owed) + 1}
    BY <1>5
  <2>3. {owed'[k] : k \in 1..Len(owed')} = {owed[k] : k \in 1..Len(owed)} \cup {x}
    BY <1>5, <2>2
  <2>4. BeatIds(toServer') \cup BeatIds(toClient') = {owed'[k] : k \in 1..Len(owed')}
    BY <1>3, <1>8, <2>3 DEF HeartbeatInv
  <2>5. \A k \in 1..Len(owed') : owed'[k] <= unasked'
    <3> TAKE k \in 1..Len(owed')
    <3>1. CASE k \in 1..Len(owed)
      BY <1>2, <1>5, <3>1 DEF x
    <3>2. CASE k = Len(owed) + 1
      BY <1>2, <1>5, <3>2 DEF x
    <3> QED
      BY <2>1, <3>1, <3>2
  <2>6. ASSUME NEW k \in 1..Len(owed'), NEW l \in 1..Len(owed'), k < l PROVE owed'[k] < owed'[l]
    <3>1. k \in 1..Len(owed)
      BY <1>5, <2>6
    <3>2. CASE l \in 1..Len(owed)
      BY <1>5, <2>6, <3>1, <3>2 DEF HeartbeatInv
    <3>3. CASE l = Len(owed) + 1
      BY <1>2, <1>5, <3>1, <3>3 DEF x
    <3> QED
      BY <2>1, <3>2, <3>3
  <2>7. \A y \in BeatIds(toServer'), z \in BeatIds(toClient') : y < z
    BY <1>3, <1>7, <1>8 DEF HeartbeatInv
  <2>8. InOrder(toServer')
    BY <1>3 DEF HeartbeatInv
  <2> QED
    BY <1>8, <2>4, <2>5, <2>6, <2>7, <2>8 DEF HeartbeatInv
<1>10. IsBeat(g) => dialect = "cryptocom" /\ \E y \in 1..MaxUnasked : g = Beat(y)
  BY <1>1, <1>2 DEF g
<1> QED
  BY <1>5, <1>6, <1>9, <1>10, AddsStep

\* All steps of the exchange keep the invariant.
LEMMA ExchangeStep ==
  ASSUME RoutingInv, Exchange
  PROVE  RoutingInv'
<1>1. CASE KrakenServesSubscribe
  BY <1>1, KrakenServesEffect, AnswersCallStep DEF RoutingInv
<1>2. CASE ServesSubscribe
  BY <1>2, ServesSubscribeEffect, AnswersCallStep DEF RoutingInv
<1>3. CASE ServesRequest
  BY <1>3, ServesRequestEffect, AnswersCallStep DEF RoutingInv
<1>4. CASE KrakenServesUnsubscribe
  BY <1>4, KrakenEndsEffect, EndsCallStep DEF RoutingInv
<1>5. CASE ServesUnsubscribe
  BY <1>5, EndsEffect, EndsCallStep DEF RoutingInv
<1>6. CASE ReceivesHeartbeatReply
  BY <1>6, ReplyEffect, TakesReplyStep DEF RoutingInv
<1>7. CASE Pushes
  BY <1>7, PushesStep
<1>8. CASE BeatsHeart
  BY <1>8, BeatsHeartStep
<1>9. CASE Notifies
  <2>1. Idle(Notice)
    BY Notices, OneDialect DEF RoutingInv
  <2> QED
    BY <1>9, <2>1, IdleStep DEF Notifies
<1>10. CASE Blunders
  <2>1. \A f \in Odd : Idle(f)
    BY OddFrames, OneDialect DEF RoutingInv
  <2> QED
    BY <1>10, <2>1, IdleStep DEF Blunders
<1> QED
  BY <1>1, <1>2, <1>3, <1>4, <1>5, <1>6, <1>7, <1>8, <1>9, <1>10 DEF Exchange

-----------------------------------------------------------------------------
(* The application *)

\* A new call waits for its answer, and has no topic fed.
LEMMA IssueStep ==
  ASSUME RoutingInv, NEW i, i = Len(calls) + 1,
         NEW frame, NEW c \in Channels \cup {NoChannel}, NEW S \in SUBSET Symbols,
         Issue(frame, c, S),
         IF c = NoChannel THEN dialect # "binance_stream" /\ frame = RequestFrame(i)
         ELSE dialect # "binance_api" /\ S \in Selections /\ frame = SubscribeFrame(i, c, S)
  PROVE  RoutingInv'
<1> USE DEF RoutingInv
<1> DEFINE call == [channel |-> c, symbols |-> S, outcome |-> "none", handle |-> "none"]
<1>1. /\ running /\ Len(calls) < MaxRequests /\ calls' = Append(calls, call)
      /\ pending' = pending \cup {Num(i)} /\ toServer' = Append(toServer, frame)
      /\ last' = NoPush
      /\ UNCHANGED <<dialect, subscriptions, running, toClient, feed, answers, owed, unasked, pushes>>
  BY DEF Issue, exchange
<1>2. call \in CallType
  BY DEF CallType, Outcomes, Handles
<1>3. call.channel = c /\ call.symbols = S /\ call.outcome = "none" /\ call.handle = "none"
  OBVIOUS
<1> HIDE DEF call
<1>4. /\ calls' \in Seq(CallType) /\ Len(calls') = i /\ Len(calls) \in Nat
      /\ \A k \in 1..Len(calls) : calls'[k] = calls[k]
      /\ calls'[i] = call
  BY <1>1, <1>2, AppendProperties, LenProperties DEF TypeInv
<1>5. 1..Len(calls') = 1..Len(calls) \cup {i} /\ i \notin 1..Len(calls) /\ Len(calls') <= MaxRequests
  BY <1>1, <1>4, BoundsAssumption
<1>6. i \in Ids
  BY <1>1, <1>4, BoundsAssumption DEF Ids
<1>7. /\ RequestId(frame) = i /\ ~Unsubscribing(frame) /\ ~HeartbeatReply(frame) /\ ~IsBeat(frame)
  <2>1. CASE c = NoChannel
    <3>1. dialect \in {"kraken", "binance_api", "cryptocom"}
      BY <2>1, OneDialect
    <3> QED
      BY <2>1, <3>1, RequestFrames
  <2>2. CASE c # NoChannel
    <3>1. dialect \in {"kraken", "binance_stream", "cryptocom"}
      BY <2>2, OneDialect
    <3> QED
      BY <2>2, <3>1, SubscribeFrames
  <2> QED
    BY <2>1, <2>2
<1>8. \A k \in 1..Len(calls) :
        /\ AskFrame(k)' = AskFrame(k) /\ EndFrame(k)' = EndFrame(k) /\ Route(k)' = Route(k)
        /\ TopicsOf(k)' = TopicsOf(k)
  BY <1>1, <1>4, CallStable
<1>9. AskFrame(i)' = frame
  <2>1. calls'[i].channel = c /\ calls'[i].symbols = S
    BY <1>3, <1>4
  <2>2. RequestFrame(i)' = RequestFrame(i)
    BY <1>1, <1>4 DEF RequestFrame
  <2>3. SubscribeFrame(i, c, S)' = SubscribeFrame(i, c, S)
    BY <1>1, <1>4 DEF SubscribeFrame
  <2>4. CASE c = NoChannel
    BY <1>1, <2>1, <2>4 DEF AskFrame, RequestFrame
  <2>5. CASE c # NoChannel
    BY <1>1, <2>1, <2>5 DEF AskFrame, SubscribeFrame
  <2> QED
    BY <2>4, <2>5
<1>10. \A f : Identify(f)' = Identify(f) /\ Ok(f)' = Ok(f) /\ (Pushed(f)' <=> Pushed(f))
  BY <1>1, FrameStable DEF Pushed
<1>11. Selections' = Selections
  BY <1>1, FrameStable
<1>12. /\ IsQueue(toServer') /\ Len(toServer') = Len(toServer) + 1 /\ Len(toServer) \in Nat
       /\ \A n \in 1..Len(toServer) : toServer'[n] = toServer[n]
       /\ toServer'[Len(toServer) + 1] = frame
       /\ Frames(toServer') = Frames(toServer) \cup {frame}
  BY <1>1, QueueAppend DEF TypeInv, IsQueue
<1>13. frame \notin Frames(toServer)
  <2> SUFFICES ASSUME frame \in Frames(toServer) PROVE FALSE
    OBVIOUS
  <2>1. \/ \E k \in 1..Len(calls) : frame = AskFrame(k) \/ Ends(frame, k)
        \/ \E x \in 1..MaxUnasked : frame = Reply(x)
    BY DEF ServerInv
  <2>2. \A k \in 1..Len(calls) : frame # AskFrame(k)
    BY <1>5, <1>7, AskFrames
  <2>3. \A k \in 1..Len(calls) : ~Ends(frame, k)
    BY <1>7, EndFrames DEF Ends
  <2>4. \A x : frame # Reply(x)
    BY <1>7, Beats
  <2> QED
    BY <2>1, <2>2, <2>3, <2>4
<1>14. \A k \in 1..Len(calls) : frame # AskFrame(k)
  BY <1>5, <1>7, AskFrames
<1>15. answers[i] = {}
  BY <1>5, <1>6 DEF AnswersInv
<1>16. TypeInv'
  BY <1>1, <1>4, <1>5, <1>12 DEF TypeInv, NoPush
<1>17. CallInv'
  <2> SUFFICES ASSUME NEW k \in 1..Len(calls')
               PROVE
               /\ Num(k) \in pending' <=> calls'[k].outcome = "none"
               /\ IF calls'[k].channel = NoChannel THEN dialect # "binance_stream"
                  ELSE dialect # "binance_api" /\ calls'[k].symbols \in Selections
               /\ calls'[k].handle # "none" <=> calls'[k].outcome = "ok" /\ calls'[k].channel # NoChannel
    BY <1>1, <1>11 DEF CallInv
  <2>1. CASE k \in 1..Len(calls)
    <3>1. Num(k) # Num(i)
      BY <1>5, <2>1, Values
    <3> QED
      BY <1>1, <1>4, <2>1, <3>1 DEF CallInv
  <2>2. CASE k = i
    BY <1>1, <1>3, <1>4, <2>2
  <2> QED
    BY <1>5, <2>1, <2>2
<1>18. RouteInv'
  BY <1>1, <1>4, <1>5, <1>8 DEF RouteInv
<1>19. LiveInv'
  BY <1>1, <1>3, <1>4, <1>5, <1>8 DEF LiveInv
<1>20. \A k \in 1..Len(calls) : \A f : Ends(f, k)' <=> Ends(f, k)
  BY <1>4, <1>8 DEF Ends
<1>21. ServerInv'
  <2> SUFFICES ASSUME NEW f \in Frames(toServer')
               PROVE  \/ \E k \in 1..Len(calls') : f = AskFrame(k)' \/ Ends(f, k)'
                      \/ dialect = "cryptocom" /\ \E x \in 1..MaxUnasked : f = Reply(x)
    BY <1>1 DEF ServerInv
  <2>1. CASE f \in Frames(toServer)
    BY <1>5, <1>8, <1>20, <2>1 DEF ServerInv
  <2>2. CASE f = frame
    BY <1>5, <1>9, <2>2
  <2> QED
    BY <1>12, <2>1, <2>2
<1>22. WaitInv'
  BY <1>1, <1>3, <1>4, <1>5, <1>8, <1>9, <1>12, <1>14, <1>15 DEF WaitInv
<1>23. OnceInv'
  <2> SUFFICES ASSUME NEW k \in 1..Len(calls'), NEW m \in 1..Len(toServer'), NEW n \in 1..Len(toServer'),
                      toServer'[m] = AskFrame(k)', toServer'[n] = AskFrame(k)'
               PROVE  m = n
    BY DEF OnceInv
  <2>1. \A l \in 1..Len(toServer') : l \in 1..Len(toServer) \/ l = Len(toServer) + 1
    BY <1>12
  <2>2. CASE k = i
    <3>1. \A l \in 1..Len(toServer) : toServer'[l] # frame
      BY <1>12, <1>13 DEF Frames
    <3>2. toServer'[m] = frame /\ toServer'[n] = frame
      BY <1>9, <2>2
    <3> QED
      BY <2>1, <3>1, <3>2
  <2>3. CASE k \in 1..Len(calls)
    <3>1. AskFrame(k)' = AskFrame(k) /\ frame # AskFrame(k)
      BY <1>8, <1>14, <2>3
    <3>2. m \in 1..Len(toServer) /\ n \in 1..Len(toServer)
      BY <1>12, <2>1, <3>1
    <3> QED
      BY <1>12, <2>3, <3>1, <3>2 DEF OnceInv
  <2> QED
    BY <1>5, <2>2, <2>3
<1>24. AnswersInv'
  BY <1>1, <1>5 DEF AnswersInv
<1>25. ClientInv'
  BY <1>1, <1>4, <1>5, <1>10 DEF ClientInv
<1>26. VerdictReaches'
  BY <1>1, <1>3, <1>4, <1>5 DEF VerdictReaches
<1>27. RepliesInv'
  BY <1>1, <1>4, <1>5, <1>10, <1>15 DEF RepliesInv
<1>28. FedInv'
  <2>1. \A k \in 1..Len(calls) : PartlyRefused(k)' <=> PartlyRefused(k)
    BY <1>1, <1>4 DEF PartlyRefused
  <2> SUFFICES ASSUME NEW t \in feed
               PROVE  \E k \in 1..Len(calls') :
                        /\ calls'[k].channel # NoChannel
                        /\ t \in TopicsOf(k)' /\ TRUE \in answers[k]
                        /\ \/ calls'[k].outcome = "none"
                           \/ PartlyRefused(k)'
                           \/ calls'[k].handle = "active"
                           \/ calls'[k].handle = "cancelled" /\ EndFrame(k)' \in Frames(toServer')
    BY <1>1 DEF FedInv
  <2>2. PICK k \in 1..Len(calls) :
               /\ calls[k].channel # NoChannel
               /\ t \in TopicsOf(k) /\ TRUE \in answers[k]
               /\ \/ calls[k].outcome = "none"
                  \/ PartlyRefused(k)
                  \/ calls[k].handle = "active"
                  \/ calls[k].handle = "cancelled" /\ EndFrame(k) \in Frames(toServer)
    BY DEF FedInv
  <2>3. k \in 1..Len(calls') /\ calls'[k] = calls[k]
    BY <1>4, <1>5
  <2>4. EndFrame(k)' = EndFrame(k) /\ TopicsOf(k)' = TopicsOf(k)
    BY <1>8
  <2> QED
    BY <1>12, <2>1, <2>2, <2>3, <2>4
<1>29. HeartbeatInv'
  <2>1. IsQueue(toServer) /\ InOrder(toServer)
    BY DEF TypeInv, HeartbeatInv
  <2>2. /\ InOrder(toServer')
        /\ BeatIds(toServer') = BeatIds(toServer) \cup {x \in Nat : IsBeat(frame) /\ frame.id = Num(x)}
    BY <1>1, <1>7, <2>1, BeatsAppend
  <2>3. BeatIds(toServer') = BeatIds(toServer)
    BY <1>7, <2>2
  <2> QED
    BY <1>1, <2>2, <2>3 DEF HeartbeatInv
<1> QED
  BY <1>16, <1>17, <1>18, <1>19, <1>21, <1>22, <1>23, <1>24, <1>25, <1>26, <1>27, <1>28, <1>29

LEMMA SubscribeStep == ASSUME RoutingInv, Subscribe PROVE RoutingInv'
<1>1. PICK c \in Channels, S \in Selections : Issue(SubscribeFrame(Len(calls) + 1, c, S), c, S)
  BY DEF Subscribe
<1>2. S \in SUBSET Symbols /\ c # NoChannel /\ dialect # "binance_api"
  BY ChannelsAssumption DEF Selections, Subscribe
<1> QED
  BY <1>1, <1>2, IssueStep

LEMMA ExecuteStep == ASSUME RoutingInv, Execute PROVE RoutingInv'
BY IssueStep DEF Execute

\* A step that changes outcome and handle of one call.
Amends(i, o, h) ==
    /\ Len(calls') = Len(calls) /\ calls' \in Seq(CallType) /\ dialect' = dialect
    /\ \A k \in 1..Len(calls) :
        /\ calls'[k].channel = calls[k].channel /\ calls'[k].symbols = calls[k].symbols
        /\ k # i => calls'[k] = calls[k]
    /\ calls'[i].outcome = o /\ calls'[i].handle = h

LEMMA AmendsStable ==
  ASSUME RoutingInv, NEW i, NEW o, NEW h, Amends(i, o, h)
  PROVE  /\ \A k \in 1..Len(calls) :
              /\ AskFrame(k)' = AskFrame(k) /\ EndFrame(k)' = EndFrame(k) /\ Route(k)' = Route(k)
              /\ TopicsOf(k)' = TopicsOf(k)
         /\ Selections' = Selections
         /\ \A f : Identify(f)' = Identify(f) /\ Ok(f)' = Ok(f) /\ (Pushed(f)' <=> Pushed(f))
<1>1. dialect' = dialect
  BY DEF Amends
<1>2. \A f : Identify(f)' = Identify(f) /\ Ok(f)' = Ok(f) /\ (Pushed(f)' <=> Pushed(f))
  BY <1>1, FrameStable DEF Pushed
<1>3. Selections' = Selections
  BY <1>1, FrameStable
<1>4. \A k \in 1..Len(calls) :
              /\ AskFrame(k)' = AskFrame(k) /\ EndFrame(k)' = EndFrame(k) /\ Route(k)' = Route(k)
              /\ TopicsOf(k)' = TopicsOf(k)
  BY CallStable DEF Amends
<1> QED
  BY <1>2, <1>3, <1>4

\* Such a step leaves everything else about the calls.
LEMMA Amending ==
  ASSUME RoutingInv, dialect' = dialect, NEW i \in 1..Len(calls), NEW c \in CallType,
         c.channel = calls[i].channel, c.symbols = calls[i].symbols,
         calls' = [calls EXCEPT ![i] = c]
  PROVE  Amends(i, c.outcome, c.handle)
<1>1. calls \in [1..Len(calls) -> CallType] /\ calls \in Seq(CallType) /\ Len(calls) \in Nat
  BY LenProperties DEF RoutingInv, TypeInv
<1>2. [calls EXCEPT ![i] = c] \in Seq(CallType) /\ Len([calls EXCEPT ![i] = c]) = Len(calls)
  BY <1>1, ExceptSeq
<1>3. calls'[i] = c /\ \A k \in 1..Len(calls) : k # i => calls'[k] = calls[k]
  BY <1>1
<1> QED
  BY <1>2, <1>3 DEF Amends

\* A cancel takes the callback of its route, and sends the end of its call.
LEMMA CancelStep ==
  ASSUME RoutingInv, NEW i \in 1..Len(calls), Cancel(i)
  PROVE  RoutingInv'
<1> USE DEF RoutingInv
<1>1. /\ running /\ calls[i].handle = "active"
      /\ calls' = [calls EXCEPT ![i].handle = "cancelled"]
      /\ subscriptions' = Without(subscriptions, Route(i))
      /\ toServer' = Append(toServer, EndFrame(i))
      /\ last' = NoPush
      /\ UNCHANGED <<dialect, pending, running, toClient, feed, answers, owed, unasked, pushes>>
  BY DEF Cancel, exchange, Route, EndFrame
<1> DEFINE c == [calls[i] EXCEPT !.handle = "cancelled"]
<1>2. calls[i] \in CallType /\ calls \in [1..Len(calls) -> CallType]
  BY CallFields, LenProperties DEF TypeInv
<1>3. /\ c \in CallType /\ c.channel = calls[i].channel /\ c.symbols = calls[i].symbols
      /\ c.outcome = calls[i].outcome /\ c.handle = "cancelled"
  BY <1>2 DEF CallType, Handles
<1>4. calls' = [calls EXCEPT ![i] = c]
  BY <1>1, <1>2
<1> HIDE DEF c
<1>5. Amends(i, calls[i].outcome, "cancelled")
  BY <1>1, <1>3, <1>4, Amending
<1>6. /\ Len(calls') = Len(calls) /\ calls' \in Seq(CallType)
      /\ \A k \in 1..Len(calls) :
           /\ calls'[k].channel = calls[k].channel /\ calls'[k].symbols = calls[k].symbols
           /\ calls'[k].outcome = calls[k].outcome
           /\ k # i => calls'[k] = calls[k]
      /\ calls'[i].handle = "cancelled"
  BY <1>5 DEF Amends
<1>7. /\ \A k \in 1..Len(calls) :
              /\ AskFrame(k)' = AskFrame(k) /\ EndFrame(k)' = EndFrame(k) /\ Route(k)' = Route(k)
              /\ TopicsOf(k)' = TopicsOf(k)
      /\ Selections' = Selections
      /\ \A f : Identify(f)' = Identify(f) /\ Ok(f)' = Ok(f) /\ (Pushed(f)' <=> Pushed(f))
  BY <1>5, AmendsStable
<1>8. /\ IsQueue(toServer') /\ Len(toServer') = Len(toServer) + 1 /\ Len(toServer) \in Nat
      /\ \A n \in 1..Len(toServer) : toServer'[n] = toServer[n]
      /\ toServer'[Len(toServer) + 1] = EndFrame(i)
      /\ Frames(toServer') = Frames(toServer) \cup {EndFrame(i)}
  BY <1>1, QueueAppend DEF TypeInv, IsQueue
<1>9. ~IsBeat(EndFrame(i)) /\ Unsubscribing(EndFrame(i))
  BY <1>1, EndFrames
<1>10. \A k \in 1..Len(calls) : AskFrame(k) # EndFrame(i)
  BY <1>9, AskFrames
<1>11. TypeInv'
  BY <1>1, <1>6, <1>8 DEF TypeInv, NoPush
<1>12. CallInv'
  <2> SUFFICES ASSUME NEW k \in 1..Len(calls)
               PROVE
               /\ Num(k) \in pending <=> calls'[k].outcome = "none"
               /\ IF calls'[k].channel = NoChannel THEN dialect # "binance_stream"
                  ELSE dialect # "binance_api" /\ calls'[k].symbols \in Selections
               /\ calls'[k].handle # "none" <=> calls'[k].outcome = "ok" /\ calls'[k].channel # NoChannel
    BY <1>1, <1>6, <1>7 DEF CallInv
  <2> QED
    BY <1>1, <1>6 DEF CallInv
<1>13. RouteInv'
  <2> SUFFICES ASSUME NEW r \in DOMAIN subscriptions'
               PROVE  \E k \in 1..Len(calls) :
                        subscriptions'[r] = k /\ calls'[k].handle = "active" /\ Route(k)' = r
    BY <1>6 DEF RouteInv
  <2>1. r \in DOMAIN subscriptions /\ r # Route(i) /\ subscriptions'[r] = subscriptions[r]
    BY <1>1 DEF Without
  <2>2. PICK k \in 1..Len(calls) : k = subscriptions[r] /\ calls[k].handle = "active" /\ Route(k) = r
    BY <2>1 DEF RouteInv
  <2>3. k # i
    BY <2>1, <2>2
  <2>4. subscriptions'[r] = k /\ calls'[k] = calls[k] /\ Route(k)' = r
    BY <1>6, <1>7, <2>1, <2>2, <2>3
  <2> QED
    BY <2>2, <2>4
<1>14. LiveInv'
  <2> SUFFICES ASSUME NEW k \in 1..Len(calls), calls'[k].handle = "active"
               PROVE  \/ Route(k)' \in DOMAIN subscriptions'
                      \/ \E l \in 1..Len(calls) : calls'[l].handle = "cancelled" /\ Route(l)' = Route(k)'
    BY <1>6 DEF LiveInv
  <2>1. k # i /\ calls[k].handle = "active"
    BY <1>6
  <2>2. CASE Route(k) \in DOMAIN subscriptions
    <3>1. CASE Route(k) = Route(i)
      BY <1>6, <1>7, <3>1
    <3>2. CASE Route(k) # Route(i)
      <4>1. Route(k) \in DOMAIN subscriptions'
        BY <1>1, <2>2, <3>2 DEF Without
      <4> QED
        BY <1>7, <4>1
    <3> QED
      BY <3>1, <3>2
  <2>3. CASE Route(k) \notin DOMAIN subscriptions
    <3>1. PICK l \in 1..Len(calls) : calls[l].handle = "cancelled" /\ Route(l) = Route(k)
      BY <2>1, <2>3 DEF LiveInv
    <3>2. calls'[l].handle = "cancelled" /\ Route(l)' = Route(k)'
      BY <1>1, <1>6, <1>7, <3>1
    <3> QED
      BY <3>2
  <2> QED
    BY <2>2, <2>3
<1>15. \A k \in 1..Len(calls), f \in Frames(toServer) : Ends(f, k) => Ends(f, k)'
  BY <1>1, <1>6, <1>7 DEF Ends
<1>16. ServerInv'
  <2> SUFFICES ASSUME NEW f \in Frames(toServer')
               PROVE  \/ \E k \in 1..Len(calls) : f = AskFrame(k)' \/ Ends(f, k)'
                      \/ dialect = "cryptocom" /\ \E x \in 1..MaxUnasked : f = Reply(x)
    BY <1>1, <1>6 DEF ServerInv
  <2>1. CASE f \in Frames(toServer)
    BY <1>7, <1>15, <2>1 DEF ServerInv
  <2>2. CASE f = EndFrame(i)
    <3>1. Ends(f, i)'
      BY <1>6, <1>7, <2>2 DEF Ends
    <3> QED
      BY <3>1
  <2> QED
    BY <1>8, <2>1, <2>2
<1>17. WaitInv'
  BY <1>1, <1>6, <1>7, <1>8, <1>10 DEF WaitInv
<1>18. OnceInv'
  <2> SUFFICES ASSUME NEW k \in 1..Len(calls), NEW m \in 1..Len(toServer'), NEW n \in 1..Len(toServer'),
                      toServer'[m] = AskFrame(k)', toServer'[n] = AskFrame(k)'
               PROVE  m = n
    BY <1>6 DEF OnceInv
  <2>1. \A l \in 1..Len(toServer') : l \in 1..Len(toServer) \/ l = Len(toServer) + 1
    BY <1>8
  <2>2. AskFrame(k)' = AskFrame(k) /\ EndFrame(i) # AskFrame(k)
    BY <1>7, <1>10
  <2>3. m \in 1..Len(toServer) /\ n \in 1..Len(toServer)
    BY <1>8, <2>1, <2>2
  <2> QED
    BY <1>8, <2>2, <2>3 DEF OnceInv
<1>19. AnswersInv' /\ VerdictReaches'
  BY <1>1, <1>6 DEF AnswersInv, VerdictReaches
<1>20. ClientInv'
  BY <1>1, <1>6, <1>7 DEF ClientInv
<1>21. RepliesInv'
  BY <1>1, <1>6, <1>7 DEF RepliesInv
<1>22. FedInv'
  <2> SUFFICES ASSUME NEW t \in feed
               PROVE  \E k \in 1..Len(calls) :
                        /\ calls'[k].channel # NoChannel
                        /\ t \in TopicsOf(k)' /\ TRUE \in answers[k]
                        /\ \/ calls'[k].outcome = "none"
                           \/ calls'[k].outcome = "failed" /\ TRUE \in answers[k]
                           \/ calls'[k].handle = "active"
                           \/ calls'[k].handle = "cancelled" /\ EndFrame(k)' \in Frames(toServer')
    BY <1>1, <1>6 DEF FedInv, PartlyRefused
  <2>1. PICK k \in 1..Len(calls) :
               /\ calls[k].channel # NoChannel
               /\ t \in TopicsOf(k) /\ TRUE \in answers[k]
               /\ \/ calls[k].outcome = "none"
                  \/ PartlyRefused(k)
                  \/ calls[k].handle = "active"
                  \/ calls[k].handle = "cancelled" /\ EndFrame(k) \in Frames(toServer)
    BY DEF FedInv
  <2>2. calls'[k].channel # NoChannel /\ t \in TopicsOf(k)' /\ EndFrame(k)' = EndFrame(k)
    BY <1>6, <1>7, <2>1
  <2>3. CASE k = i
    BY <1>6, <1>8, <2>1, <2>2, <2>3
  <2>4. CASE k # i
    BY <1>6, <1>8, <2>1, <2>2, <2>4 DEF PartlyRefused
  <2> QED
    BY <2>3, <2>4
<1>23. HeartbeatInv'
  <2>1. IsQueue(toServer) /\ InOrder(toServer)
    BY DEF TypeInv, HeartbeatInv
  <2> DEFINE f == EndFrame(i)
  <2> HIDE DEF f
  <2>2. /\ InOrder(toServer')
        /\ BeatIds(toServer') = BeatIds(toServer) \cup {x \in Nat : IsBeat(f) /\ f.id = Num(x)}
    BY <1>1, <1>9, <2>1, BeatsAppend DEF f
  <2>3. BeatIds(toServer') = BeatIds(toServer)
    BY <1>9, <2>2 DEF f
  <2> QED
    BY <1>1, <2>2, <2>3 DEF HeartbeatInv
<1> QED
  BY <1>11, <1>12, <1>13, <1>14, <1>16, <1>17, <1>18, <1>19, <1>20, <1>21, <1>22, <1>23

-----------------------------------------------------------------------------
(* The receive thread *)

\* The receive thread takes a frame that settles no call and that no heartbeat is.
Skips ==
    /\ toClient # <<>> /\ toClient' = Tail(toClient)
    /\ UNCHANGED <<dialect, calls, pending, subscriptions, toServer, exchange>>
    /\ running' \in BOOLEAN /\ (running' => running)
    /\ last'.came_to \in {"nothing", "callback", "report", "dropped"}
    /\ ~IsBeat(Head(toClient))
    /\ \A i \in 1..Len(calls) :
        running' /\ calls[i].outcome = "none" => Identify(Head(toClient)) # Response(Num(i))

LEMMA ReceiveStep ==
  ASSUME RoutingInv, toClient # <<>>, toClient' = Tail(toClient)
  PROVE  /\ IsQueue(toClient') /\ Head(toClient) \in Frames(toClient)
         /\ Frames(toClient) = Frames(toClient') \cup {Head(toClient)}
BY QueueTail DEF RoutingInv, TypeInv

\* Nothing else depends on it.
LEMMA SkipsStep ==
  ASSUME RoutingInv, Skips
  PROVE  RoutingInv'
<1> USE DEF RoutingInv
<1>1. /\ toClient # <<>> /\ toClient' = Tail(toClient)
      /\ UNCHANGED <<dialect, calls, pending, subscriptions, toServer>>
      /\ UNCHANGED <<feed, answers, owed, unasked, pushes>>
  BY DEF Skips, exchange
<1>2. /\ IsQueue(toClient') /\ Frames(toClient) = Frames(toClient') \cup {Head(toClient)}
  BY <1>1, ReceiveStep
<1>3. /\ CallInv' /\ RouteInv' /\ LiveInv'
      /\ \A k \in 1..Len(calls) :
            AskFrame(k)' = AskFrame(k) /\ EndFrame(k)' = EndFrame(k) /\ TopicsOf(k)' = TopicsOf(k)
      /\ \A f, k : Ends(f, k)' <=> Ends(f, k)
  BY <1>1, CallsKept
<1>4. \A f : Identify(f)' = Identify(f) /\ Ok(f)' = Ok(f) /\ (Pushed(f)' <=> Pushed(f))
  BY <1>1, FrameStable DEF Pushed
<1>5. TypeInv'
  BY <1>1, <1>2 DEF TypeInv, Skips
<1>6. ServerInv' /\ WaitInv' /\ OnceInv'
  BY <1>1, <1>3 DEF ServerInv, WaitInv, OnceInv
<1>7. AnswersInv' /\ VerdictReaches'
  BY <1>1 DEF AnswersInv, VerdictReaches
<1>8. ClientInv'
  BY <1>1, <1>2, <1>4 DEF ClientInv
<1>9. RepliesInv'
  <2> SUFFICES ASSUME running', NEW k \in 1..Len(calls), calls[k].outcome = "none", answers[k] # {}
               PROVE  \E f \in Frames(toClient') : Identify(f) = Response(Num(k))
    BY <1>1, <1>4 DEF RepliesInv
  <2>1. PICK f \in Frames(toClient) : Identify(f) = Response(Num(k))
    BY DEF RepliesInv, Skips
  <2>2. f # Head(toClient)
    BY <2>1 DEF Skips
  <2> QED
    BY <1>2, <2>1, <2>2
<1>10. FedInv'
  BY <1>1, <1>3, FedKept
<1>11. HeartbeatInv'
  <2>1. IsQueue(toClient) /\ InOrder(toClient) /\ toClient # <<>> /\ ~IsBeat(Head(toClient))
    BY DEF TypeInv, HeartbeatInv, Skips
  <2>2. BeatIds(toClient) = BeatIds(toClient') /\ InOrder(toClient')
    BY <1>1, <2>1, BeatsTail
  <2> QED
    BY <1>1, <2>2 DEF HeartbeatInv
<1> QED
  BY <1>3, <1>5, <1>6, <1>7, <1>8, <1>9, <1>10, <1>11

\* What a client frame that is a heartbeat, or a response awaited, can be.
LEMMA HeadOfClient ==
  ASSUME RoutingInv, toClient # <<>>
  PROVE  LET j == Head(toClient) IN
         /\ j \in Frames(toClient)
         /\ IsBeat(j) => /\ dialect = "cryptocom" /\ Heartbeat(j) /\ Identify(j) = Unknown
                         /\ \E x \in 1..MaxUnasked : j = Beat(x)
         /\ Heartbeat(j) => IsBeat(j)
<1> DEFINE j == Head(toClient)
<1>1. j \in Frames(toClient)
  BY QueueTail DEF RoutingInv, TypeInv
<1> HIDE DEF j
<1>2. IsBeat(j) => dialect = "cryptocom" /\ \E x \in 1..MaxUnasked : j = Beat(x)
  BY <1>1 DEF RoutingInv, ClientInv
<1>3. Heartbeat(j) => IsBeat(j)
  BY DEF Heartbeat, IsBeat
<1> QED
  BY <1>1, <1>2, <1>3, Beats DEF j

LEMMA IoThrowsStep == ASSUME RoutingInv, IoThrows PROVE RoutingInv'
<1>1. Skips
  BY HeadOfClient, Kinds DEF IoThrows, Receive, Skips, NoPush
<1> QED
  BY <1>1, SkipsStep

LEMMA IoUnknownStep == ASSUME RoutingInv, IoUnknown PROVE RoutingInv'
<1>1. UNCHANGED <<calls, pending, subscriptions, running, toServer>> /\ last' = NoPush
  BY DEF IoUnknown, client
<1>2. Skips
  BY <1>1, HeadOfClient, Kinds DEF IoUnknown, Receive, Skips, NoPush, RoutingInv, TypeInv
<1> QED
  BY <1>2, SkipsStep

LEMMA IoPushStep == ASSUME RoutingInv, IoPush PROVE RoutingInv'
<1> DEFINE j == Head(toClient)
<1>1. /\ UNCHANGED <<dialect, exchange, calls, pending, subscriptions, running, toServer>>
      /\ toClient # <<>> /\ toClient' = Tail(toClient)
      /\ Identify(j).kind = "PushMessage"
  BY DEF IoPush, Receive, client
<1>2. last'.came_to \in {"nothing", "callback", "report", "dropped"}
  BY DEF IoPush, CameTo, NoPush
<1>3. ~IsBeat(j) /\ \A i : Identify(j) # Response(Num(i))
  BY <1>1, HeadOfClient, Kinds
<1> HIDE DEF j
<1>4. running' \in BOOLEAN /\ (running' => running)
  BY <1>1 DEF RoutingInv, TypeInv
<1>5. Skips
  BY <1>1, <1>2, <1>3, <1>4 DEF Skips, j
<1> QED
  BY <1>5, SkipsStep

\* The identifiers give nothing but the four kinds.
LEMMA Forms ==
  ASSUME NEW j, dialect \in {"kraken", "binance_stream", "binance_api", "cryptocom"}
  PROVE  \/ \E v : Identify(j) = Response(v) \/ Identify(j) = Push(v)
         \/ Identify(j) = Unknown \/ Identify(j) = Throws
<1>1. CASE dialect = "kraken"
  <2>1. Identify(j) = KrakenDescriptor(j)
    BY <1>1 DEF Identify
  <2> QED
    BY <2>1 DEF KrakenDescriptor
<1>2. CASE dialect = "binance_stream"
  <2>1. Identify(j) = BinanceStreamDescriptor(j)
    BY <1>2 DEF Identify
  <2>2. BinanceId(j) = Response(j.id) \/ BinanceId(j) = Throws
    BY DEF BinanceId
  <2> QED
    BY <2>1, <2>2 DEF BinanceStreamDescriptor
<1>3. CASE dialect = "binance_api"
  <2>1. Identify(j) = BinanceApiDescriptor(j)
    BY <1>3 DEF Identify
  <2> QED
    BY <2>1 DEF BinanceApiDescriptor, BinanceId
<1>4. CASE dialect = "cryptocom"
  <2>1. Identify(j) = CryptoComDescriptor(j)
    BY <1>4 DEF Identify
  <2>2. j.method \in Heartbeats => j.method # Str("subscribe") /\ IsStr(j.method)
    BY Values DEF Heartbeats
  <2>3. j.method = Str("subscribe") => IsStr(j.method)
    BY Values
  <2> QED
    BY <2>1, <2>2, <2>3 DEF CryptoComDescriptor
<1> QED
  BY <1>1, <1>2, <1>3, <1>4

LEMMA ResponseForm ==
  ASSUME RoutingInv, NEW j, Identify(j).kind = "MethodResponse"
  PROVE  Identify(j) = Response(Identify(j).correlation_id)
<1>1. dialect \in {"kraken", "binance_stream", "binance_api", "cryptocom"}
  BY OneDialect DEF RoutingInv
<1> QED
  BY <1>1, Forms, Kinds

LEMMA PushForm ==
  ASSUME RoutingInv, NEW j, Identify(j).kind = "PushMessage"
  PROVE  Identify(j) = Push(Identify(j).route_key)
<1>1. dialect \in {"kraken", "binance_stream", "binance_api", "cryptocom"}
  BY OneDialect DEF RoutingInv
<1> QED
  BY <1>1, Forms, Kinds

\* The answer to the oldest heartbeat follows the answers to the older ones.
LEMMA IoHeartbeatStep == ASSUME RoutingInv, IoHeartbeat PROVE RoutingInv'
<1> USE DEF RoutingInv
<1> DEFINE j == Head(toClient)
<1>1. /\ UNCHANGED <<dialect, calls, pending, subscriptions, running>>
      /\ UNCHANGED <<feed, answers, owed, unasked, pushes>>
      /\ toClient # <<>> /\ toClient' = Tail(toClient) /\ Heartbeat(j)
      /\ toServer' = Append(toServer, RespondTo(j)) /\ last' = NoPush
  BY DEF IoHeartbeat, Receive, client, exchange
<1>2. /\ IsBeat(j) /\ dialect = "cryptocom" /\ Identify(j) = Unknown
      /\ \E x \in 1..MaxUnasked : j = Beat(x)
  BY <1>1, HeadOfClient
<1>3. PICK x \in 1..MaxUnasked : j = Beat(x)
  BY <1>2
<1>4. /\ IsQueue(toClient') /\ Frames(toClient) = Frames(toClient') \cup {j}
  BY <1>1, ReceiveStep
<1>5. x \in Nat
  BY BoundsAssumption
<1>6. IsBeat(j) /\ j.id = Num(x)
  BY <1>3, Beats
<1> DEFINE r == Reply(x)
<1>7. RespondTo(j) = r /\ IsBeat(r) /\ r.id = Num(x) /\ HeartbeatReply(r)
  BY <1>3, Beats
<1>8. \A k \in 1..Len(calls) : AskFrame(k) # r
  BY AsksDiffer
<1> HIDE DEF j, r
<1>9. /\ IsQueue(toServer') /\ Len(toServer') = Len(toServer) + 1 /\ Len(toServer) \in Nat
      /\ \A n \in 1..Len(toServer) : toServer'[n] = toServer[n]
      /\ toServer'[Len(toServer) + 1] = r
      /\ Frames(toServer') = Frames(toServer) \cup {r}
  <2>1. IsQueue(toServer) /\ toServer' = Append(toServer, r)
    BY <1>1, <1>7 DEF TypeInv
  <2> QED
    BY <2>1, QueueAppend DEF IsQueue
<1>10. /\ CallInv' /\ RouteInv' /\ LiveInv'
       /\ \A k \in 1..Len(calls) :
            AskFrame(k)' = AskFrame(k) /\ EndFrame(k)' = EndFrame(k) /\ TopicsOf(k)' = TopicsOf(k)
       /\ \A f, k : Ends(f, k)' <=> Ends(f, k)
  BY <1>1, CallsKept
<1>11. \A f : Identify(f)' = Identify(f) /\ Ok(f)' = Ok(f) /\ (Pushed(f)' <=> Pushed(f))
  BY <1>1, FrameStable DEF Pushed
<1>12. TypeInv'
  BY <1>1, <1>4, <1>9 DEF TypeInv, NoPush
<1>13. ServerInv'
  <2> SUFFICES ASSUME NEW f \in Frames(toServer')
               PROVE  \/ \E k \in 1..Len(calls) : f = AskFrame(k) \/ Ends(f, k)
                      \/ dialect = "cryptocom" /\ \E y \in 1..MaxUnasked : f = Reply(y)
    BY <1>1, <1>10 DEF ServerInv
  <2>1. CASE f \in Frames(toServer)
    BY <2>1 DEF ServerInv
  <2>2. CASE f = r
    BY <1>2, <2>2 DEF r
  <2> QED
    BY <1>9, <2>1, <2>2
<1>14. WaitInv'
  BY <1>1, <1>8, <1>9, <1>10 DEF WaitInv
<1>15. OnceInv'
  <2> SUFFICES ASSUME NEW k \in 1..Len(calls), NEW m \in 1..Len(toServer'), NEW n \in 1..Len(toServer'),
                      toServer'[m] = AskFrame(k), toServer'[n] = AskFrame(k)
               PROVE  m = n
    BY <1>1, <1>10 DEF OnceInv
  <2>1. \A l \in 1..Len(toServer') : l \in 1..Len(toServer) \/ l = Len(toServer) + 1
    BY <1>9
  <2>2. m \in 1..Len(toServer) /\ n \in 1..Len(toServer)
    BY <1>8, <1>9, <2>1
  <2> QED
    BY <1>9, <2>2 DEF OnceInv
<1>16. AnswersInv' /\ VerdictReaches'
  BY <1>1 DEF AnswersInv, VerdictReaches
<1>17. ClientInv'
  BY <1>1, <1>4, <1>11 DEF ClientInv
<1>18. RepliesInv'
  <2> SUFFICES ASSUME running, NEW k \in 1..Len(calls), calls[k].outcome = "none", answers[k] # {}
               PROVE  \E f \in Frames(toClient') : Identify(f) = Response(Num(k))
    BY <1>1, <1>11 DEF RepliesInv
  <2>1. PICK f \in Frames(toClient) : Identify(f) = Response(Num(k))
    BY DEF RepliesInv
  <2>2. f # j
    BY <1>2, <2>1, Kinds
  <2> QED
    BY <1>4, <2>1, <2>2
<1>19. FedInv'
  BY <1>1, <1>9, <1>10, FedKept
<1>20. HeartbeatInv'
  <2>1. IsQueue(toClient) /\ InOrder(toClient) /\ toClient # <<>> /\ IsQueue(toServer) /\ InOrder(toServer)
    BY <1>1 DEF TypeInv, HeartbeatInv
  <2>2. \A y \in Nat : (j.id = Num(y) <=> y = x) /\ (r.id = Num(y) <=> y = x)
    BY <1>6, <1>7, Values
  <2>3. /\ InOrder(toClient')
        /\ BeatIds(toClient) = BeatIds(toClient') \cup {y \in Nat : IsBeat(j) /\ j.id = Num(y)}
        /\ \A y \in Nat : IsBeat(j) /\ j.id = Num(y) => \A z \in BeatIds(toClient') : y < z
    BY <1>1, <2>1, BeatsTail DEF j
  <2>4. BeatIds(toClient) = BeatIds(toClient') \cup {x} /\ \A z \in BeatIds(toClient') : x < z
    BY <1>5, <1>6, <2>2, <2>3
  <2>5. \A y \in BeatIds(toServer) : y < x
    BY <2>4 DEF HeartbeatInv
  <2>6. toServer' = Append(toServer, r)
    BY <1>1, <1>7
  <2>7. IsBeat(r) => \E z \in Nat : r.id = Num(z) /\ \A y \in BeatIds(toServer) : y < z
    BY <1>5, <1>7, <2>5
  <2>8. /\ InOrder(toServer')
        /\ BeatIds(toServer') = BeatIds(toServer) \cup {y \in Nat : IsBeat(r) /\ r.id = Num(y)}
    BY <2>1, <2>6, <2>7, BeatsAppend
  <2>9. BeatIds(toServer') = BeatIds(toServer) \cup {x}
    BY <1>5, <1>7, <2>2, <2>8
  <2>10. \A y \in BeatIds(toServer'), z \in BeatIds(toClient') : y < z
    BY <2>4, <2>9 DEF HeartbeatInv
  <2>11. BeatIds(toServer') \cup BeatIds(toClient') = BeatIds(toServer) \cup BeatIds(toClient)
    BY <2>4, <2>9
  <2> QED
    BY <1>1, <2>3, <2>8, <2>10, <2>11 DEF HeartbeatInv
<1> QED
  BY <1>10, <1>12, <1>13, <1>14, <1>15, <1>16, <1>17, <1>18, <1>19, <1>20

\* The answer to a call that waits settles it as the exchange decided; of a
\* subscription it installs the callback.
LEMMA ResolvedStep ==
  ASSUME RoutingInv, NEW i \in 1..Len(calls), NEW ok,
         toClient # <<>>, toClient' = Tail(toClient),
         Identify(Head(toClient)) = Response(Num(i)), ok = Ok(Head(toClient)),
         Num(i) \in pending, pending' = pending \ {Num(i)}, Resolved(i, ok), last' = NoPush,
         UNCHANGED <<dialect, running, toServer, feed, answers, owed, unasked, pushes>>
  PROVE  RoutingInv'
<1> USE DEF RoutingInv
<1> DEFINE j == Head(toClient)
           subscribed == calls[i].channel # NoChannel /\ ok
           c == [calls[i] EXCEPT !.outcome = IF ok THEN "ok" ELSE "failed",
                                 !.handle = IF subscribed THEN "active" ELSE calls[i].handle]
<1>1. /\ calls' = [calls EXCEPT ![i].outcome = IF ok THEN "ok" ELSE "failed",
                                ![i].handle = IF subscribed THEN "active" ELSE @]
      /\ subscriptions' =
            IF subscribed
            THEN [r \in DOMAIN subscriptions \cup {Route(i)} |->
                      IF r = Route(i) THEN i ELSE subscriptions[r]]
            ELSE subscriptions
  BY DEF Resolved, Route
<1>2. calls[i].outcome = "none" /\ calls[i].handle = "none" /\ i \in Ids
  BY CallFields DEF CallInv
<1>3. calls[i] \in CallType /\ calls \in [1..Len(calls) -> CallType]
  BY CallFields, LenProperties DEF TypeInv
<1>4. c = [calls[i] EXCEPT !.outcome = IF ok THEN "ok" ELSE "failed",
                           !.handle = IF subscribed THEN "active" ELSE "none"]
  BY <1>2
<1>5. calls' = [calls EXCEPT ![i] = c]
  BY <1>1, <1>3
<1>6. /\ c \in CallType /\ c.channel = calls[i].channel /\ c.symbols = calls[i].symbols
      /\ c.outcome = (IF ok THEN "ok" ELSE "failed")
      /\ c.handle = (IF subscribed THEN "active" ELSE "none")
  BY <1>3, <1>4 DEF CallType, Outcomes, Handles
<1> HIDE DEF c, subscribed
<1>7. Amends(i, IF ok THEN "ok" ELSE "failed", IF subscribed THEN "active" ELSE "none")
  BY <1>5, <1>6, Amending
<1>8. /\ Len(calls') = Len(calls) /\ calls' \in Seq(CallType)
      /\ \A k \in 1..Len(calls) :
           /\ calls'[k].channel = calls[k].channel /\ calls'[k].symbols = calls[k].symbols
           /\ k # i => calls'[k] = calls[k]
      /\ calls'[i].outcome = (IF ok THEN "ok" ELSE "failed")
      /\ calls'[i].handle = (IF subscribed THEN "active" ELSE "none")
  BY <1>7 DEF Amends
<1>9. /\ \A k \in 1..Len(calls) :
              /\ AskFrame(k)' = AskFrame(k) /\ EndFrame(k)' = EndFrame(k) /\ Route(k)' = Route(k)
              /\ TopicsOf(k)' = TopicsOf(k)
      /\ Selections' = Selections
      /\ \A f : Identify(f)' = Identify(f) /\ Ok(f)' = Ok(f) /\ (Pushed(f)' <=> Pushed(f))
  BY <1>7, AmendsStable
<1>10. IsQueue(toClient') /\ j \in Frames(toClient) /\ Frames(toClient) = Frames(toClient') \cup {j}
  BY ReceiveStep
<1> HIDE DEF j
<1>11. Identify(j) = Response(Num(i)) /\ ok = Ok(j)
  BY DEF j
<1>12. ok \in answers[i] /\ ok \in BOOLEAN
  <2>1. Ok(j) \in answers[i]
    BY <1>2, <1>10, <1>11 DEF ClientInv
  <2> QED
    BY <1>2, <1>11, <2>1 DEF TypeInv
<1>13. \A k \in 1..Len(calls) : k # i => Num(k) # Num(i)
  BY Values
<1>14. TypeInv'
  <2>1. pending' \subseteq {Num(k) : k \in 1..Len(calls')}
    BY <1>8 DEF TypeInv
  <2> QED
    BY <1>8, <1>10, <2>1 DEF TypeInv, NoPush
<1>15. CallInv'
  <2> SUFFICES ASSUME NEW k \in 1..Len(calls)
               PROVE
               /\ Num(k) \in pending' <=> calls'[k].outcome = "none"
               /\ IF calls'[k].channel = NoChannel THEN dialect # "binance_stream"
                  ELSE dialect # "binance_api" /\ calls'[k].symbols \in Selections
               /\ calls'[k].handle # "none" <=> calls'[k].outcome = "ok" /\ calls'[k].channel # NoChannel
    BY <1>8, <1>9 DEF CallInv
  <2>1. CASE k = i
    <3>1. Num(k) \notin pending' /\ calls'[k].outcome # "none"
      BY <1>8, <2>1
    <3>2. calls'[k].handle # "none" <=> calls'[k].outcome = "ok" /\ calls'[k].channel # NoChannel
      BY <1>8, <1>12, <2>1 DEF subscribed
    <3> QED
      BY <1>8, <3>1, <3>2 DEF CallInv
  <2>2. CASE k # i
    BY <1>8, <1>13, <2>2 DEF CallInv
  <2> QED
    BY <2>1, <2>2
<1>16. RouteInv'
  <2> SUFFICES ASSUME NEW r \in DOMAIN subscriptions'
               PROVE  \E k \in 1..Len(calls) :
                        subscriptions'[r] = k /\ calls'[k].handle = "active" /\ Route(k)' = r
    BY <1>8 DEF RouteInv
  <2>1. CASE subscribed /\ r = Route(i)
    BY <1>1, <1>8, <1>9, <2>1
  <2>2. CASE ~(subscribed /\ r = Route(i))
    <3>1. r \in DOMAIN subscriptions /\ subscriptions'[r] = subscriptions[r]
      BY <1>1, <2>2
    <3>2. PICK k \in 1..Len(calls) : subscriptions[r] = k /\ calls[k].handle = "active" /\ Route(k) = r
      BY <3>1 DEF RouteInv
    <3>3. k # i
      BY <1>2, <3>2
    <3> QED
      BY <1>8, <1>9, <3>1, <3>2, <3>3
  <2> QED
    BY <2>1, <2>2
<1>17. LiveInv'
  <2> SUFFICES ASSUME NEW k \in 1..Len(calls), calls'[k].handle = "active"
               PROVE  \/ Route(k)' \in DOMAIN subscriptions'
                      \/ \E l \in 1..Len(calls) : calls'[l].handle = "cancelled" /\ Route(l)' = Route(k)'
    BY <1>8 DEF LiveInv
  <2>1. DOMAIN subscriptions \subseteq DOMAIN subscriptions'
    BY <1>1
  <2>2. CASE k = i
    <3>1. subscribed
      BY <1>8, <2>2
    <3> QED
      BY <1>1, <1>9, <2>2, <3>1
  <2>3. CASE k # i
    <3>1. CASE Route(k) \in DOMAIN subscriptions
      BY <1>9, <2>1, <3>1
    <3>2. CASE Route(k) \notin DOMAIN subscriptions
      <4>1. PICK l \in 1..Len(calls) : calls[l].handle = "cancelled" /\ Route(l) = Route(k)
        BY <1>8, <2>3, <3>2 DEF LiveInv
      <4>2. calls'[l].handle = "cancelled" /\ Route(l)' = Route(k)'
        BY <1>2, <1>8, <1>9, <4>1
      <4> QED
        BY <4>2
    <3> QED
      BY <3>1, <3>2
  <2> QED
    BY <2>2, <2>3
<1>18. ServerInv'
  <2>1. \A k \in 1..Len(calls) : \A f : Ends(f, k) => Ends(f, k)'
    BY <1>2, <1>8, <1>9 DEF Ends
  <2> QED
    BY <1>8, <1>9, <2>1 DEF ServerInv
<1>19. WaitInv'
  BY <1>8, <1>9, <1>12 DEF WaitInv
<1>20. OnceInv'
  BY <1>8, <1>9 DEF OnceInv
<1>21. AnswersInv'
  BY <1>8 DEF AnswersInv
<1>22. ClientInv'
  <2> SUFFICES ASSUME NEW f \in Frames(toClient')
               PROVE
               /\ \A k \in Ids : Identify(f) = Response(Num(k)) =>
                   k \in 1..Len(calls) /\ (calls'[k].outcome = "none" => Ok(f) \in answers[k])
               /\ Identify(f).kind = "PushMessage" =>
                   \/ dialect # "binance_api" /\ Pushed(f)
                   \/ /\ dialect = "kraken" /\ Identify(f) = Push("status")
                      /\ ~Has(f, "data") /\ ~Has(f, "result")
               /\ IsBeat(f) => dialect = "cryptocom" /\ \E x \in 1..MaxUnasked : f = Beat(x)
    BY <1>8, <1>9 DEF ClientInv
  <2>1. f \in Frames(toClient)
    BY <1>10
  <2>2. calls'[i].outcome # "none"
    BY <1>8
  <2> QED
    BY <1>8, <2>1, <2>2 DEF ClientInv
<1>23. VerdictReaches'
  <2>1. (calls'[i].outcome = "ok") = ok
    BY <1>8, <1>12
  <2>2. (calls'[i].outcome = "ok") \in answers[i]
    BY <1>12, <2>1
  <2>3. \A k \in 1..Len(calls) : k # i => calls'[k] = calls[k]
    BY <1>8
  <2> QED
    BY <1>8, <2>2, <2>3 DEF VerdictReaches
<1>24. RepliesInv'
  <2> SUFFICES ASSUME running, NEW k \in 1..Len(calls), calls'[k].outcome = "none", answers[k] # {}
               PROVE  \E f \in Frames(toClient') : Identify(f) = Response(Num(k))
    BY <1>8, <1>9 DEF RepliesInv
  <2>1. k # i
    BY <1>8
  <2>2. PICK f \in Frames(toClient) : Identify(f) = Response(Num(k))
    BY <1>8, <2>1 DEF RepliesInv
  <2>3. f # j
    BY <1>11, <1>13, <2>1, <2>2, Kinds
  <2> QED
    BY <1>10, <2>2, <2>3
<1>25. FedInv'
  <2> SUFFICES ASSUME NEW t \in feed
               PROVE  \E k \in 1..Len(calls) :
                        /\ calls'[k].channel # NoChannel
                        /\ t \in TopicsOf(k)' /\ TRUE \in answers[k]
                        /\ \/ calls'[k].outcome = "none"
                           \/ calls'[k].outcome = "failed" /\ TRUE \in answers[k]
                           \/ calls'[k].handle = "active"
                           \/ calls'[k].handle = "cancelled" /\ EndFrame(k)' \in Frames(toServer)
    BY <1>8 DEF FedInv, PartlyRefused
  <2>1. PICK k \in 1..Len(calls) :
               /\ calls[k].channel # NoChannel
               /\ t \in TopicsOf(k) /\ TRUE \in answers[k]
               /\ \/ calls[k].outcome = "none"
                  \/ PartlyRefused(k)
                  \/ calls[k].handle = "active"
                  \/ calls[k].handle = "cancelled" /\ EndFrame(k) \in Frames(toServer)
    BY DEF FedInv
  <2>2. calls'[k].channel # NoChannel /\ t \in TopicsOf(k)' /\ EndFrame(k)' = EndFrame(k)
    BY <1>8, <1>9, <2>1
  <2>3. CASE k = i
    <3>1. calls'[k].handle = "active" \/ calls'[k].outcome = "failed"
      BY <1>8, <1>12, <2>1, <2>3 DEF subscribed
    <3> QED
      BY <2>1, <2>2, <3>1
  <2>4. CASE k # i
    BY <1>8, <2>1, <2>2, <2>4 DEF PartlyRefused
  <2> QED
    BY <2>3, <2>4
<1>26. HeartbeatInv'
  <2>1. ~IsBeat(j)
    BY <1>11, HeadOfClient, Kinds DEF j
  <2>2. IsQueue(toClient) /\ InOrder(toClient)
    BY DEF TypeInv, HeartbeatInv
  <2>3. BeatIds(toClient) = BeatIds(toClient') /\ InOrder(toClient')
    BY <2>1, <2>2, BeatsTail DEF j
  <2> QED
    BY <2>3 DEF HeartbeatInv
<1> QED
  BY <1>14, <1>15, <1>16, <1>17, <1>18, <1>19, <1>20, <1>21, <1>22, <1>23, <1>24, <1>25, <1>26

\* An answer that no call waits for is skipped.
LEMMA IoResponseStep == ASSUME RoutingInv, IoResponse PROVE RoutingInv'
<1> DEFINE j == Head(toClient) id == Identify(j).correlation_id
<1>1. /\ UNCHANGED <<dialect, running, toServer>> /\ UNCHANGED <<feed, answers, owed, unasked, pushes>>
      /\ toClient # <<>> /\ toClient' = Tail(toClient) /\ last' = NoPush
      /\ Identify(j).kind = "MethodResponse" /\ pending' = pending \ {id}
      /\ IF id \in pending THEN Resolved(id.num, Ok(j)) ELSE UNCHANGED <<calls, subscriptions>>
  BY DEF IoResponse, TakesHandler, Receive, exchange
<1>2. Identify(j) = Response(id)
  BY <1>1, ResponseForm
<1> HIDE DEF j, id
<1>3. CASE id \in pending
  <2>1. PICK i \in 1..Len(calls) : id = Num(i)
    BY <1>3 DEF RoutingInv, TypeInv
  <2>2. id.num = i
    BY <2>1, Values
  <2> QED
    BY <1>1, <1>2, <1>3, <2>1, <2>2, ResolvedStep DEF j
<1>4. CASE id \notin pending
  <2>1. UNCHANGED <<calls, subscriptions, pending>>
    BY <1>1, <1>4
  <2>2. \A i \in 1..Len(calls) : calls[i].outcome = "none" => Identify(j) # Response(Num(i))
    BY <1>2, <1>4, Kinds DEF RoutingInv, CallInv
  <2>3. ~IsBeat(j)
    BY <1>1, <1>2, HeadOfClient, Kinds DEF j
  <2>4. Skips
    BY <1>1, <2>1, <2>2, <2>3 DEF Skips, exchange, NoPush, RoutingInv, TypeInv, j
  <2> QED
    BY <2>4, SkipsStep
<1> QED
  BY <1>3, <1>4

-----------------------------------------------------------------------------
(* The theorems *)

LEMMA InvInit == Init => RoutingInv
<1> SUFFICES ASSUME Init PROVE RoutingInv
  OBVIOUS
<1> USE DEF Init
<1>1. TypeInv
  BY QueueEmpty, BoundsAssumption DEF TypeInv, NoPush, Ids, Topics
<1>2. Len(calls) = 0 /\ Frames(toServer) = {} /\ Frames(toClient) = {} /\ 1..0 = {}
  BY QueueEmpty
<1>3. CallInv /\ RouteInv /\ LiveInv /\ OnceInv
  BY <1>2 DEF CallInv, RouteInv, LiveInv, OnceInv
<1>4. ServerInv /\ WaitInv /\ ClientInv
  BY <1>2 DEF ServerInv, WaitInv, ClientInv
<1>5. AnswersInv /\ VerdictReaches /\ RepliesInv /\ FedInv
  BY <1>2 DEF AnswersInv, VerdictReaches, RepliesInv, FedInv
<1>6. HeartbeatInv
  BY BeatsEmpty DEF HeartbeatInv
<1> QED
  BY <1>1, <1>3, <1>4, <1>5, <1>6 DEF RoutingInv

LEMMA InvStep == RoutingInv /\ [Next]_vars => RoutingInv'
<1> SUFFICES ASSUME RoutingInv, [Next]_vars PROVE RoutingInv'
  OBVIOUS
<1>1. CASE Subscribe
  BY <1>1, SubscribeStep
<1>2. CASE Execute
  BY <1>2, ExecuteStep
<1>3. CASE \E i \in 1..Len(calls) : Cancel(i)
  BY <1>3, CancelStep
<1>4. CASE Exchange
  BY <1>4, ExchangeStep
<1>5. CASE IoHeartbeat
  BY <1>5, IoHeartbeatStep
<1>6. CASE IoThrows
  BY <1>6, IoThrowsStep
<1>7. CASE IoUnknown
  BY <1>7, IoUnknownStep
<1>8. CASE IoResponse
  BY <1>8, IoResponseStep
<1>9. CASE IoPush
  BY <1>9, IoPushStep
<1>10. CASE UNCHANGED vars
  <2>1. /\ UNCHANGED <<dialect, calls, pending, subscriptions, running, last, toServer, toClient>>
        /\ UNCHANGED <<feed, answers, owed, unasked, pushes>>
    BY <1>10 DEF vars, client, exchange
  <2>2. /\ CallInv' /\ RouteInv' /\ LiveInv'
        /\ \A i \in 1..Len(calls) :
              AskFrame(i)' = AskFrame(i) /\ EndFrame(i)' = EndFrame(i) /\ TopicsOf(i)' = TopicsOf(i)
        /\ \A f, i : Ends(f, i)' <=> Ends(f, i)
    BY <2>1, CallsKept
  <2>3. \A f : Identify(f)' = Identify(f) /\ Ok(f)' = Ok(f) /\ (Pushed(f)' <=> Pushed(f))
    BY <2>1, FrameStable DEF Pushed
  <2>4. TypeInv' /\ ServerInv' /\ WaitInv' /\ OnceInv'
    BY <2>1, <2>2 DEF RoutingInv, TypeInv, ServerInv, WaitInv, OnceInv
  <2>5. AnswersInv' /\ ClientInv' /\ VerdictReaches' /\ RepliesInv' /\ HeartbeatInv'
    BY <2>1, <2>3 DEF RoutingInv, AnswersInv, ClientInv, VerdictReaches, RepliesInv, HeartbeatInv
  <2>6. FedInv'
    <3>1. \A k \in 1..Len(calls) : PartlyRefused(k)' <=> PartlyRefused(k)
      BY <2>1 DEF PartlyRefused
    <3> QED
      BY <2>1, <2>2, <3>1 DEF RoutingInv, FedInv
  <2> QED
    BY <2>2, <2>4, <2>5, <2>6 DEF RoutingInv
<1> QED
  BY <1>1, <1>2, <1>3, <1>4, <1>5, <1>6, <1>7, <1>8, <1>9, <1>10 DEF Next, Application, ReceiveThread

\* The invariant holds of every behaviour of the client and its exchange.
THEOREM RoutingInvariant == Spec => []RoutingInv
BY InvInit, InvStep, PTL DEF Spec

\* The route of a subscription names its channel, or its one topic.
LEMMA RouteOf ==
  ASSUME RoutingInv, NEW i \in 1..Len(calls), calls[i].channel # NoChannel
  PROVE  IF dialect = "kraken" THEN Route(i) = calls[i].channel /\ Route(i) \in Channels
         ELSE TopicsOf(i) = {Route(i)} /\ Route(i) \in Topics
<1>1. calls[i].channel \in Channels /\ calls[i].symbols \in Selections
  BY CallFields DEF RoutingInv, CallInv
<1>2. CASE dialect = "kraken"
  BY <1>1, <1>2 DEF Route, RouteKey
<1>3. CASE dialect # "kraken"
  <2>1. PICK s \in Symbols : calls[i].symbols = {s}
    BY <1>1, <1>3 DEF Selections
  <2>2. (CHOOSE x \in {s} : TRUE) = s
    OBVIOUS
  <2>3. Route(i) = <<calls[i].channel, s>>
    BY <1>3, <2>1, <2>2 DEF Route, RouteKey, StreamName
  <2> QED
    BY <1>1, <1>3, <2>1, <2>3 DEF TopicsOf, Topics
<1> QED
  BY <1>2, <1>3

\* Every variable keeps its type: a handler in pending_ is of a call that was made,
\* and a callback in subscriptions_ is of a call that got a handle.
THEOREM TypeCorrect == Spec => []TypeOK
<1>1. RoutingInv => TypeOK
  <2> SUFFICES ASSUME RoutingInv PROVE TypeOK
    OBVIOUS
  <2>1. \A r \in DOMAIN subscriptions : r \in Routes /\ calls[subscriptions[r]].handle # "none"
    <3> SUFFICES ASSUME NEW r \in DOMAIN subscriptions
                 PROVE  r \in Routes /\ calls[subscriptions[r]].handle # "none"
      OBVIOUS
    <3>1. PICK i \in 1..Len(calls) : subscriptions[r] = i /\ calls[i].handle = "active" /\ Route(i) = r
      BY DEF RoutingInv, RouteInv
    <3>2. calls[i].channel # NoChannel
      BY <3>1 DEF RoutingInv, CallInv
    <3> QED
      BY <3>1, <3>2, RouteOf DEF Routes
  <2>2. \A i \in 1..Len(calls) : calls[i] \in CallType
    BY CallFields DEF RoutingInv
  <2> QED
    BY <2>1, <2>2 DEF RoutingInv, TypeInv, TypeOK, CallType
<1> QED
  BY <1>1, RoutingInvariant, PTL

\* No answer of any of the four exchanges is lost while the receive thread runs: a
\* call answered has its result, or an answer to it is under way and its handler is
\* still in pending_ to take it.
THEOREM RepliesKept == Spec => []RepliesNotLost
<1>1. RoutingInv => RepliesNotLost
  <2> SUFFICES ASSUME RoutingInv, running, NEW i \in Ids, answers[i] # {}, calls[i].outcome = "none"
               PROVE  \E n \in 1..Len(toClient) : Identify(toClient[n]) = Response(Num(i))
    BY DEF RepliesNotLost
  <2>1. i \in 1..Len(calls)
    BY DEF RoutingInv, AnswersInv
  <2>2. PICK f \in Frames(toClient) : Identify(f) = Response(Num(i))
    BY <2>1 DEF RoutingInv, RepliesInv
  <2> QED
    BY <2>2 DEF Frames
<1> QED
  BY <1>1, RoutingInvariant, PTL

\* Whatever form the exchange gives to yes and no, WsResponse::ok of a call is what
\* the exchange decided of it.
THEOREM VerdictsReach == Spec => []VerdictReaches
<1>1. RoutingInv => VerdictReaches
  BY DEF RoutingInv
<1> QED
  BY <1>1, RoutingInvariant, PTL

\* When everything sent has arrived, the exchange pushes only what a live handle
\* stands for, or a Kraken subscription refused in part.
THEOREM NothingFed == Spec => []NothingFedWithoutHandle
<1>1. RoutingInv => NothingFedWithoutHandle
  <2> SUFFICES ASSUME RoutingInv, running, toServer = <<>>, toClient = <<>>, NEW t \in feed
               PROVE  \E i \in 1..Len(calls) :
                        t \in TopicsOf(i) /\ (calls[i].handle = "active" \/ PartlyRefused(i))
    BY DEF NothingFedWithoutHandle
  <2>1. PICK i \in 1..Len(calls) :
               /\ calls[i].channel # NoChannel
               /\ t \in TopicsOf(i) /\ TRUE \in answers[i]
               /\ \/ calls[i].outcome = "none"
                  \/ PartlyRefused(i)
                  \/ calls[i].handle = "active"
                  \/ calls[i].handle = "cancelled" /\ EndFrame(i) \in Frames(toServer)
    BY DEF RoutingInv, FedInv
  <2>2. Frames(toServer) = {} /\ Frames(toClient) = {}
    BY QueueEmpty
  <2>3. calls[i].outcome # "none"
    BY <2>1, <2>2 DEF RoutingInv, RepliesInv
  <2> QED
    BY <2>1, <2>2, <2>3
<1> QED
  BY <1>1, RoutingInvariant, PTL

\* A push that came to p came to what it should.
Settled(p) ==
    p # NoPush =>
        \/ /\ p.came_to = "callback"
           /\ p.push.topic[1] = calls[p.call].channel
           /\ dialect # "kraken" => p.push.topic \in TopicsOf(p.call)
        \/ /\ p.came_to = "report" /\ p.push.shape \in {"mistyped", "nonnumeric"}
        \/ /\ p.came_to = "dropped"
           /\ \A i \in 1..Len(calls) :
                calls[i].handle = "active" /\ p.push.topic \in TopicsOf(i) =>
                    \E k \in 1..Len(calls) :
                        calls[k].handle = "cancelled" /\ Route(k) = Route(i)

LEMMA SettledKept ==
  ASSUME NEW p, dialect' = dialect, calls' = calls, Settled(p)
  PROVE  Settled(p)'
<1>1. \A i : Route(i)' = Route(i) /\ TopicsOf(i)' = TopicsOf(i)
  BY CallStable
<1> QED
  BY <1>1 DEF Settled

\* Where a push of a topic is looked for, and what reading it may come to.
LEMMA PushesRead ==
  ASSUME RoutingInv, NEW j, Pushed(j), dialect # "binance_api"
  PROVE  \E t \in Topics :
            /\ Identify(j) = Push(IF dialect = "kraken" THEN t[1] ELSE t)
            /\ Payload(j).topic = t /\ Payload(j).shape \in Shapes
            /\ Has(j, "data") \/ Has(j, "result")
<1>0. dialect \in {"kraken", "binance_stream", "cryptocom"}
  BY OneDialect DEF RoutingInv
<1>1. PICK t \in Topics, shape \in Shapes : j = PushFrame(t[1], t[2], shape)
  BY DEF Pushed
<1>2. t = <<t[1], t[2]>>
  BY DEF Topics
<1>3. Identify(j) = Push(IF dialect = "kraken" THEN t[1] ELSE StreamName(t[1], t[2]))
      /\ (Has(j, "data") \/ Has(j, "result"))
      /\ Payload(j).topic = <<t[1], t[2]>> /\ Payload(j).shape = shape
  BY <1>0, <1>1, PushFrames
<1> QED
  BY <1>2, <1>3 DEF StreamName

LEMMA ReportedPushes ==
  ASSUME dialect \in {"kraken", "binance_stream", "cryptocom"}, NEW shape \in Shapes,
         FALSE \in PushParses(shape)
  PROVE  shape \in {"mistyped", "nonnumeric"}
<1>1. CASE dialect = "kraken"
  BY <1>1 DEF PushParses, KrakenPushParses, Shapes
<1>2. CASE dialect = "binance_stream"
  BY <1>2 DEF PushParses, BinancePushParses, Shapes
<1>3. CASE dialect = "cryptocom"
  BY <1>3 DEF PushParses, CryptoComPushParses, Shapes
<1> QED
  BY <1>1, <1>2, <1>3

\* Kraken's notices find no callback.
LEMMA NoStatusRoute == ASSUME RoutingInv, dialect = "kraken" PROVE "status" \notin DOMAIN subscriptions
<1> SUFFICES ASSUME "status" \in DOMAIN subscriptions PROVE FALSE
  OBVIOUS
<1>1. PICK i \in 1..Len(calls) : calls[i].handle = "active" /\ Route(i) = "status"
  BY DEF RoutingInv, RouteInv
<1>2. calls[i].channel # NoChannel
  BY <1>1 DEF RoutingInv, CallInv
<1> QED
  BY <1>1, <1>2, RouteOf, ChannelsAssumption

\* The receive thread settles a push by the callback of its route, if any.
LEMMA IoPushSettles ==
  ASSUME RoutingInv, IoPush
  PROVE  Settled(last')
<1> DEFINE j == Head(toClient) route == Identify(j).route_key
<1>1. /\ toClient # <<>> /\ Identify(j).kind = "PushMessage"
      /\ IF route \in DOMAIN subscriptions
         THEN \E parses \in PushParses(Payload(j).shape) :
                  CameTo(IF parses THEN "callback" ELSE "report", j, subscriptions[route])
         ELSE IF Has(j, "data") \/ Has(j, "result") THEN CameTo("dropped", j, 0) ELSE last' = NoPush
  BY DEF IoPush, Receive
<1>2. Identify(j) = Push(route) /\ j \in Frames(toClient)
  BY <1>1, PushForm, HeadOfClient
<1> HIDE DEF j, route
<1>3. CASE dialect # "binance_api" /\ Pushed(j)
  <2>0. dialect \in {"kraken", "binance_stream", "cryptocom"}
    BY <1>3, OneDialect DEF RoutingInv
  <2>1. PICK t \in Topics :
            /\ Identify(j) = Push(IF dialect = "kraken" THEN t[1] ELSE t)
            /\ Payload(j).topic = t /\ Payload(j).shape \in Shapes
            /\ Has(j, "data") \/ Has(j, "result")
    BY <1>3, PushesRead
  <2>2. route = IF dialect = "kraken" THEN t[1] ELSE t
    BY <1>2, <2>1, Kinds
  <2>3. ASSUME NEW i \in 1..Len(calls), Route(i) = route, calls[i].handle = "active"
        PROVE  t[1] = calls[i].channel /\ (dialect # "kraken" => t \in TopicsOf(i))
    <3>1. calls[i].channel # NoChannel
      BY <2>3 DEF RoutingInv, CallInv
    <3>2. CASE dialect = "kraken"
      BY <2>2, <2>3, <3>1, <3>2, RouteOf
    <3>3. CASE dialect # "kraken"
      <4>1. t \in TopicsOf(i)
        BY <2>2, <2>3, <3>1, <3>3, RouteOf
      <4> QED
        BY <4>1 DEF TopicsOf
    <3> QED
      BY <3>2, <3>3
  <2>4. CASE route \in DOMAIN subscriptions
    <3>1. PICK parses \in PushParses(Payload(j).shape) :
              CameTo(IF parses THEN "callback" ELSE "report", j, subscriptions[route])
      BY <1>1, <2>4
    <3>2. PICK i \in 1..Len(calls) :
              subscriptions[route] = i /\ calls[i].handle = "active" /\ Route(i) = route
      BY <2>4 DEF RoutingInv, RouteInv
    <3>3. CASE parses
      <4>1. last' = [came_to |-> "callback", push |-> Payload(j), call |-> i]
        BY <3>1, <3>2, <3>3 DEF CameTo
      <4> QED
        BY <2>1, <2>3, <3>2, <4>1 DEF Settled
    <3>4. CASE ~parses
      <4>1. last' = [came_to |-> "report", push |-> Payload(j), call |-> i]
        BY <3>1, <3>2, <3>4 DEF CameTo
      <4>2. parses \in BOOLEAN
        BY <2>0 DEF PushParses, KrakenPushParses, BinancePushParses, CryptoComPushParses
      <4>3. Payload(j).shape \in {"mistyped", "nonnumeric"}
        BY <2>0, <2>1, <3>1, <3>4, <4>2, ReportedPushes
      <4> QED
        BY <4>1, <4>3 DEF Settled
    <3> QED
      BY <3>3, <3>4
  <2>5. CASE route \notin DOMAIN subscriptions
    <3>1. last' = [came_to |-> "dropped", push |-> Payload(j), call |-> 0]
      BY <1>1, <2>1, <2>5 DEF CameTo
    <3>2. ASSUME NEW i \in 1..Len(calls), calls[i].handle = "active", t \in TopicsOf(i)
          PROVE  \E k \in 1..Len(calls) : calls[k].handle = "cancelled" /\ Route(k) = Route(i)
      <4>1. calls[i].channel # NoChannel
        BY <3>2 DEF RoutingInv, CallInv
      <4>2. Route(i) = route
        <5>1. CASE dialect = "kraken"
          <6>1. t[1] = calls[i].channel
            BY <3>2 DEF TopicsOf
          <6> QED
            BY <2>2, <4>1, <5>1, <6>1, RouteOf
        <5>2. CASE dialect # "kraken"
          BY <2>2, <3>2, <4>1, <5>2, RouteOf
        <5> QED
          BY <5>1, <5>2
      <4> QED
        BY <2>5, <3>2, <4>2 DEF RoutingInv, LiveInv
    <3> QED
      BY <2>1, <3>1, <3>2 DEF Settled
  <2> QED
    BY <2>4, <2>5
<1>4. CASE dialect = "kraken" /\ Identify(j) = Push("status") /\ ~Has(j, "data") /\ ~Has(j, "result")
  <2>1. route = "status"
    BY <1>2, <1>4, Kinds
  <2>2. route \notin DOMAIN subscriptions
    BY <1>4, <2>1, NoStatusRoute
  <2>3. last' = NoPush
    BY <1>1, <1>4, <2>2
  <2> QED
    BY <2>3 DEF Settled
<1> QED
  BY <1>1, <1>2, <1>3, <1>4 DEF RoutingInv, ClientInv

\* A push is handed to the callback of a live call that asked for it, reported if
\* it cannot be parsed, and dropped only if no live call asked for its topic or the
\* cancel of another handle has taken the callback of the route.
THEOREM PushesReach == Spec => []PushesReachTheirCallback
<1>0. PushesReachTheirCallback <=> Settled(last)
  BY DEF PushesReachTheirCallback, Settled, Route
<1>1. Init => Settled(last)
  BY DEF Init, Settled
<1>2. RoutingInv /\ Settled(last) /\ [Next]_vars => Settled(last)'
  <2> SUFFICES ASSUME RoutingInv, Settled(last), [Next]_vars PROVE Settled(last)'
    OBVIOUS
  <2>1. CASE IoPush
    <3>1. PICK p : p = last'
      OBVIOUS
    <3>2. Settled(p) /\ dialect' = dialect /\ calls' = calls
      BY <2>1, <3>1, IoPushSettles DEF IoPush, Receive, client
    <3>3. Settled(p)'
      BY <3>2, SettledKept
    <3> QED
      BY <3>1, <3>3 DEF Settled
  <2>2. CASE Exchange \/ UNCHANGED vars
    <3>1. dialect' = dialect /\ calls' = calls /\ last' = last
      BY <2>2 DEF Exchange, KrakenServesSubscribe, ServesSubscribe, KrakenServesUnsubscribe,
         ServesUnsubscribe, ServesRequest, ReceivesHeartbeatReply, Pushes, BeatsHeart, Notifies,
         Blunders, Unasked, Take, client, vars
    <3>2. PICK p : p = last
      OBVIOUS
    <3>3. Settled(p)'
      BY <3>1, <3>2, SettledKept
    <3> QED
      BY <3>1, <3>2, <3>3 DEF Settled
  <2>3. CASE Application \/ IoHeartbeat \/ IoThrows \/ IoUnknown \/ IoResponse
    <3>1. last' = NoPush
      BY <2>3 DEF Application, Subscribe, Execute, Cancel, Issue, IoHeartbeat, IoThrows, IoUnknown,
         IoResponse
    <3> QED
      BY <3>1 DEF Settled, NoPush
  <2> QED
    BY <2>1, <2>2, <2>3 DEF Next, ReceiveThread
<1> QED
  BY <1>0, <1>1, <1>2, RoutingInvariant, PTL DEF Spec

\* Every heartbeat of Crypto.com is on its way to HeartbeatResponder, or its answer
\* is on its way back: once, with its id, the older before the younger.
THEOREM HeartbeatsReplied == Spec => []HeartbeatsAnswered
<1>1. RoutingInv => HeartbeatsAnswered
  <2> SUFFICES ASSUME RoutingInv PROVE HeartbeatsAnswered
    OBVIOUS
  <2> DEFINE frames == toServer \o toClient
             beats == {n \in 1..Len(frames) : IsBeat(frames[n])}
             IdAt(n, x) == frames[n].id = Num(x)
  <2>1. /\ Len(toServer) \in Nat /\ Len(toClient) \in Nat
        /\ Len(frames) = Len(toServer) + Len(toClient)
        /\ \A n \in 1..Len(toServer) : frames[n] = toServer[n]
        /\ \A n \in 1..Len(toClient) : frames[Len(toServer) + n] = toClient[n]
    BY QueueConcat DEF RoutingInv, TypeInv, IsQueue
  <2>2. \A k \in 1..Len(owed) : owed[k] \in Nat
    BY ElementOfSeq, BoundsAssumption DEF RoutingInv, TypeInv
  <2> HIDE DEF frames
  <2>3. \A n \in 1..Len(frames) :
           \/ n \in 1..Len(toServer) /\ frames[n] = toServer[n]
           \/ n - Len(toServer) \in 1..Len(toClient) /\ frames[n] = toClient[n - Len(toServer)]
    <3> TAKE n \in 1..Len(frames)
    <3>1. CASE n <= Len(toServer)
      BY <2>1, <3>1
    <3>2. CASE ~(n <= Len(toServer))
      <4>1. n - Len(toServer) \in 1..Len(toClient) /\ Len(toServer) + (n - Len(toServer)) = n
        BY <2>1, <3>2
      <4> QED
        BY <2>1, <4>1
    <3> QED
      BY <3>1, <3>2
  <2>4. \A n \in beats : \E x \in Nat : IdAt(n, x)
    <3> SUFFICES ASSUME NEW n \in 1..Len(frames), IsBeat(frames[n])
                 PROVE  \E x \in Nat : frames[n].id = Num(x)
      OBVIOUS
    <3>0. \A x \in 1..MaxUnasked : x \in Nat
      BY BoundsAssumption
    <3>1. CASE frames[n] \in Frames(toServer)
      <4>1. \/ \E i \in 1..Len(calls) : frames[n] = AskFrame(i) \/ Ends(frames[n], i)
            \/ \E x \in 1..MaxUnasked : frames[n] = Reply(x)
        BY <3>1 DEF RoutingInv, ServerInv
      <4>2. ASSUME NEW i \in 1..Len(calls), frames[n] = AskFrame(i) \/ Ends(frames[n], i) PROVE FALSE
        BY <4>2, AskFrames, EndFrames DEF RoutingInv, Ends
      <4> QED
        BY <3>0, <4>1, <4>2, Beats
    <3>2. CASE frames[n] \in Frames(toClient)
      BY <3>0, <3>2, Beats DEF RoutingInv, ClientInv
    <3> QED
      BY <2>3, <3>1, <3>2 DEF Frames
  <2>5. \A n \in beats, x \in Nat : IdAt(n, x) =>
           \/ /\ n \in 1..Len(toServer) /\ BeatAt(toServer, n, x) /\ x \in BeatIds(toServer)
           \/ /\ n - Len(toServer) \in 1..Len(toClient) /\ BeatAt(toClient, n - Len(toServer), x)
              /\ x \in BeatIds(toClient)
    BY <2>3 DEF BeatAt, BeatIds
  <2>6. \A n \in beats : \E k \in 1..Len(owed) : IdAt(n, owed[k])
    <3> TAKE n \in beats
    <3>1. PICK x \in Nat : IdAt(n, x)
      BY <2>4
    <3>2. x \in {owed[k] : k \in 1..Len(owed)}
      BY <2>5, <3>1 DEF RoutingInv, HeartbeatInv
    <3> QED
      BY <3>1, <3>2
  <2>7. \A k \in 1..Len(owed) : \E n \in beats : IdAt(n, owed[k])
    <3> TAKE k \in 1..Len(owed)
    <3>1. owed[k] \in BeatIds(toServer) \/ owed[k] \in BeatIds(toClient)
      BY DEF RoutingInv, HeartbeatInv
    <3>2. CASE owed[k] \in BeatIds(toServer)
      <4>1. PICK n \in 1..Len(toServer) : BeatAt(toServer, n, owed[k])
        BY <3>2 DEF BeatIds
      <4>2. n \in 1..Len(frames) /\ frames[n] = toServer[n]
        BY <2>1
      <4> QED
        BY <4>1, <4>2 DEF BeatAt
    <3>3. CASE owed[k] \in BeatIds(toClient)
      <4>1. PICK n \in 1..Len(toClient) : BeatAt(toClient, n, owed[k])
        BY <3>3 DEF BeatIds
      <4>2. Len(toServer) + n \in 1..Len(frames) /\ frames[Len(toServer) + n] = toClient[n]
        BY <2>1
      <4> QED
        BY <4>1, <4>2 DEF BeatAt
    <3> QED
      BY <3>1, <3>2, <3>3
  <2>8. \A m, n \in beats, k, l \in 1..Len(owed) :
           m < n /\ IdAt(m, owed[k]) /\ IdAt(n, owed[l]) => k < l
    <3> SUFFICES ASSUME NEW m \in beats, NEW n \in beats, NEW k \in 1..Len(owed), NEW l \in 1..Len(owed),
                        m < n, IdAt(m, owed[k]), IdAt(n, owed[l])
                 PROVE  k < l
      OBVIOUS
    <3>1. owed[k] \in Nat /\ owed[l] \in Nat /\ Len(owed) \in Nat
      BY <2>2 DEF RoutingInv, TypeInv
    <3>2. owed[k] < owed[l]
      <4>1. CASE n \in 1..Len(toServer)
        <5>1. m \in 1..Len(toServer)
          BY <2>1, <4>1
        <5>2. ~(m - Len(toServer) \in 1..Len(toClient)) /\ ~(n - Len(toServer) \in 1..Len(toClient))
          BY <2>1, <4>1, <5>1
        <5> QED
          BY <2>5, <3>1, <5>2 DEF RoutingInv, HeartbeatInv, InOrder
      <4>2. CASE m \in 1..Len(toServer) /\ ~(n \in 1..Len(toServer))
        <5>1. ~(m - Len(toServer) \in 1..Len(toClient))
          BY <2>1, <4>2
        <5> QED
          BY <2>5, <3>1, <4>2, <5>1 DEF RoutingInv, HeartbeatInv
      <4>3. CASE ~(m \in 1..Len(toServer)) /\ ~(n \in 1..Len(toServer))
        <5>1. m - Len(toServer) < n - Len(toServer)
          BY <2>1
        <5> QED
          BY <2>5, <3>1, <4>3, <5>1 DEF RoutingInv, HeartbeatInv, InOrder
      <4> QED
        BY <4>1, <4>2, <4>3
    <3> QED
      BY <3>1, <3>2 DEF RoutingInv, HeartbeatInv
  <2> HIDE DEF IdAt
  <2> QED
    BY <2>6, <2>7, <2>8 DEF HeartbeatsAnswered, IsBeat, frames, IdAt
<1> QED
  BY <1>1, RoutingInvariant, PTL

\* A Kraken client's receive thread survives every frame.
THEOREM KrakenSurvives == Spec => []KrakenNeverEscapes
<1>1. Init => KrakenNeverEscapes
  BY DEF Init, KrakenNeverEscapes
<1>2. KrakenNeverEscapes /\ [Next]_vars => KrakenNeverEscapes'
  <2> SUFFICES ASSUME KrakenNeverEscapes, [Next]_vars, dialect' = "kraken"
               PROVE running'
    BY DEF KrakenNeverEscapes
  <2>1. CASE Application
    BY <2>1 DEF Application, Subscribe, Execute, Cancel, Issue, KrakenNeverEscapes
  <2>2. CASE Exchange
    BY <2>2 DEF Exchange, KrakenServesSubscribe, ServesSubscribe, KrakenServesUnsubscribe,
       ServesUnsubscribe, ServesRequest, ReceivesHeartbeatReply, Pushes, BeatsHeart, Notifies,
       Blunders, Unasked, Take, client, KrakenNeverEscapes
  <2>3. CASE IoThrows
    <3>1. dialect = "kraken"
      BY <2>3 DEF IoThrows, Receive
    <3>2. Identify(Head(toClient)) # Throws
      BY <3>1, KrakenDescribesAll DEF Identify
    <3> QED
      BY <2>3, <3>2 DEF IoThrows
  <2>4. CASE IoHeartbeat \/ IoUnknown \/ IoResponse \/ IoPush
    BY <2>4 DEF IoHeartbeat, IoUnknown, IoResponse, IoPush, Receive, client, KrakenNeverEscapes
  <2>5. CASE UNCHANGED vars
    BY <2>5 DEF vars, client, KrakenNeverEscapes
  <2> QED
    BY <2>1, <2>2, <2>3, <2>4, <2>5 DEF Next, ReceiveThread
<1> QED
  BY <1>1, <1>2, PTL DEF Spec

-----------------------------------------------------------------------------
(* Without its frames, FrameRouting is ExchangeContract.                    *)

\* A push under way is of a topic that the exchange granted to some call.
Granted(i, t) == calls[i].channel # NoChannel /\ t \in TopicsOf(i) /\ TRUE \in answers[i]
PushedFrame(f) == Identify(f).kind = "PushMessage" /\ (Has(f, "data") \/ Has(f, "result"))
GrantedInv ==
    \A f \in Frames(toClient) : PushedFrame(f) =>
        Payload(f).topic \in Topics /\ \E i \in 1..Len(calls) : Granted(i, Payload(f).topic)

\* What was granted stays so, and only pushes of what is fed are added.
LEMMA GrantedKept ==
  ASSUME RoutingInv, GrantedInv, dialect' = dialect,
         \A i \in 1..Len(calls) :
            /\ i \in 1..Len(calls')
            /\ calls'[i].channel = calls[i].channel /\ calls'[i].symbols = calls[i].symbols
            /\ TRUE \in answers[i] => TRUE \in answers'[i],
         \A f \in Frames(toClient') : PushedFrame(f) =>
            \/ f \in Frames(toClient)
            \/ Payload(f).topic \in feed
  PROVE  GrantedInv'
<1>1. \A f : PushedFrame(f)' <=> PushedFrame(f)
  BY FrameStable DEF PushedFrame
<1> SUFFICES ASSUME NEW f \in Frames(toClient'), PushedFrame(f)
             PROVE  /\ Payload(f).topic \in Topics
                    /\ \E i \in 1..Len(calls') : Granted(i, Payload(f).topic)'
  BY <1>1 DEF GrantedInv, Topics, Payload
<1>2. PICK i \in 1..Len(calls) : Granted(i, Payload(f).topic)
  <2>1. CASE f \in Frames(toClient)
    BY <2>1 DEF GrantedInv
  <2>2. CASE Payload(f).topic \in feed
    BY <2>2 DEF RoutingInv, FedInv, Granted
  <2> QED
    BY <2>1, <2>2
<1>3. Payload(f).topic \in Topics
  <2>1. CASE f \in Frames(toClient)
    BY <2>1 DEF GrantedInv
  <2>2. CASE Payload(f).topic \in feed
    BY <2>2 DEF RoutingInv, TypeInv
  <2> QED
    BY <2>1, <2>2
<1>4. \A t : Granted(i, t) => Granted(i, t)'
  <2>1. TopicsOf(i)' = TopicsOf(i)
    BY CallStable
  <2> QED
    BY <2>1 DEF Granted
<1>5. Payload(f)' = Payload(f)
  BY DEF Payload
<1> QED
  BY <1>2, <1>3, <1>4, <1>5

LEMMA GrantedStep == RoutingInv /\ GrantedInv /\ [Next]_vars => GrantedInv'
<1> SUFFICES ASSUME RoutingInv, GrantedInv, [Next]_vars PROVE GrantedInv'
  OBVIOUS
<1>1. ASSUME UNCHANGED <<dialect, calls, answers>>,
             \A f \in Frames(toClient') : PushedFrame(f) =>
                f \in Frames(toClient) \/ Payload(f).topic \in feed
      PROVE  GrantedInv'
  BY <1>1, GrantedKept
<1>2. ASSUME NEW i \in 1..Len(calls), NEW new, NEW verdicts, AnswersCall(i, new, verdicts)
      PROVE  GrantedInv'
  <2>1. /\ Serves(new) /\ Head(toServer) = AskFrame(i) /\ answers' = [answers EXCEPT ![i] = verdicts]
        /\ \A g \in Frames(new) : Identify(g) = Response(Num(i))
    BY <1>2 DEF AnswersCall
  <2>2. AskFrame(i) \in Frames(toServer) /\ Frames(toClient') = Frames(toClient) \cup Frames(new)
    BY <2>1, ServesStep
  <2>3. answers[i] = {}
    BY <2>2 DEF RoutingInv, WaitInv
  <2>4. \A k \in 1..Len(calls) : TRUE \in answers[k] => TRUE \in answers'[k]
    <3>1. answers \in [Ids -> SUBSET BOOLEAN] /\ \A k \in 1..Len(calls) : k \in Ids
      BY CallFields DEF RoutingInv, TypeInv
    <3> QED
      BY <2>1, <2>3, <3>1
  <2>5. \A f \in Frames(new) : ~PushedFrame(f)
    BY <2>1, Kinds DEF PushedFrame
  <2>6. dialect' = dialect /\ calls' = calls
    BY <2>1 DEF Serves, client
  <2> QED
    BY <2>2, <2>4, <2>5, <2>6, GrantedKept
<1>3. ASSUME NEW i \in 1..Len(calls), NEW new, EndsCall(i, new) PROVE GrantedInv'
  <2>1. Serves(new) /\ answers' = answers
        /\ \A g \in Frames(new) : Identify(g) \in {Response(Num(i)), Unknown}
    BY <1>3 DEF EndsCall
  <2>2. Frames(toClient') = Frames(toClient) \cup Frames(new)
    BY <2>1, ServesStep
  <2>3. \A f \in Frames(new) : ~PushedFrame(f)
    BY <2>1, Kinds DEF PushedFrame
  <2> QED
    BY <1>1, <2>1, <2>2, <2>3 DEF Serves, client
<1>4. ASSUME NEW g, toClient' = toClient \o <<g>>, UNCHANGED <<dialect, calls, answers>>,
             PushedFrame(g) => Payload(g).topic \in feed
      PROVE  GrantedInv'
  <2>1. Frames(toClient') = Frames(toClient) \cup {g}
    BY <1>4, QueueConcat, SingleFrame DEF RoutingInv, TypeInv
  <2> QED
    BY <1>1, <1>4, <2>1
<1>5. ASSUME NEW g, Unasked(g), ~PushedFrame(g) PROVE GrantedInv'
  BY <1>4, <1>5 DEF Unasked, Send, client
<1>6. CASE KrakenServesSubscribe \/ ServesSubscribe \/ ServesRequest
  BY <1>2, <1>6, KrakenServesEffect, ServesSubscribeEffect, ServesRequestEffect DEF RoutingInv
<1>7. CASE KrakenServesUnsubscribe \/ ServesUnsubscribe
  BY <1>3, <1>7, KrakenEndsEffect, EndsEffect DEF RoutingInv
<1>8. CASE Pushes
  <2>1. PICK t \in feed, shape \in Shapes : Send(<<PushFrame(t[1], t[2], shape)>>)
    BY <1>8 DEF Pushes
  <2>2. PICK k \in 1..Len(calls) : calls[k].channel # NoChannel /\ t \in TopicsOf(k)
    BY DEF RoutingInv, FedInv
  <2>3. dialect \in {"kraken", "binance_stream", "cryptocom"}
    BY <2>2, OneDialect DEF RoutingInv, CallInv
  <2>4. Payload(PushFrame(t[1], t[2], shape)).topic = t
    <3>1. t = <<t[1], t[2]>>
      BY <2>2 DEF TopicsOf
    <3> QED
      BY <2>3, <3>1, PushFrames
  <2> QED
    BY <1>4, <1>8, <2>1, <2>4 DEF Pushes, Send, client
<1>9. CASE BeatsHeart
  <2>1. unasked + 1 \in Nat /\ Unasked(Beat(unasked + 1))
    BY <1>9 DEF BeatsHeart, Beat, RoutingInv, TypeInv
  <2>2. ~PushedFrame(Beat(unasked + 1))
    BY <1>9, Beats, Kinds DEF PushedFrame, BeatsHeart
  <2> QED
    BY <1>5, <2>1, <2>2
<1>10. CASE Notifies \/ Blunders
  <2>1. \A g : Idle(g) => ~PushedFrame(g)
    BY DEF Idle, PushedFrame
  <2>2. Idle(Notice) /\ \A f \in Odd : Idle(f)
    BY Notices, OddFrames, OneDialect DEF RoutingInv
  <2> QED
    BY <1>5, <1>10, <2>1, <2>2 DEF Notifies, Blunders
<1>11. CASE Subscribe \/ Execute
  <2>1. PICK frame, c, S : Issue(frame, c, S)
    BY <1>11 DEF Subscribe, Execute
  <2>2. calls \in Seq(CallType)
    BY DEF RoutingInv, TypeInv
  <2>3. \A k \in 1..Len(calls) : k \in 1..Len(calls') /\ calls'[k] = calls[k]
    BY <2>1, <2>2 DEF Issue
  <2> QED
    BY <2>1, <2>3, GrantedKept DEF Issue, exchange
<1>12. ASSUME NEW i \in 1..Len(calls), NEW c \in CallType,
              c.channel = calls[i].channel, c.symbols = calls[i].symbols,
              calls' = [calls EXCEPT ![i] = c], UNCHANGED <<dialect, answers>>,
              Frames(toClient') \subseteq Frames(toClient)
       PROVE  GrantedInv'
  <2>1. Amends(i, c.outcome, c.handle)
    BY <1>12, Amending
  <2> QED
    BY <1>12, <2>1, GrantedKept DEF Amends
<1>13. ASSUME NEW i \in 1..Len(calls), Cancel(i) PROVE GrantedInv'
  <2> DEFINE c == [calls[i] EXCEPT !.handle = "cancelled"]
  <2>1. calls[i] \in CallType /\ calls \in [1..Len(calls) -> CallType]
    BY CallFields, LenProperties DEF RoutingInv, TypeInv
  <2>2. c \in CallType /\ c.channel = calls[i].channel /\ c.symbols = calls[i].symbols
    BY <2>1 DEF CallType, Handles
  <2>3. calls' = [calls EXCEPT ![i] = c] /\ UNCHANGED <<dialect, toClient, answers>>
    BY <1>13, <2>1 DEF Cancel, exchange
  <2> HIDE DEF c
  <2> QED
    BY <1>12, <2>2, <2>3
<1>14. ASSUME Receive PROVE Frames(toClient') \subseteq Frames(toClient) /\ UNCHANGED <<dialect, answers>>
  BY <1>14, ReceiveStep DEF Receive, exchange
<1>15. ASSUME Receive, calls' = calls PROVE GrantedInv'
  BY <1>1, <1>14, <1>15
<1>16. CASE IoHeartbeat \/ IoThrows \/ IoUnknown \/ IoPush
  BY <1>15, <1>16 DEF IoHeartbeat, IoThrows, IoUnknown, IoPush, client
<1>17. CASE IoResponse
  <2> DEFINE j == Head(toClient) id == Identify(j).correlation_id
  <2>1. Receive /\ (IF id \in pending THEN Resolved(id.num, Ok(j)) ELSE UNCHANGED <<calls, subscriptions>>)
    BY <1>17 DEF IoResponse
  <2> HIDE DEF j, id
  <2>2. CASE id \in pending
    <3>1. PICK i \in 1..Len(calls) : id = Num(i)
      BY <2>2 DEF RoutingInv, TypeInv
    <3>2. Resolved(i, Ok(j))
      BY <2>1, <2>2, <3>1, Values
    <3> DEFINE live == calls[i].channel # NoChannel /\ Ok(j)
               c == [calls[i] EXCEPT !.outcome = IF Ok(j) THEN "ok" ELSE "failed",
                                     !.handle = IF live THEN "active" ELSE calls[i].handle]
    <3>3. calls[i] \in CallType /\ calls \in [1..Len(calls) -> CallType]
      BY CallFields, LenProperties DEF RoutingInv, TypeInv
    <3>4. c \in CallType /\ c.channel = calls[i].channel /\ c.symbols = calls[i].symbols
      BY <3>3 DEF CallType, Outcomes, Handles
    <3>5. calls' = [calls EXCEPT ![i] = c]
      BY <3>2, <3>3 DEF Resolved
    <3> HIDE DEF c
    <3> QED
      BY <1>12, <1>14, <2>1, <3>4, <3>5
  <2>3. CASE id \notin pending
    BY <1>15, <2>1, <2>3
  <2> QED
    BY <2>2, <2>3
<1>18. CASE ReceivesHeartbeatReply
  BY <1>1, <1>18 DEF ReceivesHeartbeatReply, Take, client
<1>19. CASE UNCHANGED vars
  BY <1>1, <1>19 DEF vars, client, exchange
<1> QED
  BY <1>6, <1>7, <1>8, <1>9, <1>10, <1>11, <1>13, <1>16, <1>17, <1>18, <1>19
  DEF Next, Application, Exchange, ReceiveThread

\* A call has the topics that the contract gives it, and one route.
LEMMA ContractTopics ==
  ASSUME RoutingInv, NEW i \in 1..Len(calls)
  PROVE  /\ EndToEnd!TopicsOf(i) = TopicsOf(i)
         /\ EndToEnd!Subscription(i) <=> calls[i].channel # NoChannel
         /\ EndToEnd!Subscription(i) => EndToEnd!Routes(i) = {Route(i)}
<1>1. EndToEnd!TopicsOf(i) = TopicsOf(i)
  BY DEF EndToEnd!TopicsOf, TopicsOf
<1>2. EndToEnd!Subscription(i) <=> calls[i].channel # NoChannel
  BY DEF EndToEnd!Subscription
<1>3. ASSUME calls[i].channel # NoChannel PROVE EndToEnd!Routes(i) = {Route(i)}
  <2>1. CASE dialect = "kraken"
    <3>1. Route(i) = calls[i].channel
      BY <1>3, <2>1, RouteOf
    <3>2. PICK s : s \in calls[i].symbols
      BY <1>3, <2>1 DEF RoutingInv, CallInv, Selections
    <3>3. \A t \in TopicsOf(i) : EndToEnd!Where(t) = calls[i].channel
      BY <2>1 DEF EndToEnd!Where, TopicsOf
    <3>4. <<calls[i].channel, s>> \in TopicsOf(i)
      BY <3>2 DEF TopicsOf
    <3> QED
      BY <1>1, <3>1, <3>3, <3>4 DEF EndToEnd!Routes
  <2>2. CASE dialect # "kraken"
    <3>1. TopicsOf(i) = {Route(i)}
      BY <1>3, <2>2, RouteOf
    <3>2. \A t : EndToEnd!Where(t) = t
      BY <2>2 DEF EndToEnd!Where
    <3> QED
      BY <1>1, <3>1, <3>2 DEF EndToEnd!Routes
  <2> QED
    BY <2>1, <2>2
<1> QED
  BY <1>1, <1>2, <1>3

\* A call that is answered is decided, the first and only time.
LEMMA DecideStep ==
  ASSUME RoutingInv, NEW i \in 1..Len(calls), NEW new, NEW verdicts, AnswersCall(i, new, verdicts)
  PROVE  EndToEnd!Next
<1>1. /\ Serves(new) /\ Head(toServer) = AskFrame(i) /\ verdicts \in SUBSET BOOLEAN
      /\ answers' = [answers EXCEPT ![i] = verdicts]
      /\ verdicts # {}
  BY DEF AnswersCall
<1>2. calls[i].outcome = "none" /\ answers[i] = {}
  <2>1. AskFrame(i) \in Frames(toServer)
    BY <1>1, ServesStep
  <2> QED
    BY <2>1 DEF RoutingInv, WaitInv
<1>3. PICK topics \in SUBSET TopicsOf(i) : feed' = feed \cup topics /\ EndToEnd!Agrees(i, verdicts, topics)
  BY DEF AnswersCall
<1>4. UNCHANGED <<dialect, calls, subscriptions, last>>
  BY <1>1 DEF Serves, client
<1>5. EndToEnd!Decide(i, verdicts, topics)
  BY <1>1, <1>2, <1>3, <1>4 DEF EndToEnd!Decide, Delivery
<1>6. topics \in SUBSET EndToEnd!TopicsOf(i)
  BY <1>3, ContractTopics
<1> QED
  BY <1>1, <1>5, <1>6 DEF EndToEnd!Next

\* The end of a call is taken back by the exchange after its cancel.
LEMMA TakeBackStep ==
  ASSUME RoutingInv, NEW i \in 1..Len(calls), NEW new, EndsCall(i, new)
  PROVE  EndToEnd!Next
<1>1. /\ Serves(new) /\ answers' = answers /\ calls[i].handle = "cancelled"
      /\ feed' = feed \ TopicsOf(i)
  BY DEF EndsCall, Ends
<1>2. UNCHANGED <<dialect, calls, subscriptions, last>>
  BY <1>1 DEF Serves, client
<1>3. EndToEnd!TakeBack(i)
  BY <1>1, <1>2, ContractTopics DEF EndToEnd!TakeBack, Delivery
<1> QED
  BY <1>3 DEF EndToEnd!Next

\* A response settles the call that waits for it, as the exchange decided.
LEMMA SettleStep ==
  ASSUME RoutingInv, IoResponse
  PROVE  EndToEnd!Next
<1> DEFINE j == Head(toClient) id == Identify(j).correlation_id
<1>1. /\ UNCHANGED <<dialect, feed, answers>> /\ last' = NoPush /\ toClient # <<>>
      /\ Identify(j).kind = "MethodResponse"
      /\ IF id \in pending THEN Resolved(id.num, Ok(j)) ELSE UNCHANGED <<calls, subscriptions>>
  BY DEF IoResponse, Receive, exchange
<1>2. Identify(j) = Response(id) /\ j \in Frames(toClient)
  BY <1>1, ResponseForm, HeadOfClient
<1>3. Delivery' = NoPush
  BY <1>1 DEF Delivery
<1> HIDE DEF j, id
<1>4. CASE id \in pending
  <2>1. PICK i \in 1..Len(calls) : id = Num(i)
    BY <1>4 DEF RoutingInv, TypeInv
  <2>2. Resolved(i, Ok(j))
    BY <1>1, <1>4, <2>1, Values
  <2>3. calls[i].outcome = "none" /\ i \in Ids
    BY <1>4, <2>1, CallFields DEF RoutingInv, CallInv
  <2>4. Ok(j) \in answers[i]
    BY <1>2, <2>1, <2>3 DEF RoutingInv, ClientInv
  <2>5. Ok(j) \in BOOLEAN
    BY <2>3, <2>4 DEF RoutingInv, TypeInv
  <2>6. EndToEnd!Settle(i, Ok(j))
    <3>1. CASE calls[i].channel # NoChannel /\ Ok(j)
      <4>1. EndToEnd!Subscription(i) /\ EndToEnd!Routes(i) = {Route(i)}
        BY <3>1, ContractTopics
      <4>2. subscriptions' = [r \in DOMAIN subscriptions \cup {Route(i)} |->
                                 IF r \in {Route(i)} THEN i ELSE subscriptions[r]]
        BY <2>2, <3>1 DEF Resolved, Route
      <4>3. calls' = [calls EXCEPT ![i].outcome = IF Ok(j) THEN "ok" ELSE "failed",
                                   ![i].handle = IF EndToEnd!Subscription(i) /\ Ok(j) THEN "active" ELSE @]
        BY <2>2, <3>1, <4>1 DEF Resolved
      <4>4. subscriptions' = [r \in DOMAIN subscriptions \cup EndToEnd!Routes(i) |->
                                 IF r \in EndToEnd!Routes(i) THEN i ELSE subscriptions[r]]
        BY <4>1, <4>2
      <4> QED
        BY <1>1, <1>3, <2>3, <2>4, <3>1, <4>1, <4>3, <4>4 DEF EndToEnd!Settle
    <3>2. CASE ~(calls[i].channel # NoChannel /\ Ok(j))
      <4>1. ~(EndToEnd!Subscription(i) /\ Ok(j))
        BY <3>2, ContractTopics
      <4>2. subscriptions' = subscriptions
        BY <2>2, <3>2 DEF Resolved
      <4>3. calls' = [calls EXCEPT ![i].outcome = IF Ok(j) THEN "ok" ELSE "failed",
                                   ![i].handle = IF EndToEnd!Subscription(i) /\ Ok(j) THEN "active" ELSE @]
        BY <2>2, <3>2, <4>1 DEF Resolved
      <4> QED
        BY <1>1, <1>3, <2>3, <2>4, <4>1, <4>2, <4>3 DEF EndToEnd!Settle
    <3> QED
      BY <3>1, <3>2
  <2> QED
    BY <2>5, <2>6 DEF EndToEnd!Next
<1>5. CASE id \notin pending
  BY <1>1, <1>3, <1>5 DEF EndToEnd!Next, EndToEnd!Pass
<1> QED
  BY <1>4, <1>5

\* A push is delivered to the callback that is installed for it, or dropped.
LEMMA DeliverStep ==
  ASSUME RoutingInv, GrantedInv, IoPush
  PROVE  EndToEnd!Next
<1> DEFINE j == Head(toClient) route == Identify(j).route_key
<1>1. /\ UNCHANGED <<dialect, calls, subscriptions, feed, answers>>
      /\ toClient # <<>> /\ Identify(j).kind = "PushMessage"
      /\ IF route \in DOMAIN subscriptions
         THEN \E parses \in PushParses(Payload(j).shape) :
                  CameTo(IF parses THEN "callback" ELSE "report", j, subscriptions[route])
         ELSE IF Has(j, "data") \/ Has(j, "result") THEN CameTo("dropped", j, 0) ELSE last' = NoPush
  BY DEF IoPush, Receive, client, exchange
<1>2. Identify(j) = Push(route) /\ j \in Frames(toClient)
  BY <1>1, PushForm, HeadOfClient
<1> HIDE DEF j, route
<1>3. ASSUME NEW how, NEW i, last' = [came_to |-> how, push |-> Payload(j), call |-> i]
      PROVE  Delivery' = [came_to |-> how, topic |-> Payload(j).topic, call |-> i]
  BY <1>3 DEF Delivery, NoPush
<1>4. CASE dialect # "binance_api" /\ Pushed(j)
  <2>1. PICK t \in Topics :
            /\ Identify(j) = Push(IF dialect = "kraken" THEN t[1] ELSE t)
            /\ Payload(j).topic = t /\ Payload(j).shape \in Shapes
            /\ Has(j, "data") \/ Has(j, "result")
    BY <1>4, PushesRead
  <2>2. route = EndToEnd!Where(t)
    BY <1>2, <2>1, Kinds DEF EndToEnd!Where
  <2>3. \E i \in 1..Len(calls) :
            EndToEnd!Subscription(i) /\ t \in EndToEnd!TopicsOf(i) /\ TRUE \in answers[i]
    <3>1. PICK i \in 1..Len(calls) : Granted(i, t)
      BY <1>1, <1>2, <2>1 DEF GrantedInv, PushedFrame
    <3> QED
      BY <3>1, ContractTopics DEF Granted
  <2>4. EndToEnd!Deliver(t)
    <3>1. CASE route \in DOMAIN subscriptions
      <4>1. PICK parses \in PushParses(Payload(j).shape) :
                CameTo(IF parses THEN "callback" ELSE "report", j, subscriptions[route])
        BY <1>1, <3>1
      <4>2. PICK how \in {"callback", "report"} : CameTo(how, j, subscriptions[route])
        BY <4>1
      <4>3. Delivery' = [came_to |-> how, topic |-> t, call |-> subscriptions[route]]
        BY <1>3, <2>1, <4>2 DEF CameTo
      <4> QED
        BY <1>1, <2>2, <2>3, <3>1, <4>3 DEF EndToEnd!Deliver
    <3>2. CASE route \notin DOMAIN subscriptions
      <4>1. Delivery' = [came_to |-> "dropped", topic |-> t, call |-> 0]
        BY <1>1, <1>3, <2>1, <3>2 DEF CameTo
      <4> QED
        BY <1>1, <2>2, <2>3, <3>2, <4>1 DEF EndToEnd!Deliver
    <3> QED
      BY <3>1, <3>2
  <2> QED
    BY <2>1, <2>4 DEF EndToEnd!Next, Topics
<1>5. CASE dialect = "kraken" /\ Identify(j) = Push("status") /\ ~Has(j, "data") /\ ~Has(j, "result")
  <2>1. route = "status"
    BY <1>2, <1>5, Kinds
  <2>2. route \notin DOMAIN subscriptions
    BY <1>5, <2>1, NoStatusRoute
  <2>3. last' = NoPush
    BY <1>1, <1>5, <2>2
  <2>4. Delivery' = NoPush
    BY <2>3 DEF Delivery
  <2> QED
    BY <1>1, <2>4 DEF EndToEnd!Next, EndToEnd!Pass
<1> QED
  BY <1>1, <1>2, <1>4, <1>5 DEF RoutingInv, ClientInv

\* A cancel takes the callback of its route, whosever it is.
LEMMA CancelContract ==
  ASSUME RoutingInv, NEW i \in 1..Len(calls), Cancel(i)
  PROVE  EndToEnd!Next
<1>1. /\ calls[i].handle = "active" /\ calls' = [calls EXCEPT ![i].handle = "cancelled"]
      /\ subscriptions' = Without(subscriptions, Route(i))
      /\ last' = NoPush /\ UNCHANGED <<dialect, feed, answers>>
  BY DEF Cancel, exchange, Route
<1>2. EndToEnd!Routes(i) = {Route(i)}
  BY <1>1, ContractTopics DEF RoutingInv, CallInv
<1>3. subscriptions' = [r \in DOMAIN subscriptions \ EndToEnd!Routes(i) |-> subscriptions[r]]
  BY <1>1, <1>2 DEF Without
<1>4. Delivery' = NoPush
  BY <1>1 DEF Delivery
<1>5. EndToEnd!Cancel(i)
  BY <1>1, <1>3, <1>4 DEF EndToEnd!Cancel
<1> QED
  BY <1>5 DEF EndToEnd!Next

\* Every step of application, exchange and receive thread is one that the contract
\* allows, or changes nothing that it speaks of.
LEMMA EndToEndStep ==
  ASSUME RoutingInv, GrantedInv, [Next]_vars
  PROVE  EndToEnd!Next \/ UNCHANGED EndToEnd!evars
<1>1. ASSUME UNCHANGED <<dialect, calls, subscriptions, feed, answers, last>>
      PROVE  UNCHANGED EndToEnd!evars
  BY <1>1 DEF EndToEnd!evars, Delivery
<1>2. ASSUME UNCHANGED <<dialect, calls, subscriptions, feed, answers>>, last' = NoPush
      PROVE  EndToEnd!Next
  <2>1. Delivery' = NoPush
    BY <1>2 DEF Delivery
  <2> QED
    BY <1>2, <2>1 DEF EndToEnd!Next, EndToEnd!Pass
<1>3. ASSUME NEW frame, NEW c \in Channels \cup {NoChannel}, NEW S \in SUBSET Symbols, Issue(frame, c, S)
      PROVE  EndToEnd!Next
  <2>1. /\ Len(calls) < MaxRequests /\ last' = NoPush
        /\ calls' = Append(calls, [channel |-> c, symbols |-> S, outcome |-> "none", handle |-> "none"])
        /\ UNCHANGED <<dialect, subscriptions, feed, answers>>
    BY <1>3 DEF Issue, exchange
  <2>2. Delivery' = NoPush
    BY <2>1 DEF Delivery
  <2>3. Len(calls) + 1 \in Ids
    <3>1. Len(calls) \in Nat
      BY LenProperties DEF RoutingInv, TypeInv
    <3> QED
      BY <2>1, <3>1, BoundsAssumption DEF Ids
  <2>4. EndToEnd!Begin(c, S)
    BY <2>1, <2>2, <2>3 DEF EndToEnd!Begin
  <2> QED
    BY <2>4 DEF EndToEnd!Next
<1>4. CASE Subscribe
  <2>1. Selections \subseteq SUBSET Symbols
    BY DEF Selections
  <2> QED
    BY <1>3, <1>4, <2>1 DEF Subscribe
<1>5. CASE Execute
  BY <1>3, <1>5 DEF Execute
<1>6. CASE \E i \in 1..Len(calls) : Cancel(i)
  BY <1>6, CancelContract
<1>7. CASE KrakenServesSubscribe \/ ServesSubscribe \/ ServesRequest
  BY <1>7, KrakenServesEffect, ServesSubscribeEffect, ServesRequestEffect, DecideStep DEF RoutingInv
<1>8. CASE KrakenServesUnsubscribe \/ ServesUnsubscribe
  BY <1>8, KrakenEndsEffect, EndsEffect, TakeBackStep DEF RoutingInv
<1>9. CASE ReceivesHeartbeatReply \/ Pushes \/ BeatsHeart \/ Notifies \/ Blunders
  BY <1>1, <1>9 DEF ReceivesHeartbeatReply, Take, Pushes, BeatsHeart, Notifies, Blunders, Unasked, client
<1>10. CASE IoHeartbeat \/ IoThrows \/ IoUnknown
  BY <1>2, <1>10 DEF IoHeartbeat, IoThrows, IoUnknown, Receive, client, exchange
<1>11. CASE IoResponse
  BY <1>11, SettleStep
<1>12. CASE IoPush
  BY <1>12, DeliverStep
<1>13. CASE UNCHANGED vars
  BY <1>1, <1>13 DEF vars, client, exchange
<1> QED
  BY <1>4, <1>5, <1>6, <1>7, <1>8, <1>9, <1>10, <1>11, <1>12, <1>13
  DEF Next, Application, Exchange, ReceiveThread

\* Whatever is pushed, some call asked for it and was granted it.
THEOREM PushesGranted == Spec => []GrantedInv
<1>1. Init => GrantedInv
  BY QueueEmpty DEF Init, GrantedInv
<1> QED
  BY <1>1, GrantedStep, RoutingInvariant, PTL DEF Spec

\* The four exchanges' frames, their identifiers and parsers, pending_ and the
\* heartbeats implement ExchangeContract: each call is decided once and ends once,
\* as it was decided, and every push that is not dropped reaches the callback that
\* is installed for it at that moment.
THEOREM EndToEndImplemented == Spec => RefinesExchangeContract
<1>1. Init => EndToEnd!Init
  BY DEF Init, EndToEnd!Init, Delivery
<1>2. RoutingInv /\ GrantedInv /\ [Next]_vars => [EndToEnd!Next]_(EndToEnd!evars)
  BY EndToEndStep
<1> QED
  BY <1>1, <1>2, RoutingInvariant, PushesGranted, PTL DEF Spec, EndToEnd!Spec, RefinesExchangeContract
=============================================================================
