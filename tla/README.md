# cryptocogs in TLA+

cryptocogs (`src/`) is a C++ library for the REST and WebSocket APIs of Kraken, Binance,
Coinbase and Crypto.com. This directory specifies its concurrent core (the two WebSocket
clients, their teardown and the session that reconnects them), the frames of the four
exchanges that share a client, and the REST clients with every endpoint, their signing, their
curl handle and their orders. TLC checks the modules on small instances and TLAPS proves their
safety invariants, and that clients and frames implement their contracts, for all instances.
`PROJECT.json` lists components, runs, mutants, the source lines behind every definition, findings, hazards and
theorems; this file explains them.

Run from this directory: `tlc -config WsClient.cfg MCWsClient`, `tlapm WsClientProofs.tla`.

## 1. Inventory

| Component | State | Operations | Hard behaviour | What makes it correct |
|---|---|---|---|---|
| `ExchangeWsClient`, `SubscriptionHandle` (`exchange/common/ws_client.*`, `ws.*`) | `connected_`, `send_queue_` (`queue_mu_`), `pending_` (`pending_mu_`), `subscriptions_` (`subs_mu_`), `next_req_id_`; per call a promise and an atomic flag | `init`, `execute[_async]`, `subscribe[_async]`, `cancel`, the callbacks on open, close, message | application threads against the I/O thread; open racing sends; answers late, repeated or missing; timeouts; reentrant callbacks | no frame stranded or overtaken; every answer finds its handler once; handles and installed callbacks agree; calls return |
| `IWsConnection`, `IxWsConnection` | the socket, four callbacks | `connect`, `disconnect`, `send`, `is_connected`, destructor | the I/O thread destroying its own socket; callbacks into what is gone; loss on a close | the socket is not destroyed on its own thread; what is called exists; everything is released |
| `WsReconnectSession` (`reconnect_session.*`) | two flags, a mutex, a condition variable, a thread | `start`, `stop`, `scheduleReconnect`, `workerLoop` | missed wakeups; stop racing a reconnect; callbacks that throw; backoff | wakeups arrive; a stopped session is down; requests are served; stop returns |
| `CoinbaseStreamClient` (`coinbase/ws_streams.*`) | `connected_`, `send_queue_`, `handlers_`, two observers, one `mu_` | seven `subscribe_*`, `cancel`, observers, callbacks | sends outside the lock; several message types per channel, shared by channels; exceptions | nothing stranded, lost or sent twice; handles and handlers agree |
| `RateLimitedWsErrorHandler` | two atomics | `on_malformed_frame` | check, then store | one log line per interval |
| `HeartbeatResponder` (Crypto.com) | the inner connection, one callback | `handle_inbound` | answers on the I/O thread, raw `this` | every heartbeat answered, everything else forwarded, nothing handed to a responder that is gone |
| Frame identifiers (Kraken, Binance ×2, Crypto.com) | none | frame → kind, id, route | frames that throw; routes that do not match | route keys of pushes and of subscriptions agree |
| `CurlHttpClient`, REST clients | one reused curl handle | `perform`, `execute` | options that outlive a request | a request depends on itself only |
| Authentication | clock, nonce | `sign` | nonces that repeat | nonces grow |
| REST codecs (four `rest_api.*`) | none | `build`, `from_json` of every endpoint | fields that are missing, null, of another type or not numerals; one odd row in a list | an error is never read as a result, and a default never hides a field that could not be read |
| Orders, enumerations (`types.*`) | none | an order to the words of an exchange, and back | terms dropped, renamed or overwritten; enumerators without a word | an exchange reads the order that was meant |
| `TickPrice` | none | conversions of doubles | rounding | round trips |
| Credentials file, examples, test doubles | | | | not modelled: I/O and consumers |

Interaction: an application thread calls a client; the client calls `IWsConnection::send`,
under its lock (`ExchangeWsClient`) or after it (`CoinbaseStreamClient`). The transport's one
I/O thread calls the client's callbacks, which classify a frame, take a handler out of a map
under a lock and run it after the unlock; the handler is the application's code and may call
the client again. A close reaches the application, which asks `WsReconnectSession` for a
reconnect; its worker runs the application's connect and disconnect callbacks. REST clients
are sequential and share nothing with this.

## 2. Plan

Done (in this order): `WsClient` with the contract it implements, `ReconnectSession`,
`CoinbaseStream`, `FrameRouting`, `RestClient`, then `RestEndpoints` and `Orders` under it,
`Teardown`, proofs about each, and `ExchangeContract`, which `FrameRouting` implements.

Next, most important first:

1. `Nonces`: two `RestClient`s that share a Kraken or Crypto.com key, and a clock with the
   resolution of `make_nonce`. Nonces grow in the order in which requests arrive.
2. The requests of the two WebSocket order APIs beside the REST ones: `Orders` has the terms,
   `FrameRouting` the frames.

## 3. Modules

`WsClient` models `ExchangeWsClient`. A variable with a member's name (less the underscore)
is that member; `conn_up`, `inbox`, `wire` are the transport and the exchange. An action is one
critical section, one atomic access or one callback: between two actions the client holds no
lock except `queue_mu_`, which is a variable because `conn_->send()` runs under it. A call is
`Issue` (`gen_req_id`), `Register` (`pending_[key] =`), `EnqueueLock`/`EnqueueSend`, then either
the blocked wait (`Return`, `Timeout`) or the returned future (`Collect`). A cancel is
`CancelExchange`, `CancelErase` and the two enqueue steps. The I/O thread takes events off
`inbox`: an accepted subscription is `IoResponse`, `IoInvoke` (`active->store(true)`),
`IoInstall`, `IoResolve`, four steps between which others run. `Callers` may contain the I/O
thread: callbacks then call the client. A frame is its kind, the call it belongs to and the
order in which it entered `enqueue_or_send`; JSON is left out.

`CallContract` is what the client promises without connection, locks or threads: one result
per call; a subscription becomes live, installs its callback and only then has its result; a
callback runs only if installed, one at a time; a cancelled handle stays off. `WsClient!Contract`
is the refinement mapping: a handle is `live` while its flag is set and `cancelled` once the flag
is off after an ok result; the running callback is the one the I/O thread copied.

`ReconnectSession` models `WsReconnectSession`, each step of the owner, of the worker and of any
number of reporters. `mu_` and the four positions of each wait (to lock, to test, to sleep,
asleep) are explicit, so that a notify can fall between a test and a sleep. `link` is all that
is known of the callbacks: whether a connection is open after they return or throw.

`CoinbaseStream` models `CoinbaseStreamClient`. Each critical section of `mu_` is one action and
every send one of its own, also each send of the swapped queue (`IoFlush`). `MessageTypes` is
the table of channels and message types of the seven typed subscriptions. An exception that
leaves `on_raw_message` ends the process (`Escapes`).

`FrameRouting` models what the four dialects (Kraken, Binance streams, Binance WS API,
Crypto.com) put into frames and make of them: `to_json`, `unsubscribe_json` and `route_key` of
the requests, the four frame identifiers, `success` of every answer, whether a push can be
parsed, and `HeartbeatResponder::handle_inbound`. A frame is a record with the JSON fields that
the code looks at; a value carries its JSON type (`Num`, `Str`, `Null`, `Arr`), since
`get<std::string>()` of another type throws and `is_string()` does not. The client is the
sequential one: a call is `Issue`, and the receive thread handles one frame per step
(`IoHeartbeat`, `IoThrows`, `IoUnknown`, `IoResponse`, `IoPush`). Interleavings inside a step
are the business of `WsClient`. The exchange is external and adversarial within its protocol:
answers in any of their forms, Kraken's one answer per symbol in any order, heartbeats and
notices between them whose ids equal those of requests, pushes with a field that is missing, of
another type or not a number, and frames with fields that nobody expects (`Odd`).

`ExchangeContract` is what is left of that without frames, identifiers, `pending_` and heartbeats:
the exchange decides a call (`Decide`, `TakeBack` for a cancelled one), the call ends as decided,
once, and a subscription has its callback installed with it (`Settle`), a push of what was granted
comes to the callback that is installed where its topic is looked for (`Deliver`). The mapping
`FrameRouting!EndToEnd` keeps `calls`, `subscriptions`, `answers` and `feed` and forgets the queues.
It is coarser than `CallContract`, which takes three steps, with other threads in between, for
what `Settle` does in one; and it has the exchange in it, which `CallContract` has not.

`Teardown` models the end of a client and of its connection: who holds references, on which
thread the last one goes, and where the I/O thread of the socket is meanwhile. `use` is the way
the owner made the client and takes it down, `todo` what is left of that. `client_refs` is the
use count of the client by thread (the owner's `shared_ptr`, the `self` that each callback and
`SubscriptionHandle::cancel` get from `weak_ptr::lock()`); `conn_refs` that of the connection.
A destructor runs on the thread that let the last reference go, in the order of the members
(`ClientDies`, `ConnDies`, `Stop`, `Stopped`), and `ix::WebSocket::stop()` waits until the I/O
thread has delivered the close and exited. `alive` is what may still be called: a step of the
I/O thread into what is not in it is a use after free.

`RestClient` models `execute()` of the four REST clients and a program that calls
`CurlHttpClient` itself (`"direct"`). Its state is what outlives a call: the options of the curl
handle (`easy`), where `of` says to whose memory a header list or a body points. A query or a
body is the sequence of its parts, a signature the sequence it was made of, so that what is
signed can be compared with what is sent. `Options` is `perform()`, `OnWire` what libcurl does
with the options, `Parsed` the envelope with the `catch` of `execute()`. A call whose `build()` or
`sign()` throws sends nothing and fails in its envelope (`Fail`), except Crypto.com's, whose
`build()` is outside the `try`: what it throws leaves `execute()` (`Thrown`).

`RestEndpoints` is the table it sends from: for each of the exchanges' endpoints the method and
path, the parameters sent always, if given, or if true, and the kinds of fields that its
`from_json` reads. `Reading` says what each kind makes of a field that is absent, null, of a
foreign type or text that is no numeral: a default, an exception, `Unknown`, or undefined
behaviour (`operator[]` past the end), which may go either way. Every reply may have one such
flaw in any field that its endpoint reads.

`Orders` has the orders a caller can state, as functions of the terms that are set, each member of
Kraken's `triggers` and `conditional` a term of its own; `BinanceOrder`, `KrakenRestOrder`, ... put
them into the words of a request as the code does; `Understood` reads them back with the tables
of `*_from_string` (external for what the exchange means by `price`). `OrdersOf` takes each order
type with the prices that go with it, either side and two quantities, and with each other term,
one at a time.

`MC*` modules give the constants names; the `.cfg` files give them values. `*Proofs` hold the
theorems: `WsHandleProofs` goes on from `WsClientProofs`, `FrameRoutingProofs` from the lemmas of
`FrameLemmas` about queues, frames and heartbeats.

A definition that a property turns on (`TakeHandler`, `CloseLink`, `EraseAll`, ...) stands
alone, after a definition of the slip it is tried with; the pairs are the `mutants`.

## 4. Runs

Every counter that the code leaves unbounded (calls, opens, reports, undispatched events) is
capped by a constant in the guard of the action that raises it. Deadlock is checked only in
`teardown*`, which has an end (`Done`): elsewhere an application may stop calling.

| Run | Instance | Shows |
|---|---|---|
| `ws_client` | 2 callers, 2 calls, 2 routes, 2 opens, an inbox of 2; 1.5 million states | `NoStrandedFrame`, `SentInOrder`, `RegisteredBeforeSent`, `LiveHandleRouted`, `CancelledStaysOff`, `UnsubscribeOnce`, `RefinesContract` |
| `ws_client_live` | 1 caller and the I/O thread's callbacks, 2 calls, 2 opens; fairness | `CallsReturn`, `QueueDrains` |
| `ws_client_orphan` | violation | a timed-out subscription is installed by its late ack |
| `reconnect` | 2 reporters, 3 reports, 2 starts, backoff 1, 2, 3; fairness | `NoMissedWakeup`, `CallbacksExclusive`, `StoppedIsDown`, `BackoffSchedule`, `NeverGivesUp`, `StopReturns`, `RequestServed` |
| `coinbase` | 1 caller and the callbacks, channels `matches` and `full`, 2 subscriptions, 2 opens; fairness | `NoStrandedFrame`, `SentOnce`, `LiveHandleRouted`, `CancelledStaysOff`, `QueueDrains` |
| `coinbase_order` | violation | an unsubscribe overtakes the subscribe that is being flushed |
| `frame_routing` | each of 4 dialects, 2 channels, 2 symbols, 2 calls, 2 frames in flight, 2 unasked frames, 2 pushes; 1.1 million states | `RepliesNotLost`, `PushesReachTheirCallback`, `NothingFedWithoutHandle`, `HeartbeatsAnswered`, `KrakenNeverEscapes`, `RefinesExchangeContract` |
| `rest_client` | each exchange and the bare transport, every endpoint and order, 4 calls, 2 ticks; 670 thousand states | `RequestReachesWire`, `SignatureCoversRequest`, `OkMeansResult`, `OrderUnderstood` |
| `rest_stale` | violation | a request sent from the freed header list of an earlier one |
| `orders_rest` | violation | an order that says less by REST than on the WebSocket |
| `teardown` | a connection that the owner keeps, with and without a responder, released before or after `disconnect()`; 2 threads that cancel; 900 states; fairness | `CallbackOnLiving`, `NoSelfJoin`, `EverythingReleased` |
| `teardown_heartbeat` | violation | a frame handed to a destroyed `HeartbeatResponder` |

Why the bounds are enough to be interesting: two calls are two frames in a queue, two
subscriptions of one route or of overlapping channels, or a cancel against a subscribe; two
opens contain a close with work under way and a backlog made while down; two threads, or one
and a reentrant callback, give every race of two critical sections. Three reports with two
reporters let a request come while another is served. Backoff 1, 2, 3 doubles once and is
capped once. In `frame_routing` two calls are two subscriptions of one route or of two, or a
subscription and a request whose id a heartbeat repeats; two symbols are a Kraken subscription
that is accepted for one and refused for the other. In `rest_client` what a call inherits is
what the calls before it have set: three methods and a fourth call after them. In `teardown`
two cancelling threads and a callback can each be the last to hold the client, in any order
with the owner. Every property is violated in its run by a plausible slip in the code (the
mutants), so none holds for want of states. Threads of `ws_client` and `coinbase_*`, and channels and
symbols of `frame_routing`, are symmetric; liveness runs use no symmetry.

### Fairness

- Weak fairness of each step inside the library: a thread in it is scheduled, and what it
  calls returns. `Timeout` is fair, since `wait_for` ends. Nothing is assumed of applications
  (they need not call), of the exchange (it need not answer) or of the network.
- A callback is assumed to return once the calls it made have.
- `Teardown`: an owner that has begun to take a client down goes on, as do destructors, the I/O
  thread while it has something to do, and a `cancel()` that has begun. No frame need arrive
  (`IoReceives`) and no handle need be cancelled.
- `ReconnectSession` needs strong fairness of three actions. `StopLock` and `ScheduleLock`
  wait for `mu_`, which the worker holds only to test its flags: a thread that waits for a
  mutex that is free again and again gets it. `BackoffElapses` is the deadline of `wait_for`,
  which the predicate overload keeps through spurious wakeups. `connect_fn_` may throw for ever.

## 5. Proofs

All theorems are about the specification with arbitrary constants, from the named assumptions
of the modules (threads distinct, bounds natural, `MinBackoff <= MaxBackoff`, channels in the
table, symbols finitely many, no channel named as Kraken's notices are). TLC checked each inductive
invariant first. Every invariant that a passing run checks, every action property and both
refinements are theorems.

- `WsClientProofs`. `TypeInv` types the state and says that a busy thread has a call.
  `StrandInv` (who holds `queue_mu_` at which step, nothing happens before `init()` is done, the
  queue is empty when connected and unlocked) yields `FramesNotStranded`: by itself
  `NoStrandedFrame` is not inductive, since a caller holding the lock acts on the value of
  `connected_` it has read. `RegisteredInv` extends `RegisteredBeforeSent` to calls between
  `Register` and their send, and yields `RequestsRegistered`. `OrderInv` bounds every stamp by
  the next and orders wire, backlog and the frame whose caller holds the lock: `FramesSentInOrder`.
- `WsHandleProofs`. `CallInv` follows a call from its id to its promise and its handle: ids are
  given out in order; a call in `pending_` has no result, a handle that is off and is not what
  the I/O thread works on; the I/O thread settles only promises that are unset; a flag is set
  for an accepted subscription or for the one being installed, and a callback stands under the
  route of such a one. It yields `LiveHandlesRouted` and `CancelledHandlesOff`, which are not
  inductive alone: a handle is live before its call has a result, in the steps of the I/O
  thread that others run between. `OnceInv` (an unsubscribe is in the backlog, on the wire or in
  one thread's hands, and its handle is spent) yields `UnsubscribedOnce`. On both rests
  `ContractImplemented`: every step of the client is one of the steps of `CallContract` under
  the mapping, or changes nothing there.
- `ReconnectProofs`. One invariant, `IInv`: who holds `mu_` at which step, and what the flags
  imply for a sleeping worker and for an owner past its join. It yields `WakeupsNotMissed`,
  `CallbacksDoNotOverlap`, `StopLeavesNothing`, `TeardownBeforeConnect`; `AttemptsPersist` is the
  action property `NeverGivesUp`. `BackoffsScheduled` needs powers of two for every number of
  attempts. What a recursive function computes cannot be proved by induction here, so the
  lemmas count instead: `2^n` is the number of subsets of `1..n`, which doubles with `n`.
- `CoinbaseProofs`. `NoStrandedFrame` is inductive with the types. `RouteInv` adds to
  `LiveHandleRouted` and `CancelledStaysOff` that subscriptions are numbered as they install,
  that an installed callback belongs to the type, and that what is being erased is off.
  `FramesInv` places every frame: it is in `send_queue_`, in the queue that an open took, on the
  wire or in one thread's hands, in one of them and once, and only if it is due; before a
  connection is lost, whatever is due is in one of them. Hence `FramesSentOnce`, although every
  send is outside the lock.
- `FrameRoutingProofs`, with the lemmas of `FrameLemmas`. `RoutingInv` is the conjunction of
  thirteen parts. What is under way to the exchange asks for a call, ends a cancelled one or
  answers a heartbeat (`ServerInv`); a call is asked for once and not answered before
  (`WaitInv`, `OnceInv`); an answer under way to the client says what the exchange decided
  (`ClientInv`) and one is under way until the call has its result (`RepliesInv`); callbacks are
  those of live calls (`RouteInv`, `LiveInv`); what the exchange pushes, an accepted call asked
  for (`FedInv`); heartbeats are answered in order (`HeartbeatInv`). From it follow `RepliesKept`,
  `VerdictsReach`, `NothingFed`, `PushesReach` (the key computed from a push is that computed
  from the request) and `HeartbeatsReplied`. None of these is inductive: that an answer finds
  its call, with the right verdict, depends on frames that are still under way, in both
  directions.
  `EndToEndImplemented`: what the exchange does is `Decide`, `TakeBack` or a stutter; an answer on
  the receive thread is `Settle` if its handler waits and `Pass` if not (Kraken's second
  acknowledgement, an answer to a cancel), a push is `Deliver`, and all else that arrives is `Pass`.
  `Settle` needs `RoutingInv`: the verdict read from the frame is the one decided, the call has no
  result yet. `Deliver` needs one thing more, `GrantedInv`, that what is pushed and still under way
  some call was granted; `PushesGranted`. `feed` does not show that, since a cancel may have
  emptied it behind the push.
  `KrakenDescribesAll`: Kraken's identifier throws for no record at all, whatever its fields
  and their types, not only for the frames of the model. Hence `KrakenSurvives`. The other
  three identifiers have no such theorem, since it is false.
- `RestProofs`. Every step that sends performs a request that is `Proper`: one that can be sent
  (a method of the three, no body on a GET, fields of kinds that are known), with a signature of
  itself. Lemmas on the endpoint tables, on orders, on every `build()` and every `sign()` say that
  each makes one. `PerformOverwrites`: such a request overwrites any options the handle holds;
  hence `RequestsReachWire`. `UnsignedOf`: taking off the signature that `sign()` added leaves what
  was signed; hence `SignaturesCover`. `ReadingsAreMeant` and `ParsedAsMeant`: what the envelope
  and `from_json` do with a reply is what `OkMeansResult` says of it; hence `ResultsAreResults`.
  `WordsAreKnown`: each exchange's words are read as what they were written for. With it every
  encoder is undone by the reading (`TermByTermIsUnderstood`), or of Kraken's REST encoders,
  what is undone and what is missing is said term by term (`AddOrderIsUnderstood`,
  `BatchIsUnderstood`), of any order with a type, a side, a quantity and the prices of its type,
  whatever other terms of its exchange it has, together too: more orders than `OrdersOf` has.
  Hence `OrdersUnderstood`.
  The one thing the invariant adds is that no reply is on record when no result is.
- `TeardownProofs`. Three invariants, each on top of the one before. `References`: counts only
  fall, and who destroys something was the last to hold it; it yields `HeldIsAlive`, for every
  use. `JoinedFirst`: what is left of the teardown, and that the owner lets go of the connection
  only after the I/O thread has exited; hence `KeptConnectionJoinsElsewhere`, for every use but
  the URL factory's, which is the argument of `ix_ws_connection.hpp:142-144`. `Holders`: a thread
  inside the client is counted, and callbacks and responder outlive the I/O thread; hence
  `NothingDeadIsCalled`, for every use but the URL factory's and Crypto.com's documented one.

Only model-checked: the liveness properties `CallsReturn`, `QueueDrains` (of both clients),
`StopReturns`, `RequestServed` and `EverythingReleased`. Fairness is out of the prover's reach.

## 6. Findings

Where the code does not do what the repository says (runs with `expect: violation`):

1. A `subscribe()` that timed out leaves its handler in `pending_`; a late ack installs the
   callback, and no handle can remove it.
2. Coinbase: frames sent after the unlock; a cancel during the flush of an open reaches the
   exchange before its subscribe.
3. `CurlHttpClient::perform` sets the header list only if there is one: a request without headers
   is sent from the list, since freed, of an earlier one. A DELETE without a body after a POST
   keeps the POST's body in the same way.
4. `HeartbeatResponder::set_on_message` gives the connection a raw `this`. A Crypto.com client
   taken down in the order that `ix_ws_connection.hpp` prescribes (release, then `disconnect()`)
   is called after its destruction if a frame arrives in between. Disconnecting first is safe.
5. `apply_order_params_to_rest` does not say what the same `OrderParams` say on the WebSocket: it
   drops seven terms and four of the trigger's and the conditional's, and a trigger price takes the
   place of the limit price. A batch drops more.

Known limitations, which the models have and no run is spent on:

- Subscriptions that share a key. `cancel()` erases by route key, also the callback that a later
  subscription of that key installed; Coinbase's erases by message type, also that of another
  channel. `LiveHandleRouted` therefore excepts a handle that a later call of its key replaced.
- `WsReconnectSession::stop()` is final. Nothing resets `stop_requested_`: a later `start()`
  connects and leaves a worker that returns at once.
- Crypto.com's `execute()` calls `build()` as the argument of `dispatch()`, outside its `try`
  (`cryptocom/rest_client.inl:36`, `46`). An order type or time in force that Crypto.com has no word
  for is thrown at the caller, while line 19 has "`resp.ok` is the single failure check (mirrors
  the other adapters)", and the other three build inside the `try`. `OkMeansResult` therefore
  excepts it (`Thrown`), and says that it is the only exception to leave an `execute()`.
- A client made from a URL (`url` in `Teardown`) may destroy the socket on its own I/O thread, as
  `ix_ws_connection.hpp:117-131` warns, and its close callback after the callbacks are gone.

## 7. Not modelled, or simplified

- The race on `disconnect_cb_`, which is assigned without a lock.
- In `WsClient`, what JSON becomes: a frame that does not parse, or an answer that its type
  rejects, is an outcome. `FrameRouting` has the frames, but not the threads.
- Kraken's `depth` and `interval`: its `UnsubscribeRequest` leaves them out, and what the exchange
  makes of that cannot be learnt from the repository.
- Values: that a field of a result lands in the member of its name, the arithmetic of signatures,
  percent-encoding, and time other than the backoff's units and the stamps of requests.
- What Kraken makes of `close[price]` and `close[price2]`: they are read as the terms that the code
  puts there. A quantity is read in six decimals; what the exchange's precision is, is not known.
- A reply has one flaw at a time, in a kind of field; which of the fields of that kind it is, is
  not told apart.
- `TickPrice`: rounding of doubles, which TLA+ does not have. Over exact decimals its round trips
  would hold by construction.
- `RateLimitedWsErrorHandler`: two threads that pass the test together both log, and nothing says
  they may not. Status, interval and channel enumerations: tables no property tells apart.
- `QueueDrains` is stated for connections that open after `init()`. `ExchangeWsClient::init`
  reads `is_connected()` before it attaches its callbacks, so that an open in between is lost
  until the next; `CoinbaseStreamClient::init` does not ask at all. Both are in the models.
- The credentials file, examples and test doubles: I/O, and consumers of the library.
