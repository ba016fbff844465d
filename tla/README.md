# TradeFlow-MicroSim: TLA+ specifications and proofs

This directory specifies the two matching services of TradeFlow-MicroSim and
what the API gateway and the metrics exporter count of them, checks the
specifications with TLC and proves theorems about them with TLAPS. A module is
translated from the C++ or Java it names; `PROJECT.json` says which lines each
definition stands for.

## The system

| Component | State | Operations | Hard behaviour |
| --- | --- | --- | --- |
| `OrderBook` (order matching engine) | `order_map_`, the levels `bid_levels_` and `ask_levels_` with their queues and cached totals, `mutex_` | `addOrder`, `cancelOrder`, `modifyOrder`, `triggerMatching`, `getBidLevels`, `getAskLevels` | raw pointers in the queues, cached totals, unchecked quantities, 32-bit overflow, loops under the lock |
| `OrderServiceImpl` | `order_books_`, `matchers_`, `next_order_id_`, `order_books_mutex_` | `SubmitOrder`, `CancelOrder`, `ModifyOrder`, `GetOrderBook` | a thread per RPC, nested locks, critical sections with gaps, a log that does not open, restarts |
| `publishTrade` and `SubscribeTrades` | `trade_subscribers_`, a queue, mutex and condition variable per subscriber | publish, subscribe, stream, unsubscribe | lost wake-ups, slow and vanished clients, order of updates |
| `TradeLog`, `Matcher` | a file; nothing | append a line; `match` | the constructor throws, crashes |
| `Metrics`, `MetricsHttpServer` | relaxed counters; one connection at a time | count, load one after the other, serve | figures of different moments, scrapers that do not send |
| WarpSpeed `OrderBook` (HFT simulator) | `buy_orders`, `sell_orders`, `order_lookup` | `add_order`, `cancel_order`, `match_orders`, `get_quote` | ids from clients, a lookup that only knows a price |
| WarpSpeed `MatchingEngine` and gRPC server | the book, `matching_thread_`, `running_`, `market_data_streams_`, `streams_mutex_` | `matching_loop`, `SubmitOrder`, `CancelOrder`, `StreamMarketData`, broadcast, shutdown | no lock between the thread and the RPCs, blocking writes under a lock, shutdown with clients connected |
| API gateway | a channel, counters | REST to gRPC | lost answers, restarts of the engine |
| Market data handler, frontend, infrastructure, generated stubs | | | placeholders, configuration, generated code |

The gateway calls the order matching engine over gRPC. Inside the engine a
handler looks up the book of its symbol, changes it under the book's `mutex_`,
and a submission then has it matched; each trade is published to the streams of
the symbol and logged while `mutex_` is held. Locks are taken in the order
`order_books_mutex_`, `mutex_` of a book, `subscribers_mutex_`, `m` of a
subscriber. The HFT simulator is a second, independent server: RPC threads and a
matching thread call one book, and all of them broadcast trades and quotes to
the streams under `streams_mutex_`.

What makes each part correct: a book keeps its queues, map and totals
consistent and trades by price, then time; the service loses, revives and
double-fills no order, logs what it publishes and always answers; a stream gives
its client every trade once and in order and holds up nobody; the HFT book can
cancel what rests and leaves no empty queue behind; the HFT server gives each
stream every trade once and in the end the quote of the book, and goes down with
nothing in use; the counters of gateway and engine account for each other.

## Modules

| Module | Models |
| --- | --- |
| `Quantities` | quantities of a fixed width, whose `+=` and `-=` wrap |
| `BookLevels` | one side of an `OrderBook`: levels, queues, totals, `addToLevel`, `removeFromLevel`, the fill of a front order |
| `OrderBook` | the public methods of `OrderBook` on those levels, one action each; matching is one action per trade, between taking and releasing `mutex_` (`matching`) |
| `PriceTimePriority` | the abstract specification of a book, which both books implement: resting orders, and trades that pair the best buy with the best sell |
| `RestingOrders` | operators on a book as the services see it: its orders in order of arrival, the pair that can trade, what a trade leaves |
| `TradeStream` | `publishTrade` and `SubscribeTrades`, an action per critical section; `pc` is where a stream's thread is |
| `TradeFeed` | the abstract specification of a subscription: the trades from its opening on, one after the other |
| `OrderService` | the RPC handlers with `order_books_mutex_`, the `mutex_` of each book, `matchers_`, the trade logs and restarts |
| `HftOrderBook` | the WarpSpeed book with its levels and `order_lookup`, one call of `MatchingEngine` at a time |
| `HftServer` | the WarpSpeed server: RPC threads, matching thread, streams, broadcast and shutdown, on one book that no lock guards |
| `Metrics` | the counters of the gateway and of the engine, lost answers, restarts, and the exporter that serves scrapers |
| `*_proofs` | theorems and proofs about `OrderBook` (with `BookLevels`), `TradeStream`, `OrderService`, `HftOrderBook`, `HftServer` and `Metrics` |
| `RestingOrders_proofs`, `Collections_proofs` | lemmas about the operators of `RestingOrders`, and about sums, smallest sets and sequences, that those proofs share |
| `MC*` | instances for TLC |

Names are the source's (`order_map_`, `addOrder`, `subscribers_mutex_`). Variables
whose comment says *history* are not in the program: they record what a property
needs, such as when an order arrived, and no guard of a modelled operation reads
them, but for the bounds named below. Definitions whose comment begins with
*Mutant* are plausible wrong versions of the definition after them, used to see
that a property notices.

Correspondence of state and steps:

* `OrderBook`: a queue holds ids where the code holds `Order*`, so a dangling
  pointer is an id outside `order_map_`. `Quantity` and the totals wrap at
  `MaxQuantity`, which stands for `INT32_MAX`. `addOrder` gets the quantities
  that the checks of `SubmitOrder` let through, `modifyOrder` any. The service
  never reuses an id (`getNextOrderId`), which is the guard on `issued`. The lock
  is exclusive, so adds, cancels and modifications are atomic. Two histories say
  where a bad quantity has been: `suspect` has the ids that were given a quantity
  of zero or less, or traded with one that had been, and `clamped` the levels
  whose total `matchPriceTime` set to 0.
* `TradeStream`: the queue, the mutex `m` and the condition variable of a
  subscriber are `q`, `m` and the label `waiting`; `Check` is the predicate of
  `cv.wait`, which gives `m` up atomically, and `WakeSpuriously` lets the wait
  end for no reason. `Write` happens with no lock held. There is one publisher
  per symbol, because the matching thread holds `mutex_` of the book.
* `OrderService`: an action is a handler's work under one lock. `SubmitOrder`
  takes its id; `getOrderBook` finds or creates the book; `OpenTradeLog` may
  throw; `addOrder`; `FindMatcher` reads `matchers_`; `TriggerMatching`,
  `ExecuteTrade` (which publishes), `FillOrders` (which logs and reduces) and
  `MatchingDone` match under `mutex_`. `CancelOrder` and `ModifyOrder` keep
  `order_books_mutex_` from `LockBooks` to their return. `Restart` loses
  everything but the files; the history `published` remembers what subscribers may
  have been told. Quantities are positive when submitted (`SubmitOrder` checks),
  anything when modified (`ModifyOrder` does not), and wrap at `MaxQuantity`. A
  race on `matchers_` is undefined behaviour; a crash, its worst likely outcome,
  is a `Restart`.
* `HftOrderBook`: orders are stored by value; `order_lookup` knows only a price.
  `Quantity` wraps at `MaxQuantity`, which stands for `INT64_MAX`. Clients choose
  ids and quantities, so an id may be used again and again. Two histories:
  `shared` has the ids that were given to an order while another of that id
  rested, `suspect` the orders (by arrival) that came with a quantity of zero or
  less or traded with one that did.
* `HftServer`: `SubmitOrder` takes any of the clients' ids and quantities, as the
  code does. Orders with one id are told apart by their number, `submitted`, and
  the book is a sequence of orders; `order_lookup` is kept, because which order
  `cancel_order` finds depends on it. A call of the book begins with `EnterBook`
  and ends with `Leave`; `in_book` has the threads that are in one. If two calls
  overlap and one of them writes, `undefined` becomes true and the model ends:
  nothing can be said of what the program does then, and all the properties are
  about behaviours up to that point. `Broadcast`, `Write` and `Unlock` are
  `broadcast_market_data`, a write at a time, of the trade or quote in the
  thread's hands. `Register` and `Unregister` are the two critical sections of
  `StreamMarketData`, and `stop` and `Join` the shutdown in the order of `main`.
  `since`, `received` and `seen` are histories of what was over when a stream was
  registered, which trades it got and which quote it got last; they are given up
  with the stream.
* `Metrics`: the gateway is the only client of the engine, and its counters are
  those of one life of it. (`docker-compose.yml` publishes the port of the engine,
  so others may call it; what they do, the gateway cannot bracket, and a gateway
  that restarts forgets its counters.) A member of `Threads` is a call under way,
  from the REST thread of the gateway to the handler that serves it. `Break` is a
  connection that breaks before or after the request has arrived; the handler goes
  on. `Crash` is a restart of the engine. The counters of the engine are relaxed
  atomics; the model increments and loads them in program order, which is what x86
  does. Where an exception may strike after an order was accepted (only
  `bad_alloc`), the model has none. `Collect` loads one counter, so everything may
  change between two of them.

## What the runs check

Order book (2 prices; 3 orders; every bound is in the configuration):

* `book`: orders of 1 and 2, and modifications to -2, 0 and 3, with
  `MaxQuantity = 3` so that quantities and totals wrap. Queues and map agree,
  queues are in time order, a total is the sum of its queue but for its width and
  for clamping, a trade of zero or less has a party that met such a quantity
  before, a matched book is uncrossed, matching terminates, and the book
  implements `PriceTimePriority`.

Trade streaming (two publishers and two streams):

* `stream`: two streams of one symbol; the client of one reads, the other may
  not. Nothing is lost, repeated or reordered; no stream joins or leaves the
  vector that `publishTrade` iterates over; `TradeFeed` is implemented;
  publishers return; a stream whose client left ends with the next trade of its
  symbol; every trade arrives at the client that reads.
* `stream_leak`: counterexample.

Order service (two handlers, two or three orders, one or two symbols):

* `service_interleavings`: submissions and cancellations, and trade logs that
  may not open. Orders are conserved, and none is left unmatched when the
  handlers are done.
* `service_return`: submissions, modifications (to -1 and 1, and `MaxQuantity = 2`,
  so that an order which trades with a negative one wraps) and `GetOrderBook` of
  one symbol, and a restart at any moment. Types hold, orders are conserved, a log
  lacks only the trade under way, and every handler returns.
* `service_crossed_by_modify`, `service_matchers_race`, `service_ids_reused`:
  counterexamples.

HFT simulator:

* `hft_book`: 3 ids, 2 prices, quantities -1 to 2 that wrap at 3, 3 submissions.
  No empty level is left, `order_lookup` is sound, an order that rests can be
  cancelled unless its id was given out while another of that id rested, a trade
  of zero or less has a party that met such a quantity before, and the book
  implements the same `PriceTimePriority`.
* `hft_ids_shared`: counterexample.
* `hft_server`: an RPC thread, the matching thread, a stream and a signal; two
  orders that share an id, one of them of quantity -1, and quantities that wrap at
  2. Types hold. No writer is used after its RPC returned and nothing after
  shutdown; the stream gets each trade once and ends up with the quote of the
  book; RPCs return and the shutdown completes, if clients read or leave.

Counters:

* `metrics`: two calls at once, three in all, two scrapers and a restart of the
  engine. What the gateway counted brackets what the engine did; a scrape
  accounts for all calls but those under way; every scraper is served.

### Bounds

Two prices give orders that cross at unequal and at equal prices and orders that
do not. Three orders give a partial fill against two counterparties, and a queue
of two that a third order meets; with four calls of `addOrder` and `modifyOrder`
one of them is modified on the way, so that a bad quantity, a wrapped total or a
lost place in the queue has a trade after it that would show it. Two handlers
suffice for each pair of critical sections to interleave. Two trades per symbol
let a stream have one in hand and one queued; the theorems about `TradeStream` are
for any number. In `service_return` two orders give one trade in each life of the
service, which is enough for a crash between publishing and logging, and one
symbol; more trades, more lives and more symbols are the business of the theorem
`LogsAudit`. That a handler which searches the books of several symbols waits for
each of them in turn is not in that run; `service_interleavings` has it, without
liveness. In `hft_server` one handler and the matching thread already compete for
everything two threads can compete for, and three orders give two trades. In
`metrics` there are more requests than threads, so that figures which drift apart
by one per call exceed the bound of `ScrapeAccounts`; the scrape of one operation
is enough because the three have counters of their own. `MaxClock`, `MaxOrders`,
`MaxTrades`, `MaxRequests`, `MaxRestarts` and `MaxCrashes` bound the calls of a
behaviour and are guards of the actions that count; where such a bound, a shutdown
or `undefined` ends behaviours the configuration says `CHECK_DEADLOCK FALSE`.
Symmetry is used only where no liveness is checked.

### Fairness

* `OrderBook`: weak fairness of the thread inside `triggerMatching`, which
  nobody can hold up. Callers owe nothing.
* `TradeStream`: threads run (weak fairness), and a publisher that finds `m` free
  again and again gets it (strong fairness: spurious wake-ups may take `m` for a
  moment). A client need not read, so `Write` is fair only for a cancelled
  stream, where gRPC fails the call, and for the clients in `Readers`.
* `OrderService`: strong fairness of each handler's steps, since other handlers
  may take the mutex in between.
* `HftServer`: strong fairness of a thread's steps and of `Register` and
  `Unregister`, since others may take `streams_mutex_` in between; `Write` is
  fair only for readers and for streams whose client is gone; `main` runs once it
  can. Nobody owes a call, a cancellation or a signal, and nothing is promised
  once `undefined` holds.
* `Metrics`: the thread of the exporter runs; a scraper that connected sends its
  request or closes the connection. The gateway and the handlers owe nothing:
  a scraper is served whatever they do.

## What the code does otherwise than its documentation

| Run | Finding |
| --- | --- |
| `stream_leak` | a stream of a quiet symbol outlives its client |
| `service_crossed_by_modify` | `ModifyOrder` does not trigger matching |
| `service_matchers_race` | `matchers_` is read without its mutex |
| `service_ids_reused` | ids restart at 1 while the logs are appended to |
| `hft_ids_shared` | of two resting HFT orders with one id, one cannot be cancelled |

The models show more, for which no run is kept:

* `ModifyOrder` passes any quantity on, and so does `SubmitOrder` of the HFT
  simulator: an order of zero or less trades, and a negative one lets its
  counterparty grow. `PositiveTrades` says how far this spreads. A level's total is
  as narrow as the quantity of one order, so `LevelTotals` fails for quantities
  that overflow it; `TotalsUpToOverflow` is what is left.
* With `LogsOpen` containing `FALSE`, a symbol whose log failed to open once
  trades unlogged. A cancellation that waits for the book of one symbol keeps all
  others waiting for `order_books_mutex_`. The halves of a `GetOrderBook` reply
  may be of different moments.
* In `HftServer`, `undefined` is reachable with two calls of the book. With a
  stream outside `Readers`, `RpcsReturn` fails: one slow client stops
  submissions, cancellations, matching and all streams. `ShutdownCompletes` needs
  every stream to be cancelled: `Shutdown` waits for a connected client for ever.
  Quotes and trades of different threads may be written out of order
  (`QuoteCatchesUp` is about the end), and of a book that has lost a side no
  quote is published, so clients keep the last one. The instrument of an order
  is dropped: all trade in one book.
* In `Metrics`, without the fairness of `SendRequest` no scraper behind an idle
  one is served.

## What is proved

Each theorem holds for every value of the constants that satisfies the `ASSUME`s
of its module, so for any number of threads, streams, symbols, ids, prices and
orders, and for any width of a quantity; three state a further condition, named
below. `PROJECT.json` lists the theorems. Every invariant of a passing run is one,
the action property `MatchingClearsTheBook` and the three refinements too.

**`OrderBook_proofs`**, on lemmas about `addToLevel`, `removeFromLevel` and the
fill of a front order. The inductive invariant is `TypeOK /\ BookIndexed /\
TimePriority /\ ArrivedBefore`. None of the first three is inductive alone: an
order can be taken out of its queue only because `BookIndexed` says where it is, a
trade finds its orders only because no level is empty, and an order that is added
goes behind the others only because, by `ArrivedBefore`, all of them arrived
before the present `clock`. From it follow

* `TypeCorrect`, `IndexCorrect`, `TimePriorityCorrect`: its parts;
* `MatchingClears`: `MatchingDone` is a step only when the best prices do not
  cross, and by `BestBidIsHighest` and `BestAskIsLowest` then no prices do;
* `Refinement`: every action is a step of `PriceTimePriority` or a stutter. The
  front of the best level has priority over every other order of its side
  because its price is the best and, within the price, its queue is sorted;
* `TradesArePositive`: an order that is not in `suspect` rests for a positive
  quantity, so a trade of two of them moves the smaller of two positive
  quantities, and neither difference wraps; any other trade makes both suspect;
* `TotalsCorrect`: `total_quantity` is what the orders at its price add up to,
  wrapped once, though the code wraps at every step (`ToQuantityTwice`), unless
  `clamped` has the level. The sum is taken over the set of orders at a price
  (`TotalAt`, which does not depend on the queue's order) because one order more
  or less, or filled, changes it by one summand; `BookIndexed` makes it equal to
  the sum over the queue (`QueueSum`);
* `LevelTotalsCorrect`, from the same invariant: under `PositiveQuantities` and in
  behaviours where the orders at a price never add up to more than a `Quantity`
  holds (`[]TotalsFit`; without it the property is false, see above), nothing wraps
  and nothing is clamped. `LevelTotals` is not an invariant of a run: it needs
  these conditions;
* `LevelTotalsOfSmallOrders`: the same where `TotalsFit` follows from the
  constants (`SmallOrders`): no quantity exceeds some `most`, and as many of
  `most` as there are ids fit a `Quantity`: four orders of 2 with
  `MaxQuantity = 8`, say.

**`HftOrderBook_proofs`**. The invariant `TypeOK /\ NoEmptyLevel /\ LookupSound`
gives `TypeCorrect`, `LevelsNeverEmpty` and `LookupCorrect` for whatever ids
clients choose. `OwnOrdersCancellable` needs `Owned` besides: an id that is not in
`shared` is at one place of the book at most, and `order_lookup` sends it there.
`TradesArePositive` goes as in `OrderBook_proofs`, with orders known by their
arrival. In `Refinement` an order is known by the moment it arrived, so that ids
may repeat. `Arrivals` says that no two orders of the book arrived at once, that
those of a queue arrived one after the other, and that all did before the present
`clock`; then the resting orders are a function of their arrivals (`ByArrival`),
and adding an order, taking one out of a queue and a trade of two fronts change it
as the abstract steps do.

**`HftServer_proofs`**. `NothingIsUsedAfterItIsGone` rests on `ControlTypes`,
`Locking` (a thread has writers only while it holds `streams_mutex_`),
`Registered` (they are of registered streams, whose RPC has not returned) and
`Stopped`. `EveryTradeReachesStreamsOnce` adds `Numbered` (a trade is in the hands
of one thread until its broadcast is over) and `Streaming` (a registered stream
received the trades whose broadcast is over and that are not in `since`, and the
one being written if it is past this stream). `TypeCorrect` needs `BookInv` as well:
what is in the book or in the hands of a thread that adds to it is an order, with
an id and a quantity that nobody checked, and a trade leaves orders behind that
still are (`TradeLeavesOrders`), however the quantities wrap.

**`TradeStream_proofs`**. The invariant says that a registered subscriber is
registered once, that a publisher works through the rest of the list it began
with, who holds which mutex, and, in `NothingLost`, that what a stream wrote, has
in hand and has queued is what was published to it since `opened`. `IterationIsSafe`
adds `Iterating`: what a publisher has still to reach is the rest of the vector,
which only `subscribers_mutex_` lets others change. `Refinement`
maps publishing, opening a stream, its `Write` and the client that leaves to the
steps of `TradeFeed`; all the rest is a stutter.

**`OrderService_proofs`**. `LogsAudit` rests on `Recorded`: the trades a log
lacks are one per life of the service, and the one of the present life is in the
hands of the thread that matches. `Created` is why no trade is lost when a log is
opened: as long as a handler still opens the log of a symbol it has
`order_books_mutex_`, so no other has the book of that symbol.

`TypeCorrect` and `OrdersConserved` rest on `BookInv`. `Numbered` and `RestOnce`
say that an id is given out once and rests at most once, in all books together;
`InHand`, that the trade which a handler has published but not yet booked is
still one of two orders that rest; `TradeOnce`, that two orders which traded do
not both rest, so that no trade is made a second time (`trades` is a set); and
`Accounted` is conservation, order by order. `RestingOrders_proofs` shows what
`Reduce` and `Unfilled` leave of a book (`TradeLeaves`).

`CompatibleOrdersAreMatched` assumes that `"modify"` is not one of `Operations`:
with it the property is false, which is the finding of `service_crossed_by_modify`.
The step that matters is that a cancellation or a trade gives no two orders a
chance that they did not have (`MatchesOfSubset`): a best order exists on each
side that has any (`BestExists`).

**`Metrics_proofs`**. `GatewayKnows` is not inductive as the gateway sees it,
because a call changes the two sides of a bracket in different steps; `Brackets`
makes room for the calls under way, the sets `Ahead`, `Won` and `Lost`. Their
cardinalities are why `Threads` is finite. `ScrapesAccount` adds `Accounted` (a
request that is counted has an outcome or is being handled) and `Scraping`: for
an operation whose requests are loaded already, what the snapshot has of its
outcomes, and the counters of those it has still to load, lack no more than
`Cardinality(Threads)`. Loading a counter changes neither side, a request that
is counted later only adds outcomes, and a crash empties the snapshot.
`TypeCorrect` follows from the same invariant.

**Sums.** `SumFunction` is a recursive function over a finite set. An induction
scheme over data cannot be cited here (its theorems take an operator as a
parameter), but none is needed: a statement about all finite sets that failed
would have a smallest set for which it fails (`SmallestSet`, from the
well-foundedness of `<`), and taking one element out of that set refutes it. So
`Collections_proofs` shows that a sum does not depend on the order of its
summands (`SumOfOneAndRest`), nor on how they are named (`SumReindexed`), and
what a changed summand changes.

Only model-checked:

* all liveness under fairness (`MatchingTerminates`, `PublisherReturns`,
  `NextTradeEndsStream`, `EveryTradeArrives`, `HandlersReturn`,
  `QuoteCatchesUp`, `RpcsReturn`, `ShutdownCompletes`, `ScrapesServed`), which the
  provers cannot reason about;
* the counterexamples.

## What is not modelled

* `PRO_RATA` and `CALL_AUCTION` of `OrderBook`: nothing selects a mode but the
  default, so no behaviour of the program reaches them.
* The conversion between the prices of requests (`double`) and ticks, the text of
  logs, replies and metrics, and the contents of a `GetOrderBook` reply, whose
  locks are modelled.
* The request counter of `GetOrderBook` and the figures of trades and
  subscriptions: each is a lone counter that relates to no other. The timers of
  the gateway likewise; its `getOrderBook` counts nothing.
* `MarketDataSimulator`, which nothing instantiates; the replay runner and the
  benchmark, single-threaded callers of `OrderBook`; the market data handler, a
  placeholder that prints a line.
* The frontend, deployment and monitoring configuration, and generated stubs.
* The scheduler, memory exhaustion, and the insides of gRPC: how the services use
  it is modelled (a thread per call, a write that blocks or fails, a channel that
  breaks, a shutdown that waits).
