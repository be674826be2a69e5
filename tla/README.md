# Specification of the mock trading platform

TLA+ models of the exchange in `src/services`: what its order service, its event
stream, its market data and its frontend promise, model-checked with TLC on small
instances and, for what matters most, proved with TLAPS for every instance.

Source paths below are relative to `src/services/` unless they start with `src/`.

## 1. The system

| Part | State it keeps | Operations | Talks to |
|---|---|---|---|
| order-service, matcher runtime (`order-service/runtime.go`) | one mutex, the in-memory book, a `closed` flag | `SubmitOrder`, `CancelOrder`, recovery, fail-closed, start | store, matcher, publisher |
| order-service, book and matcher (`order_book.go`, `matcher.go`) | price levels as linked lists, sorted price slices, an index by id, a sequence counter | `AppendRestingOrder`, `RemoveOrderByID`, `ProcessNewOrder`, `SideSnapshot` | called by the runtime under its mutex |
| order-service, store (`store.go`, `rebuild.go`, `model.go`) | PostgreSQL tables `orders` and `trades` | `Create`, `Cancel`, `PersistMatchResult`, `LoadRestorableOrders`, `List`, `GetByID` | the runtime, the handlers |
| order-service, HTTP (`handler.go`, `middleware.go`, `main.go`) | none | `POST /orders`, `DELETE /orders/{id}`, reads, probes, shutdown | the runtime, the store |
| order-service, events (`events.go`, `publisher.go`, `match_publish.go`) | none | `PublishOrderEvent`, `PublishTradeEvent`, stream reconciliation | JetStream |
| JetStream (external) | the stream, one position per durable consumer | publish, deliver, acknowledge, redeliver | publisher, consumers |
| marketdata-service (`consumer.go`, `readmodel.go`, `handler.go`) | in memory: latest event of every order, depth per price, recent trades, 24 h window, candles | `Handle`, `ApplyOrderEvent`, `ApplyTradeEvent`, reads | JetStream, the frontend |
| wallet-service (`consumer.go`) | counters | `Handle` | JetStream |
| auth-service (`handler.go`, `token.go`) | none (signs tokens) | `Login` | the frontend |
| frontend (`TradePage.tsx`, `OrdersPage.tsx`, hooks, api) | per-page state, a token in session storage | refresh, create, cancel, sign in and out | the services over HTTP |
| charts, CI, compose, load test | deployment data | none | none |

The path of an order: `POST /orders` takes the runtime's mutex, inserts the row,
publishes `order.created`, matches it against the in-memory book, writes the result
in one transaction, publishes `order.updated` for every order it touched and
`trade.executed` for every fill, releases the mutex and answers 201. `DELETE` takes
the same mutex, updates the row under a status guard, removes the order from the
book and publishes `order.updated`. The book is never persisted: at start and after
a failed match it is rebuilt from the rows that are `open` or `partially_filled`.
The market data service consumes the stream through two durable consumers and keeps
its view in memory; the frontend polls both services.

### What is hard about it

* A statement can take effect although its call fails: the request's context goes
  down to the driver, so a client that hangs up turns an applied `INSERT`, `UPDATE`
  or `COMMIT` into an error, and the server may finish it in the call or long after it.
  Table, book and answer then disagree.
* The book is changed before the transaction that makes the change durable, so every
  failure in between needs the recovery to put the book back.
* The process can stop anywhere; what it had in memory is rebuilt from rows that were
  not written for that purpose (queue positions come from `created_at`).
* Events are best effort, delivered at least once, and redelivered late; the market
  data view must stay meaningful, and is lost when that service restarts.
* One mutex covers all of it, across network calls.
* Prices and quantities travel as decimal texts, which two services read with parsers
  of their own, and are summed in int64 without a check.
* The pages of the frontend ask again and again; answers overtake each other, outlive
  the filter, the page or the session they were asked in.

### What makes each part correct

* Runtime and store: fills conserve quantity; status and remaining quantity agree; a
  match fits the rows it is written to; acknowledged orders never stand crossed and are never
  traded through; an acknowledged cancel is final; whenever the mutex is free the book
  is what a restart would rebuild; the mutex is always given back.
* Book and matcher: every side is one queue in price-time order whatever the pointers
  underneath go through; no dangling node, no empty level.
* Events: an order's life is told in order, possibly with holes.
* Market data: depth is the sum of the orders it knows, under duplicates and
  reordering too; without faults it catches up with the table.
* Numbers: what a client wrote is what is stored, matched, left over, published, summed
  and answered, to the last decimal; a limit hides only what is older.
* Frontend: what a page shows belongs to the latest refresh and the present session,
  and no button stays disabled.

PROJECT.json lists the hazards one by one, at the line where each bites, with the
properties that would catch it.

## 2. Modules

| Module | Models | EXTENDS / INSTANCE |
|---|---|---|
| `Exchange` | abstract: what the two tables promise - orders come in, are matched once by price and time, are cancelled | |
| `OrderRuntime` | `runtime.go`, `match_publish.go`, what it calls of `store.go`, `rebuild.go`, `matcher.go`, and the answers of `handler.go` | refines `Exchange` |
| `MCOrderRuntime` | its instance for TLC, with the property that sums fills | `OrderRuntime`, `Exchange`; uses its book as `PriceTimeBook` allows |
| `PriceTimeBook` | abstract book: a set of orders with price-time priority | |
| `OrderBook` | `order_book.go`, `matcher.go` and the loop of `rebuild.go` as they are: linked lists, price slices, index | refines `PriceTimeBook` |
| `DecimalText` | `numeric.go`, and the parsers and formats of `readmodel.go` | |
| `OrderApi` | the handlers, users, lists and limits of order-service, and the order book answer of marketdata-service, over texts | extends `DecimalText`, refines `Exchange` |
| `MCOrderApi` | the texts that its instance for TLC has | `OrderApi` |
| `MarketFeed` | JetStream, the two subscriptions of marketdata-service, its depth, and the order book and trades it answers, the subscription of wallet-service | composes with `OrderRuntime` |
| `MCMarketFeed` | the bounds of its instance for TLC that no constant says | `MarketFeed` |
| `TradeWindow` | 24 hour window, ticker summary and candles of `readmodel.go` | |
| `StreamSetup` | `ensureStream` of the three services and an operator | |
| `TradePage` | the trading page of the frontend | |
| `OrdersPage` | the orders page of the frontend | |
| `Frontend` | one tab: both pages, the login page, routes, session | extends `TradePage`, instantiates `OrdersPage` |
| `Ordering` | sorting and limits, used by several modules | |
| `DataLemmas` | lemmas: finite sums, folds, sorts, limits, counting up | extends `Ordering`, `TLAPS` |
| `OrderBook_proofs`, `StreamSetup_proofs`, `OrderApi_proofs`, `TradeWindow_proofs`, `Frontend_proofs` | theorems | extend the module they are named after |
| `OrderRuntime_proofs` | theorems of the runtime, conservation, and that it implements `Exchange` | extends `MCOrderRuntime`, `DataLemmas` |
| `MarketFeed_proofs` | theorems | extends `MarketFeed`, `OrderRuntime_proofs` |

The mutants next to some definitions are plausible mistakes in the code a definition
stands for; PROJECT.json says which property catches which. The `map` in PROJECT.json
names the source lines of every definition.

### OrderRuntime

`pc` is the point the holder of the mutex has reached; `idle` means it is free,
`closed` that the runtime failed closed, `down` that the process is not running. A
call that takes the mutex is cut at every point where the outside can see a
difference: after the insert, between the reading of a cancel and its UPDATE and behind
it, at every step of the matching loop, at the transaction, at every single publish, at
the recovery and at the answer. A statement that was sent and whose answer was lost is
no longer part of a call: it takes effect whenever the database gets to it, whoever has
the mutex then, and whether the process still runs or not. An order that was so inserted
is `inFlight` until its row is there, a cancel is in `lateCancels`, a match transaction in
`late`, whose rows stay locked until it commits or rolls back. The locks are PostgreSQL's:
a later transaction and the UPDATE of a cancel wait for them, a recovery reads past them.

| Action | Code |
|---|---|
| `SubmitOrder` | lock, closed check, `Create`; one disjunct for an insert whose answer was lost |
| `PublishEvent` | `publishOrderEvent` and the loops of `PersistAndPublishMatchResult`, one event at a time |
| `MatchStep`, `MatchDone` | the loop of `ProcessNewOrder` and the rest of the taker that is put in the book |
| `PersistMatchResult` | the transaction: committed, and answered so or with an error |
| `PersistLater`, `MatchLands` | it is answered with an error while its COMMIT is on its way; the server commits or rolls back, at any later time |
| `PersistFails` | a maker has less left than was filled of it (`store.go:428`), or the database failed: rolled back |
| `ReadForCancel`, `CancelOrder`, `CancelFails` | `Cancel`: the read with its checks, the guarded UPDATE, an error with or without the UPDATE on its way |
| `CancelInBook` | `RemoveOrderByID`, or recovery when the book does not have the order |
| `InsertLands`, `CancelLands` | an INSERT, or the UPDATE of a cancel, takes effect after its call failed |
| `RecoverBook`, `FailClosed` | `recoverBookLocked`: rebuilt, or fails and the runtime closes |
| `AnswerSubmit`, `AnswerCancel` | 201 and 200 |
| `Crash`, `Restart` | the process stops anywhere; `NewOrderRuntime` rebuilds |

Abstractions: order `i` is the `i`-th row, which is also the order of `(created_at,
id)`; prices and quantities are small naturals; the copies of side and price that the
book holds are read from the row, as they never change; events carry what consumers
read. One pair. One replica (the chart pins it, and the README of the service
forbids more). The user of an order is left out: a foreign cancel changes nothing.

### OrderBook and PriceTimeBook

`OrderBook` keeps the pointers: nodes with `prev`, `next` and `level`, levels with
`head`, `tail` and `len`, the sorted slice of prices of either side, the index by id.
A behaviour is the life of one book: first the rows of a rebuild are put in without
matching (`Restore`), then it is in use (`inUse`) and orders are matched and cancelled. So a
book may be crossed from its start, as it is in the code when a match was rolled back.

`PriceTimeBook` has a set of resting orders and says only that a taker hits the best
of the other side, price first, then age, and rests when nothing crosses. Every step
of `OrderBook` is a step of it or a stutter (`ImplementsPriceTime`). The book inside
`OrderRuntime` is written the way `PriceTimeBook` is, and every change of it is a step of
`PriceTimeBook`, or is a new book (`BookIsPriceTime`): empty when the process stops, or what
a rebuild makes of the rows, in one step where `OrderBook` has a `Restore` for each row.

### DecimalText and OrderApi

A text is a sign, digits, a point and digits, each of which may be missing, with or
without space around; what order-service refuses for other characters is left out.
`Decimals` are the decimals of a quantity, `MaxInt64` is the greatest number of an int64.
`OrderApi` is order-service without its faults and marketdata-service without its
stream - those are `OrderRuntime` and `MarketFeed` - and with everything that is text:
`CreateOrder` validates and inserts a row with the texts as they came, `MatchOrder`
parses and formats what remains, every change is published and applied to the market
view at once, from its texts (`Telling`). The makers a taker meets (`Makers`) are sorted
out of the book as it stands, and each is met once (`Meet`). `CreateAnswer`, `GetAnswer`, `CancelAnswer`,
`ListAnswer` and `OrderBookAnswer` are what the five routes answer in a state. Which
user a request is of (`UserOf`) is what the middleware leaves: nobody, the user of the
token, or in development mode the one user there is.

### Exchange

Knows two tables and no book: an arriving order takes, from the orders that are live
and cross it, those before it in price and time. `OrderRuntime` maps to it through its
rows - an order that arrived and the commit of its match are its steps, the rest
stutters - as long as no insert or cancel is applied behind an error and a commit that is
answered with one is over by then. `OrderApi` maps to it
with every text read as a number.

### MarketFeed

Extends `OrderRuntime` by the consumers behind its stream. A subscription is a
position, and the set of messages that were delivered and not acked, which come again
later (AckWait), as often as their acks are lost. `ResumeFeed` is a restart of
marketdata-service or of wallet-service (`Services`) whose durable consumers survived,
`RereadFeed` one that starts from the beginning of the stream. Either service forgets what
it had in memory (`Forget`): the one its view, the other its counters. `since` is where the
wallet's subscription was when its process started, and `tallied` is history: the messages
that some process of the wallet counted.
Depth is kept incrementally, as in the code (`Moved`); recent trades are a list with a
limit. `OrderBook` and `RecentTrades` are what the read endpoints answer for a depth
and a limit. `Readers` says which subscriptions a behaviour has: the two services share
nothing, and need not be looked at together. Formatting is in `OrderApi`.

### TradeWindow

The ticker's window is pruned from the front only, both when a trade arrives (by its
own time) and when the ticker is read (by the clock). `Execute` is order-service
publishing a trade with its `executed_at`; `Receive` delivers in order and may lose
the ack, `Redeliver` delivers once more. One candle frame stands for the three, and
`Candles` is what the endpoint answers for a limit. The clock of both services is one.
`applied` is history: the trades in the order they arrived, those that came again twice.

### StreamSetup

Each service asks for the stream, and creates or updates it in a second call; an
operator provisions or extends it in between. `AddStream` succeeds if the stream is
missing or the same, as JetStream does. A service that fails exits and is restarted
by Kubernetes.

### TradePage, OrdersPage and Frontend

Ticker, order book, trades and candles are four copies of one panel, whose requests
carry a version; the list of my orders has none. A request under way is a slot: it is
answered by the server at one moment (`Serve`) and the answer is handled at a later one
(`MarketArrives`, `OrdersArrive`), or it fails. Submitting and cancelling wait for the
refetches they start, as the code's promises do. The market is a version number, an
order of mine is open or closed. `MaxTroubles` bounds together the requests that fail
and the polls that fire before the answers to the previous one are in.

`OrdersPage` has the same slots and no poll. A request remembers the filter it was sent
with; a create or a cancel refreshes with the filter of the render it was clicked in.
`alone` and `done` are history: whether the last refresh began with the page to itself
and for the chosen filter, and which cancels went through with their refresh.

`Frontend` shows one page at a time. Leaving one forgets what it had (`Unmount`): React
drops the state, and answers that still come set the state of nothing. What was sent
may still reach the server, which is what `MarketMoves` and `OrderMoves` allow at any
time. `SignIn` stores the token wherever the user is by then, and `Redirect` leads to
the trading page a moment later. The orders page follows a change of the session
(`FollowToken`), the trading page with its next poll.

## 3. What is checked

### Runs

| Run | Question | Instance |
|---|---|---|
| `runtime_faults` | does the inductive invariant hold, do fills, acknowledged orders and cancels survive any two faults of table and book, does the book change only as `PriceTimeBook` has it, and is the mutex always given back? | 3 orders, 2 prices, 2 quantities, 2 faults of 5 kinds, late commits among them; the first order buys (`FirstBuys`), faults and cancelled orders are three together (`ThreeIncidents`), the second fault comes with one price or one quantity (`SecondFault`) |
| `runtime_answered` | do the tables change as those of `Exchange`, is the free book what a restart would build, are terminal orders terminal, is the stream a faithful story? | 3 orders, 2 prices, 2 quantities, 2 faults of 4 kinds, crashes among them; `FirstBuys` |
| `book_structure` | do the pointers stay sound and implement price-time matching, in rebuilt and crossed books too? | 4 orders, 3 prices, 2 quantities |
| `order_api` | do numbers survive every parse, format and sum, do lists and users keep to their own, and is all of it an `Exchange`? | 3 orders, 8 price texts, 9 quantity texts, 2 users up to symmetry, and one price text when both of them have orders (`FewTexts`), 2 decimals, `MaxInt64` = 1023 |
| `feed` | is depth the sum over known orders, does the answered order book end as the table's, is nothing invented or missed, when acks are lost again and again and the services restart? | 2 orders, 2 prices, 2 quantities, 1 fault of order-service and 2 of the feed, both services, 2 recent trades; `FirstBuys`; a restart behind the durables (`RestartsAlone`) and a second fault of the feed (`SecondFaults`) without a fault of order-service and in a market of one price (`OnePrice`) |
| `trade_window` | do summary, window and candles say what arrived, late trades included, and is no trade of the day ever cut? | 3 trades, 3 prices, 5 steps of the clock, 2 lost acks, 2 candles |
| `stream_setup` | do three services that start at once come up, with a covering stream that keeps what was provisioned? | 3 services, 2 failures, 1 extension |
| `frontend` | do panels go back, hang in loading or fail to settle, and do lists and errors fit filter, cancels and session, across three pages? | 1 order, 2 requests per list, 1 cancel, 1 create or cancel at a time, 1 trouble |

Why the bounds are enough for the cases that matter: three orders are a maker, a
taker, and one that arrives or is cancelled in between; two prices and two quantities
give price and time priority, partial fills and makers left over; two faults are one
and one that hits its recovery (a failed rebuild needs a failed match before it), or a
commit that lands late and a second failure before it does. The eight kinds of fault are
split over the runs by what the properties ask: `runtime_faults` has those after which
table, book and answer disagree, among them inserts, cancels and commits that take effect
behind an error; `runtime_answered` leaves these three out, because `BookAgreesWithStore`,
`TerminalIsFinal` and `ImplementsExchange` are not all true with them (see
`cancel_resurrected` and below), and adds crashes; `feed` has the lost publishes. A commit
that is over when its error comes (`commitUnsure`) is in `runtime_answered`; in
`runtime_faults` it is the late commit that lands at once. The proofs of section 4 are for
every mix. `FirstBuys` halves the runs: what begins with a sale is the mirror image of what
begins with a purchase. Under `ThreeIncidents` two faults meet one cancelled order, one
fault two, and three cancels no fault. A second fault comes in a market of one price or of
one quantity (`SecondFault`): one fault, with its recovery, meets both at once.
Four orders in `book_structure` let a taker eat two levels, and a level empty and come back,
with an order in the middle of a list; any number of them may have come by a rebuild.
Two orders in the feed are a maker and a taker, whose two events each are enough for a
late one to meet a terminal one. Two faults of the feed are an ack that is lost twice, one
lost before or after a restart, or two restarts. A restart behind the durables
(`RestartsAlone`) and a second fault (`SecondFaults`) do not meet the faults of
order-service, and come in a market of one price, because what a restart leaves unacked,
in every number and order, is most of the states. There (`OnePrice`) the first order is for
2 and the second for 1: it is partly filled, and both services have seen every kind of
event. One lost ack, or one reading of the stream anew, meets two prices, two quantities
and a fault of order-service. Three candle intervals
(times 0 to 5, two steps each) are one more than a frame holds.

8 decimals and 2^63 - 1 are 2 and 1023 in `order_api`: that holds 10.23, so a quantity of
9.90 is accepted, two of them at one price leave int64, and "99" is refused; at 2 decimals
"0.005" has one too many and "0.05" needs its zero. `NumbersRoundTrip` goes through all
1023 numbers. The texts have every shape that one of the parsers treats on its own. Three
orders and a list limit of 2 cut a list; the default of 1 is less than that. While two
users have orders, `FewTexts` leaves one accepted price text: whose an order is decides
who sees it, what it costs whom it meets, and no line of the handlers reads both.

Two requests of a list are enough to overtake each other, and one failure to come between
them. `LoginPages` names the pages a user goes to while a login is under way; the
trading page is left out, as `Redirect` would lead to where he is. The market's version is
counted from when the trading page is shown, since nothing of it is kept. A second order and
cancel (`page_two_cancels`) change what a cancel may do to another, not the lists.

`CHECK_DEADLOCK FALSE` throughout: every instance stops when its bounds are used up,
and the system may stop when nobody calls.

### Disagreements

Four runs end in a violation, each of one property that a comment, a document or a
test states and the code does not keep (PROJECT.json, `findings`, quotes both).

| Run | What happens |
|---|---|
| `cancel_resurrected` | A cancel is applied although its call fails; the order stays in the book, and the next match makes its cancelled row a filled one. |
| `feed_stale` | A redelivered order event replaces a newer one: a filled order is in the depth again. |
| `page_two_cancels` | Two cancels share one `cancellingId`: a row that is still being cancelled can be cancelled again. |
| `price_unread` | A price with a space around it is accepted, stored as it came, published and matched; marketdata-service refuses the event, and the order is never in its depth. |

`runtime_answered` and `runtime_faults` draw the line of the first: without a cancel applied
behind an error terminal orders are final, and with one an acknowledged cancel still
is. `feed` does for the second: the depth stays the sum over what is shown, and
only a redelivery takes an order back (`OnlyRedeliveryGoesBack`). `AcceptedIsRead` does for
the fourth: every quantity, and every price but one with space around it, is read alike.

Nine more limits of the code are conditions in the properties instead of runs:

* After a match rolls back, its taker keeps its row and the rebuild rests it, possibly
  crossed, until the next taker (`runtime.go:83`; `src/docs/archive/MATCHER_PLAN.md:111`
  has it otherwise). `AckedOrdersNeverCross` is therefore about orders whose clients were
  answered 201, and so is `NoTradeThrough`.
* A commit that is answered with an error (`store.go:383`) may be executed after the
  recovery has read the rows, on another connection and with a context of its own
  (`runtime.go:122`). Book and table then differ under a free mutex: the book has more of
  the match's orders than their rows, until a later match fails on it (`store.go:428`) or the
  process restarts. `BookAgreesWithStore` and `ImplementsExchange` are about commits that are
  over, executed or not, when their error comes. `RuntimeInv` and `MatchFitsRows` are about
  all of them: only an order that such a match filled may be in the book with more than its
  row has (`CommittedUnseen`), and none that was acknowledged and is live is missing. If in
  addition the cancel of such an order failed and took effect before the commit wrote over it,
  the order may be live and in no book; `Promised`, of which `AckedOrdersNeverCross` and
  `NoTradeThrough` speak, leaves it out (`Strayed`).
* The counters of the wallet are in memory, behind a durable that keeps its position
  (`wallet-service/consumer.go:49`, `102`): a restart loses the count of what was acked
  before. `WalletCountsAll` says what is left: each process counts all that was delivered
  since it started, and what no process counted comes again.
* A market data service that resumes its durable consumers with an empty view shows
  part of the book. `FeedShowsTable` is checked for the restart that reads the stream
  from the start.
* A trade redelivered late stays in the 24 hour window beyond its day, as pruning stops
  in front of a newer one (`readmodel.go:354`). `SummaryIsOfLastDay` asks that no ack was
  lost; `WindowKeepsDay` does not, and says that the window never has too little.
* A service can overwrite subjects that an operator added after it read the stream
  (`publisher.go:154`). `OperatorSubjectsKept` is about what the stream was provisioned
  with.
* A depth that leaves int64 loses its level (`readmodel.go:165`), and the order book shows
  less than there is from then on. `AnsweredDepthIsTable` asks, for every depth that may be
  asked for, that the best prices of the table are answered with their exact sums as long as
  no sum wrapped, and always that no price shows more than there is.
* The list of the orders page is whatever answer came last, so that overlapping refreshes
  can leave it for another filter, or with an order shown live that was cancelled
  (`OrdersPage.tsx:60`). `LonelyListIsRight` is about a refresh that had the page to itself.
* Each poll makes the answers before it count for nothing (`TradePage.tsx:86`): `PanelsSettle`
  assumes that this happens only so often.

### Fairness

* `OrderRuntime`: weak fairness of the mutex holder's next step, of the restart, and of the
  end of a transaction that is on its way, whose locks the holder may be waiting for: the
  server executes its COMMIT, or finds the connection gone and rolls back. The
  holder is a goroutine that waits for calls which return (the recovery has a timeout;
  the driver returns when a connection dies), and Kubernetes restarts a process that
  stopped. Nothing obliges a client to call or a fault to happen.
* `MarketFeed`: weak fairness of delivery and redelivery for each subscription, which
  is what an explicit-ack durable consumer promises. Only `feed_stale` uses it: the
  server must not be excused from the redelivery it shows.
* `StreamSetup`: weak fairness of each service's own steps; the server answers, a failed
  pod is restarted. None for the operator, nor for failures.
* `Frontend`: weak fairness of the interval, of the server's answers, of their handling
  and of the end of a cancel, on the page that is shown. The refetch after a cancel has
  strong fairness: in the code it is sent at once, in the model it waits for a free slot,
  which other requests take in turn. None for users, sessions or failures.
  `PanelsSettle` also assumes that polls overtake the answers to earlier ones, and requests
  fail, only so often (`MaxTroubles`): without that the panels may starve.

## 4. What is proved

Each theorem holds for every value of the constants that its module's assumption allows,
and the assumptions say no more than what constants are: prices and quantities are
positive integers (`RuntimeAssumption`, `OrderBookAssumption`), limits and depths are integers
between 1 and the greatest one, texts are texts (`TextAssumption`, `ApiAssumption`). A
theorem that needs more says so in its statement. A state invariant named `...Inv` is what
makes the others inductive; where one is listed, the property under it follows from it.

### The runtime (`OrderRuntime_proofs`)

| Theorem | States | Rests on |
|---|---|---|
| `RuntimeInvariant` | `Spec => []RuntimeInv` | |
| `TypeCorrect` | `[]TypeOK` | `RuntimeInv` |
| `StatusesMatch` | `[]StatusMatchesRemaining` | `RuntimeInv` |
| `StartNeverBlocked` | no restorable row fails to parse, so no rebuild fails for its rows | `RuntimeInv` |
| `MatchesFitRows` | `[]MatchFitsRows`, late commits included | `RuntimeInv` |
| `AckedNeverCross` | `[]AckedOrdersNeverCross` | `RuntimeInv` |
| `CancelsAreFinal` | `AckedCancelIsFinal` | `RuntimeInv` |
| `RuntimeUsesPriceTime` | `BookIsPriceTime` | `RuntimeInv` |
| `QueueInvariant`, `NobodyIsTradedThrough` | `[]QueueInv`, `NoTradeThrough` | `RuntimeInv` |
| `ExactInvariant` | `[]ExactInv`, which speaks of timely commits | `RuntimeInv` |
| `BookIsTheTable` | `[]BookAgreesWithStore`, if inserts and cancels are answered and commits timely | `QueueInv`, `ExactInv` |
| `TerminalStays` | `TerminalIsFinal`, if cancels are answered | `RuntimeInv` |
| `StreamInvariant`, `StreamOnlyAdvances` | `[]StreamInv`, `[]StreamNeverGoesBack` | `RuntimeInv` |
| `CompleteInvariant`, `StreamComplete` | `[]CompleteInv`, `[]StreamIsComplete` | `StreamInv` |

None of these is inductive alone. That a match fits the rows needs the book to agree
with the table on every order it holds (`BookInv`), also in the middle of a match,
where what the match took from a maker so far counts towards what the book has of it
(`InPlayQty`), and also after a cancel that took effect behind an error, whose order is
still in the book: its row keeps its remaining quantity, so the quantities agree
although the statuses do not. That is why the invariant speaks of quantities and not of
statuses. Where a commit lands after the recovery the quantities do not agree either, and
the invariant says by which orders and in which direction (`InPlayRight`): the book has
more of an order than its row only if a trade of the order was committed whose taker was
not answered 201.

`LateInv` is about the transactions on their way. Each has its rows locked, so that no two of
them share a row and no other step changes one; of each row it updates it knows the terms, and
leaves it as it is or with less (`LateRow`), also of an order that was cancelled behind an
error while it was matched. Its taker is nobody's acknowledged order. That is what makes
`MatchLands` harmless at any time: rows shrink under a book that may have read them before,
statuses go forward, no acknowledged cancel is touched.

That acknowledged orders never cross needs the same of orders about to be
acknowledged (`Settled`), of the orders the book has although their row is closed
(`InPlay`), and, at the end of the matching loop, that what the taker has left crosses
nothing (`CrossInv`). `AckInv` keeps an acknowledged cancel out of book and match, which
gives `CancelsAreFinal` step by step. The book is in question only while it is in use
(`BookIsLive`): between a failed transaction and the end of the rebuild nothing is
claimed of it.

`QueueInv` is price-time priority through rebuilds: the book's sequence numbers order the
orders as their rows are ordered, a running match has used up whoever was due before a
maker it hit, and so has one that is on its way (`LateQueue`). `ExactInv` is two one-sided comparisons of book and table, each true as long
as one kind of fault does not happen: the book holds nothing that is over unless a cancel
was applied behind an error, and misses nothing that is live unless an insert was. Both are
about behaviours whose failed commits are over when their error comes.
`InsertsAreAnswered`, `CancelsAreAnswered` and `CommitsAreTimely`, the hypotheses of
`BookIsTheTable`, are that these faults are not among `FaultKinds`; each is needed, the second
as `cancel_resurrected` shows. They are assumptions on the database and the network, which no
line of the code enforces. `TerminalStays` needs the second only: a late commit fills rows that
are live and locked.

`RuntimeUsesPriceTime` and `BookImplementsPriceTime` (below) meet in `PriceTimeBook`: the one
says that the runtime asks of its book no more than `PriceTimeBook` has, for any faults, the
other that the linked lists give it. Side and price of an order are in its row for the
runtime and in the book for `OrderBook`; that a row keeps them as long as its order is in the
book, and that the order a call inserts is not in it yet, is what the first rests on.

`StreamInv` speaks of the events that wait (`outbox`) and of those in the stream together:
they tell every order in sequence, what waits is still true of its row, and nothing waits
behind the end of an order. The event of a cancel is the exception: it tells the copy that was
read before the UPDATE (`copy`), of which a commit that landed in between took something;
`CopyInPlace` says that the copy still fits between what was told before and the row. `CompleteInv` adds that without faults every row and every trade
is told or about to be.

### Exchange (`OrderRuntime_proofs`)

| Theorem | States | Rests on |
|---|---|---|
| `FillInvariant`, `NothingIsLost` | `[](FillInv /\ LateFills)`, `[]FillsConserved` | `RuntimeInv`, `StreamInv` |
| `MatchInvariant` | `[]MatchInv` | the same |
| `RuntimeImplementsExchange` | `ImplementsExchange`, if inserts and cancels are answered and commits timely | all of the runtime's |

The exchange says what each maker is owed by arithmetic: what is left of the taker after
all that is ahead of the maker in the table. The runtime walks its book and takes from one
maker after the other, and commits later. `MatchInv` adds up the running match, `QueueInv`
says that whoever is ahead of a maker it hit was used up, `ExactInv` that what the book had
of it was the row's; at the commit both ways of computing a fill are then the same. Every
other step, recoveries and crashes among them, is shown to be a step of the exchange's
tables or to leave them alone.

### The book (`OrderBook_proofs`)

| Theorem | States |
|---|---|
| `BookInvariant`, `BookTypeCorrect` | `[]BookInv`, `[]TypeOK` |
| `BookIsWellLinked` | `[]WellLinked` |
| `BookImplementsPriceTime` | `ImplementsPriceTime` |

`BookInv` says of a level that its orders are linked as they came: each to the first of
those behind it and back to the last of those in front of it (`Chain`). It names only
neighbours, so an append or a removal is followed no further than the nodes it touches. What
a walk along the pointers meets, and in which order, is shown of any chain apart from the
steps; `WellLinked` and the head of the best level being `PriceTimeBook`'s best order follow.

### The stream's readers (`MarketFeed_proofs`)

| Theorem | States | Rests on |
|---|---|---|
| `MarketRunsRuntime` | `MarketSpec => Spec`: all of the above holds with readers too | |
| `DeliveryInvariant` | `[]DeliveryInv` | |
| `ItemsInvariant`, `OnlyRedelivery` | `[]ItemsInv`, `OnlyRedeliveryGoesBack` | `StreamInv`, `DeliveryInv` |
| `DepthInvariant`, `DepthIsSum` | `[]DepthInv`, `[]DepthIsSumOfItems` | `ItemsInv` |
| `RecentInvariant`, `ShowsOnlyCommitted` | `[]RecentInv`, `[]NothingInvented` | `RuntimeInv`, `StreamInv`, `ItemsInv` |
| `CountInvariant`, `WalletMissesNothing` | `[]CountInv`, `[]WalletCountsAll` | `DeliveryInv` |
| `FeedTypeCorrect` | `[]FeedTypeOK` | all of these |
| `ShowsTheTable` | `[]FeedShowsTable`, if there are finitely many prices | `StreamIsComplete`, `ItemsInv`, `DepthInv` |

No theorem here bounds how often an ack is lost or a service restarts: `MaxFeedFaults` is any
number, a message may come again and again, restarts and re-readings come in any order.
`CountInv` has the wallet's counter between the messages delivered since its process started
(`since`) and, in order, exactly those; and every message delivered is counted by some process
(`tallied`) or not acked, since the handler comes before the ack.

`ShowsTheTable` goes from the tables to the answer: a complete stream and a view that handled
it in order have the same live orders, the depth is the sum over them, and sort and limit
take the best prices of it. That prices are finitely many (`PricesAreFinite`) is said because
a limit of "all of them" has to be a number; they are int64 in the code.

### Texts and answers (`OrderApi_proofs`)

| Theorem | States | Rests on |
|---|---|---|
| `NumbersSurvive` | `[]NumbersRoundTrip`, for all numbers of an int64 | |
| `RowsInvariant`, `ReadAlike` | `[]RowsInv`, `[]AcceptedIsRead` | |
| `ListsAreNewest` | `[]ListHidesOnlyOlder` | `RowsInv` |
| `OrdersArePrivate` | `[]OnlyOwnOrders` | `RowsInv` |
| `ApiInvariant`, `RestartRebuildsBook` | `[]ApiInv`, `[]BookIsParsedRows` | |
| `AnswersShowTable` | `[]AnsweredDepthIsTable` | `ApiInv` |
| `ApiImplementsExchange` | `ImplementsExchange` | `ApiInv` |

What a text stands for is a fold over its digits. The fold is reduced to its steps once, and
all about texts is shown by counting up the digits: that a format writes the digits of its
number and no more decimals than it must, that either parser reads them back, that the two
agree on what was accepted. `ApiInv` puts the table and the market's view side by side: the
book is the parsed rows, and every order of the view is its row. While a match is under way
its order is the exception (`TableInv`, `ViewInv`). The match is a fold over the makers, and is
treated as the walk of the taker along them; that the walk gives each maker what the
exchange owes it is an induction over its steps (`WalkLeft`, `WalkTook`), and makes
`ApiImplementsExchange`.

### The trades of the day (`TradeWindow_proofs`)

| Theorem | States | Rests on |
|---|---|---|
| `WindowTypeCorrect` | `[]TypeOK` | |
| `CandlesAreOfArrivals` | `[]CandlesOfArrivals` | `CandleInv` |
| `DayIsAlwaysKept` | `[]WindowKeepsDay` | `WindowInv` |
| `SummaryIsTheDay` | `SummaryIsOfLastDay` | `WindowInv` |

`CandleInv` says of every start that its bucket is the total of all trades of its interval
that ever arrived, and of the starts that they are the newest intervals of all that had
trades, ascending. The second is what makes the first inductive: a late trade of a deleted
interval gets a bucket of its own that holds one trade and not the interval, and it does no
harm only because an interval that once fell behind the newest is still behind them
(`TopOfMore`), so that the new bucket is the one the limit deletes, in the same step.

`WindowInv` keeps a cut: the window is `applied` from there on, and everything before the
cut is expired by the clock. Pruning by the time of a trade cuts no more than pruning by the
clock would, as no trade is younger than now. While no ack was lost `applied` is the stream
up to `pos`, whose times ascend; then what is expired is a front of it, pruning is exact, and
open, close, high, low and volume of the window are those of the day.

### The start of the services (`StreamSetup_proofs`)

| Theorem | States |
|---|---|
| `SetupTypeCorrect` | `[]TypeOK` |
| `ReadyIsCovered` | `[]ReadyMeansCovered` |
| `ProvisionedIsKept` | `[]OperatorSubjectsKept` |

`ReadyMeansCovered` is inductive with the types: every write of a service contains what
is required, also when it is written from an old answer. The last needs `KeptInv`: until
the operator extends, all he provisioned is in the answer a service is about to write
from.

### The frontend (`Frontend_proofs`)

| Theorem | States | Rests on |
|---|---|---|
| `LoadingNeverHangs` | `[]LoadingIsLatest` | `PanelInv` |
| `PanelsNeverGoBack` | `MarketNeverGoesBack` | `PanelInv` |
| `SessionIsTold` | `[]SessionIsShown` | `SessionInv` |
| `FrontTypeCorrect` | `[]FrontTypeOK` | `TabTypes`, `PanelInv` |
| `LonelyRefreshIsRight` | `[]LonelyListIsRight` | `LonelyInv` |

`PanelInv`: at most one request of the panel is the latest, its answer is not older than what
the panel shows (`NothingIsAhead`), and only its end ends the loading. That a late answer is
harmless needs nothing of when it was sent, only that it is no longer the latest. The session
theorem holds because a list answer leaves the error alone, which is what the session put
there. `LonelyInv` follows a refresh that had the page to itself: what is under way for it,
and then what is shown, is of the chosen filter and no older than the cancels that went
through before it began.

### How, and what is left to TLC

Definitions are written so that they can be proved about: no module with a theorem reaches a
RECURSIVE operator, a sort is `InOrderOf` (the sequence of a set's members in an order) instead
of a library operator that recurses, and a walk along pointers is a function whose front is
taken up to the first `Nil` (`UpToNil`). Induction over numbers and over finite sets is done with
`CountingUp` and `SubsetInduction` of `DataLemmas`, which state the claim as a set. The folds of the
community modules are functions given by CHOOSE; the lemmas name a function that satisfies
their equation, show that it is the only one and compute with its steps.

Model-checked only:

* liveness: `MutexIsReleased`, `AllComeUp`, `PanelsSettle`, `LoadingEnds`. Fairness and ENABLED
  are beyond the prover.
* the four disagreements of section 3, which are counterexamples.

Every invariant and every action property that a passing run checks, and every refinement, is
a theorem.

## 5. What is not modelled

* A late INSERT, UPDATE or COMMIT is modelled for one connection each and with row locks; that
  the pool has no connection left for the recovery while one hangs is the failure of the
  recovery (`FailClosed`). The database's own crash loses nothing that was committed.
* Texts with other characters than digits, sign, point and space around them; the int64
  sums of volumes in ticker and candles (`readmodel.go:247`, `339`), which are naturals in
  `TradeWindow`; times as texts.
* A clock that steps back between two inserts, which would change the queue at a
  rebuild; more than one replica of order-service (its chart has one, replaced with
  Recreate); a rolling update of marketdata-service, whose new pod cannot bind the durable
  consumers while the old one has them; a database call that never returns.
* The migration of `EnsureTable`, probes, metrics, configuration: no state of the exchange.
* auth-service: it signs a token for any user id and keeps nothing. Of a token the models
  know the user, or that it is refused.
* The remaining parameters of marketdata-service's routes, which are checked as the depth
  is; JSON.
* Of the frontend: the search by order id and the header's counts on the orders page, the
  candle interval, toasts, rendering; more than one tab - the session storage is the tab's own.
* Charts, CI, compose, load test.

## 6. Plan

Next is the lookup by order id of the orders page, which has a request and an error of its
own. After it the rebuild of the runtime, row by row as `OrderBook` has it.
