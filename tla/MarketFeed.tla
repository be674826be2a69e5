----------------------------- MODULE MarketFeed -----------------------------
(***************************************************************************)
(* The exchange end to end: order-service (OrderRuntime), the JetStream    *)
(* stream it publishes to, and the consumers behind it - the order and the *)
(* trade subscription of marketdata-service, which keep its view of the    *)
(* market in memory, and the order subscription of wallet-service, which   *)
(* only counts, in memory too.                                             *)
(*                                                                         *)
(* A subscription is a durable consumer with explicit acks: the server     *)
(* remembers how far it delivered and what was not acknowledged, and       *)
(* delivers the latter again when AckWait is over.  The callback handles a *)
(* message and acks it whatever the outcome; nothing checks whether a      *)
(* message was seen before or is older than the last.                      *)
(*                                                                         *)
(* The pair is the one that is traded and every text an event carries is   *)
(* one that marketdata-service can read: what becomes of an order whose    *)
(* price it cannot read is the subject of OrderApi.  Side and price in an  *)
(* order event are those of the row, which never change.                   *)
(***************************************************************************)
EXTENDS OrderRuntime, SequencesExt, Ordering

CONSTANTS
  Readers,         (* sets of subscriptions; a behaviour has one of them   *)
  FeedFaultKinds,  (* the faults they meet, see AllFeedFaults              *)
  MaxFeedFaults,   (* bound: such faults in a behaviour                    *)
  MaxRecent        (* maxRecentTrades                                      *)

(***************************************************************************)
(*   "ackLost"  an ack is lost, or sent after AckWait                      *)
(*   "resume"   a service restarts, its durables still there               *)
(*   "reread"   it restarts and reads the stream from the start: stopping  *)
(*              drains the subscriptions, which may delete their durables  *)
(***************************************************************************)
AllFeedFaults == {"ackLost", "resume", "reread"}

MarketSubs == {"orders", "trades"}
WalletSubs == {"wallet"}
AllSubs    == MarketSubs \cup WalletSubs

\* The subscriptions of marketdata-service and those of wallet-service: each is one
\* process, and restarts by itself.
Services == {MarketSubs, WalletSubs}

ASSUME FeedAssumption ==
  /\ Readers \subseteq SUBSET AllSubs
  /\ FeedFaultKinds \subseteq AllFeedFaults
  /\ MaxFeedFaults \in Nat
  /\ MaxRecent \in Nat \ {0}

VARIABLES
  pos,             (* per subscription, how far the stream was delivered   *)
  unacked,         (* per subscription, delivered messages never acked     *)
  items,           (* orders: the last event applied to each order         *)
  bids,            (* depth per price                                      *)
  asks,
  recent,          (* recentTrades, newest first                           *)
  counted,         (* wallet-service: order events its process counted     *)
  since,           (* how far its subscription was when that started       *)
  tallied,         (* messages that it or a process before it counted      *)
  feedFaults,      (* the kinds of faults so far                           *)
  feedFaultCount   (* and how many there were                              *)

\* The subscriptions there are: those of services that have nothing to do with each
\* other need not be looked at together.
Subs == DOMAIN pos

subVars  == <<pos, unacked>>
viewVars == <<items, bids, asks, recent>>
walletVars == <<counted, since, tallied>>
feedFaultVars == <<feedFaults, feedFaultCount>>
feedVars == <<subVars, viewVars, walletVars, feedFaultVars>>

Item   == [status : Statuses \cup {"none"}, rem : Nat]
NoItem == [status |-> "none", rem |-> 0]

\* The stream's positions that a subscription's subject filter lets through.
Subject(c) == IF c = "trades" THEN "trade" ELSE "order"

Wanted(c) == {i \in DOMAIN stream : stream[i].kind = Subject(c)}

----------------------------------------------------------------------------
(* The read model *)

Depth(side) == IF side = "buy" THEN bids ELSE asks

\* Mutant of ActiveRem: an order counts whatever its status.
RemWhateverStatus(item) == item.rem

ActiveRem(item) == IF item.status \in Restable THEN item.rem ELSE 0

\* Mutant of Moved: what was known of the order is not taken out.
AddedOnly(depth, price, out, in) == [depth EXCEPT ![price] = @ + in]

\* subDepth of what was known of the order, then addDepth of what is known now; a
\* price whose depth drops to nothing leaves the map.
Moved(depth, price, out, in) ==
  LET left == IF depth[price] > out THEN depth[price] - out ELSE 0
  IN [depth EXCEPT ![price] = left + in]

ApplyOrderEvent(e) ==
  LET row  == rows[e.id]
      item == [status |-> e.status, rem |-> e.rem]
      moved == Moved(Depth(row.side), row.price, ActiveRem(items[e.id]), ActiveRem(item))
  IN /\ items' = [items EXCEPT ![e.id] = item]
     /\ bids' = IF row.side = "buy" THEN moved ELSE bids
     /\ asks' = IF row.side = "sell" THEN moved ELSE asks
     /\ UNCHANGED recent

TradeItem(e) == [taker |-> e.taker, maker |-> e.maker, price |-> e.price, qty |-> e.qty]

\* Newest first, the oldest beyond maxRecentTrades dropped.
ApplyTradeEvent(e) ==
  /\ recent' = First(<<TradeItem(e)>> \o recent, MaxRecent)
  /\ UNCHANGED <<items, bids, asks>>

\* What wallet-service does with an order event, of either subject.
Count(i) ==
  /\ counted' = counted + 1
  /\ tallied' = tallied \cup {i}
  /\ UNCHANGED <<viewVars, since>>

\* Consumer.Handle of the subscription's service.
Handle(c, i) ==
  CASE c = "orders" -> ApplyOrderEvent(stream[i]) /\ UNCHANGED walletVars
    [] c = "trades" -> ApplyTradeEvent(stream[i]) /\ UNCHANGED walletVars
    [] c = "wallet" -> Count(i)

EmptyView ==
  /\ items' = [o \in OrderId |-> NoItem]
  /\ bids' = [p \in Prices |-> 0]
  /\ asks' = [p \in Prices |-> 0]
  /\ recent' = <<>>

\* A service starts with nothing in memory; what its durables delivered stays delivered.
Forget(S) ==
  \/ S = MarketSubs /\ EmptyView /\ UNCHANGED walletVars
  \/ /\ S = WalletSubs
     /\ counted' = 0
     /\ since' = pos'["wallet"]
     /\ UNCHANGED <<viewVars, tallied>>

----------------------------------------------------------------------------
(* What it answers *)

\* The n first of the prices, with what is there.
Levels(depth, prices, n) ==
  First([i \in DOMAIN prices |-> [price |-> prices[i], qty |-> depth[prices[i]]]], n)

PricesIn(depth) == {p \in Prices : depth[p] > 0}

\* GET orderbook: the n best prices of either side, the best first.
OrderBook(n) == [bids |-> Levels(bids, InOrderOf(PricesIn(bids), >), n),
                 asks |-> Levels(asks, InOrderOf(PricesIn(asks), <), n)]

\* GET trades: the n newest, the newest first.
RecentTrades(n) == First(recent, n)

----------------------------------------------------------------------------
(* Deliveries and restarts *)

FeedFault(k) == /\ k \in FeedFaultKinds
                /\ feedFaultCount < MaxFeedFaults
                /\ feedFaultCount' = feedFaultCount + 1
                /\ feedFaults' = feedFaults \cup {k}

\* Mutant of Receive: acks before it handles; what fails in between is lost.
ReceiveAckingFirst(c) ==
  /\ c \in Subs
  /\ \E i \in Wanted(c) :
       /\ i > pos[c]
       /\ \A j \in Wanted(c) : j > pos[c] => i <= j
       /\ pos' = [pos EXCEPT ![c] = i]
       /\ \/ Handle(c, i) /\ UNCHANGED feedFaultVars
          \/ FeedFault("ackLost") /\ UNCHANGED <<viewVars, walletVars>>
  /\ UNCHANGED <<vars, unacked>>

\* The next message of a subscription is delivered and handled, and acked; the
\* ack may not arrive.
Receive(c) ==
  /\ c \in Subs
  /\ \E i \in Wanted(c) :
       /\ i > pos[c]
       /\ \A j \in Wanted(c) : j > pos[c] => i <= j
       /\ Handle(c, i)
       /\ pos' = [pos EXCEPT ![c] = i]
       /\ \/ UNCHANGED <<unacked, feedFaultVars>>
          \/ /\ FeedFault("ackLost")
             /\ unacked' = [unacked EXCEPT ![c] = @ \cup {i}]
  /\ UNCHANGED vars

\* A message that was never acked is delivered again, whatever came meanwhile, and the
\* ack may be lost once more.
Redeliver(c) ==
  /\ c \in Subs
  /\ \E i \in unacked[c] :
       /\ Handle(c, i)
       /\ \/ unacked' = [unacked EXCEPT ![c] = @ \ {i}] /\ UNCHANGED feedFaultVars
          \/ UNCHANGED unacked /\ FeedFault("ackLost")
  /\ UNCHANGED <<vars, pos>>

\* A service stops and starts again behind its durables.  What was delivered to its
\* buffers and not handled is lost there and stays unacked.
ResumeFeed(S) ==
  /\ S \subseteq Subs
  /\ FeedFault("resume")
  /\ \E upto \in [S -> 0..Len(stream)] :
       /\ \A c \in S : upto[c] >= pos[c]
       /\ pos' = [c \in Subs |-> IF c \in S THEN upto[c] ELSE pos[c]]
       /\ unacked' = [c \in Subs |->
            IF c \in S
              THEN unacked[c] \cup {i \in Wanted(c) : pos[c] < i /\ i <= upto[c]}
              ELSE unacked[c]]
  /\ Forget(S)
  /\ UNCHANGED vars

\* The durables are gone: everything is to be delivered, and nothing is not acked.
NewDurables(S) ==
  /\ S \subseteq Subs
  /\ FeedFault("reread")
  /\ pos' = [c \in Subs |-> IF c \in S THEN 0 ELSE pos[c]]
  /\ unacked' = [c \in Subs |-> IF c \in S THEN {} ELSE unacked[c]]

\* Mutant of RereadFeed: the view is kept while the stream is read again.
RereadKeepingView(S) ==
  /\ NewDurables(S)
  /\ UNCHANGED <<vars, viewVars, walletVars>>

\* It starts again with new durables, which deliver all there is.
RereadFeed(S) ==
  /\ NewDurables(S)
  /\ Forget(S)
  /\ UNCHANGED vars

FeedInit ==
  /\ \E S \in Readers : pos = [c \in S |-> 0]
  /\ unacked = [c \in Subs |-> {}]
  /\ items = [o \in OrderId |-> NoItem]
  /\ bids = [p \in Prices |-> 0]
  /\ asks = [p \in Prices |-> 0]
  /\ recent = <<>>
  /\ counted = 0
  /\ since = 0
  /\ tallied = {}
  /\ feedFaults = {}
  /\ feedFaultCount = 0

Deliveries == \E c \in AllSubs : Receive(c) \/ Redeliver(c)

MarketInit == Init /\ FeedInit

MarketNext ==
  \/ Next /\ UNCHANGED feedVars
  \/ Deliveries
  \/ \E S \in Services : ResumeFeed(S) \/ RereadFeed(S)

marketVars == <<vars, feedVars>>

MarketSpec == MarketInit /\ [][MarketNext]_marketVars

(***************************************************************************)
(* The server delivers to every subscription as long as it is there, and   *)
(* delivers again what is not acked.                                       *)
(***************************************************************************)
FairMarketSpec ==
  /\ MarketSpec
  /\ \A c \in AllSubs : WF_marketVars(Receive(c)) /\ WF_marketVars(Redeliver(c))

----------------------------------------------------------------------------
(* Properties *)

\* Type invariant.
FeedTypeOK ==
  /\ Subs \in Readers /\ pos \in [Subs -> Nat]
  /\ \A c \in Subs : unacked[c] \subseteq 1..pos[c]
  /\ items \in [OrderId -> Item]
  /\ bids \in [Prices -> Nat]
  /\ asks \in [Prices -> Nat]
  /\ recent \in Seq(Trades) /\ Len(recent) <= MaxRecent
  /\ counted \in Nat /\ since \in Nat /\ tallied \subseteq DOMAIN stream
  /\ feedFaults \subseteq FeedFaultKinds /\ feedFaultCount \in 0..MaxFeedFaults

DepthOf(side, price, view(_)) ==
  MapThenSumSet(view, {o \in OrderId : rows[o].side = side /\ rows[o].price = price})

\* The depth that is kept incrementally is at every price the sum over the orders
\* the view knows, under duplicated, reordered and re-read events
\* (readmodel.go:107, 162-191).
DepthIsSumOfItems ==
  /\ FeedTypeOK
  /\ \A p \in Prices :
       /\ bids[p] = DepthOf("buy", p, LAMBDA o : ActiveRem(items[o]))
       /\ asks[p] = DepthOf("sell", p, LAMBDA o : ActiveRem(items[o]))

\* What was never acked may be delivered behind later messages, and once more.
InOrder == feedFaults \subseteq {"reread"}

Drained == \A c \in Subs : unacked[c] = {} /\ \A i \in Wanted(c) : i <= pos[c]

TableRem(o) == IF rows[o].status \in Restable THEN rows[o].rem ELSE 0

\* levels are the n best prices at which the table has live orders of side.
IsTopOfTable(levels, side, n, Before(_, _)) ==
  LET live    == {p \in Prices : DepthOf(side, p, TableRem) > 0}
      shown   == {levels[i].price : i \in DOMAIN levels}
      missing == live \ shown
  IN /\ \A i \in DOMAIN levels : levels[i].qty = DepthOf(side, levels[i].price, TableRem)
     /\ \A i, j \in DOMAIN levels : i < j => Before(levels[i].price, levels[j].price)
     /\ shown \subseteq live
     /\ missing # {} => Len(levels) = n
     /\ \A p \in shown, q \in missing : Before(p, q)

\* End to end: when order-service met no fault and is between calls, and the feed
\* has handled all there is, the order book it answers is the top of the table, of
\* whatever depth is asked for; a feed that re-reads the stream from the start gets
\* there as well.
FeedShowsTable ==
  MarketSubs \subseteq Subs /\ pc = "idle" /\ faults = 0 /\ InOrder /\ Drained =>
    \A n \in 1..Cardinality(Prices) :
      /\ IsTopOfTable(OrderBook(n).bids, "buy", n, >)
      /\ IsTopOfTable(OrderBook(n).asks, "sell", n, <)

\* An order goes back when more of it is left than before, or when it was terminal and
\* changes; a feed that starts over knows nothing of it.
GoesBack(o) ==
  /\ items[o] # NoItem /\ items'[o] # NoItem
  /\ \/ items'[o].rem > items[o].rem
     \/ items[o].status \in {"filled", "cancelled"} /\ items'[o] # items[o]

\* The feed never shows an order going back in its life (readmodel.go:118).
FeedNeverGoesBack == [][\A o \in OrderId : ~ GoesBack(o)]_items

\* The only thing that takes an order of the feed back is a message that was never
\* acked and comes again, and it takes it back to what that message says: neither a
\* restart nor reading the stream once more does (consumer.go:105, readmodel.go:118).
OnlyRedeliveryGoesBack ==
  [][\A o \in OrderId : GoesBack(o) =>
       \E c \in Subs : \E i \in unacked[c] :
         /\ IsEventOf(stream[i], o)
         /\ items'[o] = [status |-> stream[i].status, rem |-> stream[i].rem]]_items

\* The feed shows nothing that was not committed, whatever failed: the trades it
\* answers are in the trades table and, unless delivered again, none is there twice;
\* of an order it shows no more is left to fill, in the table, than the feed shows.
NothingInvented ==
  /\ ToSet(RecentTrades(MaxRecent)) \subseteq trades
  /\ InOrder => \A i, j \in DOMAIN recent : recent[i] = recent[j] => i = j
  /\ \A o \in OrderId : items[o] # NoItem =>
       /\ o \in Orders
       /\ rows[o].rem <= items[o].rem

\* The counters live in memory behind a durable that keeps its position.  A process of
\* wallet-service counts every event delivered since it started at least once, and once
\* only while acks arrive; across its restarts, an event that no process counted is
\* delivered again (wallet consumer.go:45, 103).
WalletCountsAll ==
  "wallet" \in Subs =>
    LET got(p) == {i \in Wanted("wallet") : p < i /\ i <= pos["wallet"]} IN
    /\ Cardinality(got(since)) <= counted
    /\ InOrder => counted = Cardinality(got(since))
    /\ got(0) \ tallied \subseteq unacked["wallet"]

=============================================================================
