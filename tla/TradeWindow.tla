---------------------------- MODULE TradeWindow ----------------------------
(***************************************************************************)
(* What marketdata-service keeps of the trades: the trades of the last     *)
(* 24 hours behind the ticker summary, the most recent ones, and candles.  *)
(*                                                                         *)
(* A trade carries the time order-service executed it at; it arrives by    *)
(* the trade subscription, in order and once, unless its ack is lost: then *)
(* it comes again, later, behind newer ones.  Asking for the ticker        *)
(* summary changes the window, so it is an action.  The three candle       *)
(* frames differ in their interval alone, and one of them is here.         *)
(*                                                                         *)
(* One clock: both services run in one cluster, and their clocks are taken *)
(* as one.  It advances in steps as long as a bound says.                  *)
(***************************************************************************)
EXTENDS Naturals, SequencesExt, Ordering

CONSTANTS
  Prices,
  Quantities,
  Window,       (* the 24 hours, in steps of the clock                     *)
  Interval,     (* the length of a candle, in steps of the clock           *)
  MaxCandles,   (* maxCandlesPerFrame                                      *)
  MaxTrades,    (* bound: trades ever executed                             *)
  MaxTime,      (* bound: steps of the clock                               *)
  MaxLost       (* bound: acks lost                                        *)

ASSUME WindowAssumption ==
  /\ Prices \subseteq Nat \ {0} /\ Quantities \subseteq Nat \ {0}
  /\ {Window, Interval, MaxCandles} \subseteq Nat \ {0}
  /\ {MaxTrades, MaxTime, MaxLost} \subseteq Nat

VARIABLES
  now,
  executed,     (* the trades of the stream, oldest first                  *)
  pos,          (* how many of them were delivered                         *)
  unacked,      (* those delivered whose ack was lost                      *)
  lost,         (* acks lost so far                                        *)
  applied,      (* history: what was handled, in order of arrival          *)
  recent,       (* recentTrades[0], Nothing before the first trade         *)
  window,       (* tickerTrades                                            *)
  starts,       (* candleFrame.Starts                                      *)
  buckets,      (* candleFrame.Buckets                                     *)
  shown         (* the last ticker summary answered                        *)

tapeVars  == <<now, executed>>
subVars   == <<pos, unacked, lost>>
modelVars == <<recent, window, starts, buckets>>
vars == <<tapeVars, subVars, applied, modelVars, shown>>

Trade   == [price : Prices, qty : Quantities, at : 0..MaxTime]
Nothing == <<>>

----------------------------------------------------------------------------
(* The window of the ticker *)

\* ExecutedAt.Before(ref - 24h)
Expired(t, ref) == t.at + Window < ref

\* Mutant of Pruned: every expired trade goes, wherever it is.
PrunedAnywhere(w, ref) == SelectSeq(w, LAMBDA t : ~ Expired(t, ref))

\* Mutant of Pruned: nothing ever goes.
PrunedNever(w, ref) == w

\* pruneTickerTradesLocked: the expired trades at the front are dropped, up to the
\* first that is not.
Pruned(w, ref) ==
  LET kept == {i \in DOMAIN w : \E j \in 1..i : ~ Expired(w[j], ref)}
  IN SubSeq(w, Len(w) - Cardinality(kept) + 1, Len(w))

PricesOf(w) == {w[i].price : i \in DOMAIN w}
VolumeOf(w) == MapThenSumSet(LAMBDA i : w[i].qty, DOMAIN w)

NoSummary == [last |-> 0, open |-> 0, close |-> 0, high |-> 0, low |-> 0, volume |-> 0]

\* The change rate is told by its two prices.
Summary(last, w) ==
  IF w = <<>> THEN [NoSummary EXCEPT !.last = last]
  ELSE [last |-> last, open |-> Head(w).price, close |-> Last(w).price,
        high |-> Max(PricesOf(w)), low |-> Min(PricesOf(w)),
        volume |-> VolumeOf(w)]

----------------------------------------------------------------------------
(* The candles *)

\* ExecutedAt.Truncate(dur)
Start(t) == t.at - (t.at % Interval)

Candle == [open : Prices, high : Prices, low : Prices, close : Prices, volume : Nat]

NewCandle(t) == [open |-> t.price, high |-> t.price, low |-> t.price,
                 close |-> t.price, volume |-> 0]

Traded(b, t) ==
  [b EXCEPT !.high = IF t.price > @ THEN t.price ELSE @,
            !.low = IF t.price < @ THEN t.price ELSE @,
            !.close = t.price,
            !.volume = @ + t.qty]

\* Mutant of Sorted: a new start goes to the end.
SortedByArrival(S, s) == Append(starts, s)

\* Starts with s added, ascending.
Sorted(S, s) == InOrderOf(S \cup {s}, <)

Newest(s, n) == SubSeq(s, IF Len(s) > n THEN Len(s) - n + 1 ELSE 1, Len(s))

\* applyTradeToCandle: the oldest candles beyond the limit are deleted.
ApplyTradeToCandle(t) ==
  LET s      == Start(t)
      known  == s \in DOMAIN buckets
      all    == IF known THEN starts ELSE Sorted(ToSet(starts), s)
      kept   == Newest(all, MaxCandles)
      candle == Traded(IF known THEN buckets[s] ELSE NewCandle(t), t)
  IN /\ starts' = kept
     /\ buckets' = [r \in ToSet(kept) |-> IF r = s THEN candle ELSE buckets[r]]

\* GET candles: the n newest, the oldest of them first.
Candles(n) ==
  LET asked == Newest(starts, n)
  IN [i \in DOMAIN asked |-> [at |-> asked[i], candle |-> buckets[asked[i]]]]

----------------------------------------------------------------------------
(* The actions *)

ApplyTradeEvent(t) ==
  /\ recent' = <<t>>
  /\ window' = Pruned(Append(window, t), t.at)
  /\ ApplyTradeToCandle(t)
  /\ applied' = Append(applied, t)

Tick ==
  /\ now < MaxTime
  /\ now' = now + 1
  /\ UNCHANGED <<executed, subVars, applied, modelVars, shown>>

\* order-service executes a trade and its event reaches the stream.
Execute(p, q) ==
  /\ Len(executed) < MaxTrades
  /\ executed' = Append(executed, [price |-> p, qty |-> q, at |-> now])
  /\ UNCHANGED <<now, subVars, applied, modelVars, shown>>

Receive ==
  /\ pos < Len(executed)
  /\ pos' = pos + 1
  /\ ApplyTradeEvent(executed[pos + 1])
  /\ \/ UNCHANGED <<unacked, lost>>
     \/ /\ lost < MaxLost
        /\ lost' = lost + 1
        /\ unacked' = unacked \cup {pos + 1}
  /\ UNCHANGED <<tapeVars, shown>>

Redeliver ==
  /\ \E i \in unacked :
       /\ ApplyTradeEvent(executed[i])
       /\ unacked' = unacked \ {i}
  /\ UNCHANGED <<tapeVars, pos, lost, shown>>

\* GET ticker: without any trade the answer is empty and nothing is pruned.
TickerSummary ==
  /\ recent # Nothing
  /\ window' = Pruned(window, now)
  /\ shown' = Summary(recent[1].price, window')
  /\ UNCHANGED <<tapeVars, subVars, applied, recent, starts, buckets>>

Init ==
  /\ now = 0
  /\ executed = <<>>
  /\ pos = 0
  /\ unacked = {}
  /\ lost = 0
  /\ applied = <<>>
  /\ recent = Nothing
  /\ window = <<>>
  /\ starts = <<>>
  /\ buckets = <<>>
  /\ shown = NoSummary

Next ==
  \/ Tick
  \/ \E p \in Prices, q \in Quantities : Execute(p, q)
  \/ Receive
  \/ Redeliver
  \/ TickerSummary

Spec == Init /\ [][Next]_vars

----------------------------------------------------------------------------
(* Properties *)

\* Type invariant.
TypeOK ==
  /\ now \in 0..MaxTime
  /\ executed \in Seq(Trade)
  /\ pos \in 0..Len(executed)
  /\ unacked \subseteq 1..pos
  /\ lost \in 0..MaxLost
  /\ applied \in Seq(Trade)
  /\ recent \in Seq(Trade) /\ Len(recent) <= 1
  /\ window \in Seq(Trade)
  /\ starts \in Seq(0..MaxTime)
  /\ buckets \in [ToSet(starts) -> Candle]

\* What the trades at the places I of ts come to, the first and last by their places.
Total(ts, I) ==
  [open |-> ts[Min(I)].price, close |-> ts[Max(I)].price,
   high |-> Max({ts[i].price : i \in I}), low |-> Min({ts[i].price : i \in I}),
   volume |-> MapThenSumSet(LAMBDA i : ts[i].qty, I)]

\* The answer is that of the trades of the last 24 hours that arrived, if any.
AnswersLastDay ==
  LET day  == {i \in 1..pos : ~ Expired(executed[i], now)}
      last == executed[pos].price
      all  == Total(executed, day)
  IN shown' = IF day = {} THEN [NoSummary EXCEPT !.last = last]
              ELSE [last |-> last, open |-> all.open, close |-> all.close,
                    high |-> all.high, low |-> all.low, volume |-> all.volume]

\* As long as every ack arrives, a summary is that of exactly the trades of the last
\* 24 hours that arrived (readmodel.go:310, 351).  A trade redelivered behind a newer
\* one outlives its day: the pruning stops in front of the newer one.
SummaryIsOfLastDay == [][TickerSummary /\ lost = 0 => AnswersLastDay]_vars

\* The last price and the change rate come from two lists that are cut by different
\* rules; they never disagree on the last trade, late deliveries included.
ListsAgreeOnLast == window # <<>> => recent # Nothing /\ Last(window) = recent[1]

\* Pruning looks at the front only, by the clock or by the time of a trade that may be
\* long past: still the window is an end of what arrived, and what is missing in front
\* is older than 24 hours, whatever came late (readmodel.go:153, 351).
WindowKeepsDay ==
  /\ ListsAgreeOnLast
  /\ \E k \in 0..Len(applied) :
       /\ window = SubSeq(applied, k + 1, Len(applied))
       /\ \A i \in 1..k : Expired(applied[i], now)

\* A candle that is answered accounts for every trade of its interval that arrived,
\* however late: none is lost to a bucket that was deleted and made again.
CandlesComplete ==
  \A c \in ToSet(Candles(MaxCandles)) :
    c.candle = Total(applied, {i \in DOMAIN applied : Start(applied[i]) = c.at})

Seen == {Start(applied[i]) : i \in DOMAIN applied}

\* However many candles are asked for, up to the limit, they are those of the newest
\* intervals that had trades, oldest first, without a gap or a repetition.
CandlesNewest ==
  \A n \in 1..MaxCandles :
    [i \in DOMAIN Candles(n) |-> Candles(n)[i].at] = Newest(InOrderOf(Seen, <), n)

\* In whatever order trades arrive, and whatever buckets were deleted meanwhile, the
\* candles are the newest that the arrivals make, each of all its trades
\* (readmodel.go:210, 421).
CandlesOfArrivals == CandlesNewest /\ CandlesComplete

=============================================================================
