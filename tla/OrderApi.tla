------------------------------ MODULE OrderApi ------------------------------
(***************************************************************************)
(* The HTTP handlers of order-service and the order book handler of        *)
(* marketdata-service, with everything that is text between them: what a   *)
(* request may carry, what the rows hold, what the events tell, what the   *)
(* answers say.  order-service keeps the numbers in its book and the texts *)
(* in its rows; marketdata-service parses the texts anew.                  *)
(*                                                                         *)
(* Faults, lost events and late deliveries are those of OrderRuntime and   *)
(* MarketFeed: here nothing fails and an event is handled as it is sent.   *)
(* An order is created and matched under the mutex, in two steps between   *)
(* which anybody may read.  Order i is the i-th row, so i is its created_at*)
(* too.                                                                    *)
(***************************************************************************)
EXTENDS DecimalText, Ordering

CONSTANTS
  Users,             (* subjects of the tokens auth-service signs          *)
  PriceTexts,        (* texts that requests give as price                  *)
  QuantityTexts,     (* and as quantity                                    *)
  ParamTexts,        (* texts of depth and limit                           *)
  MaxOrders,         (* bound: rows ever inserted                          *)
  DefaultListLimit,  (* defaultListLimit, maxListLimit                     *)
  MaxListLimit,
  DefaultDepth,      (* defaultDepth, maxDepth                             *)
  MaxDepth

ASSUME ApiAssumption ==
  /\ PriceTexts \cup QuantityTexts \cup ParamTexts \subseteq Texts
  /\ MaxOrders \in Nat
  /\ {DefaultListLimit, MaxListLimit, DefaultDepth, MaxDepth} \subseteq 1..MaxInt64

VARIABLES
  devMode,   (* DEV_MODE                                                   *)
  rows,      (* orders table                                               *)
  trades,    (* trades table                                               *)
  book,      (* in-memory book: price and remaining of each resting order  *)
  matching,  (* the order that is inserted and not yet matched, or 0       *)
  market     (* the read model of marketdata-service                       *)

vars == <<devMode, rows, trades, book, matching, market>>

Sides    == {"buy", "sell"}
Restable == {"open", "partially_filled"}
Statuses == Restable \cup {"filled", "cancelled"}

Live == {i \in DOMAIN rows : rows[i].status \in Restable}

\* What order-service makes of the texts of requests.
PriceOf    == [t \in PriceTexts |-> ParsePriceKRWMinor(t)]
QuantityOf == [t \in QuantityTexts |-> ParseQuantityScaled(t)]

Prices     == {PriceOf[t].value : t \in PriceTexts} \ {0}
Quantities == {QuantityOf[t].value : t \in QuantityTexts} \ {0}

NoItem == [side |-> "none", price |-> 0, rem |-> 0, status |-> "none"]

----------------------------------------------------------------------------
(* Who asks *)

NoUser  == "nobody"
DevUser == "dev-user"

\* The Authorization header: missing or no bearer token, a token that jwt.Parse does
\* not accept - signed with another secret or method, expired - or that of a user.
Headers == {"missing", "refused"} \cup Users

\* AuthMiddleware and currentUserID.
UserOf(h) == IF devMode THEN DevUser ELSE IF h \in Users THEN h ELSE NoUser

----------------------------------------------------------------------------
(* Answers of order-service, as status codes *)

\* POST /orders.  The price is parsed first; a quantity beyond int64 is not among
\* the errors the handler knows.
CreateAnswer(h, price, qty) ==
  IF UserOf(h) = NoUser THEN 401
  ELSE IF \/ price = EmptyText \/ qty = EmptyText
          \/ PriceOf[price].err # "none"
          \/ QuantityOf[qty].err \in {"format", "nonPositive"} THEN 400
  ELSE IF QuantityOf[qty].err = "overflow" THEN 500
  ELSE 201

\* Mutant of IsOwn: the user is not compared.
IsThere(h, i) == i \in DOMAIN rows

\* A foreign order is answered as a missing one.
IsOwn(h, i) == i \in DOMAIN rows /\ rows[i].user = UserOf(h)

\* GET /orders/{id}
GetAnswer(h, i) ==
  IF UserOf(h) = NoUser THEN 401 ELSE IF ~ IsOwn(h, i) THEN 404 ELSE 200

\* DELETE /orders/{id}; GetByID and the guarded UPDATE are one step under the mutex.
CancelAnswer(h, i) ==
  IF UserOf(h) = NoUser THEN 401
  ELSE IF i \notin DOMAIN rows THEN 404
  ELSE IF rows[i].user # UserOf(h) THEN 404
  ELSE IF rows[i].status \notin Restable THEN 409
  ELSE 200

AnyStatus == ""

\* The limit of a list: none and 0 stand for the default, more than the maximum for
\* the maximum.
ListLimit(raw) ==
  LET n == ParseInt(raw.sign, raw.whole).value
  IN IF n = 0 THEN DefaultListLimit ELSE IF n > MaxListLimit THEN MaxListLimit ELSE n

BadLimit(raw) ==
  LET n == ParseInt(raw.sign, raw.whole)
  IN raw # EmptyText /\ (raw.padded \/ raw.point \/ n.err # "none" \/ n.value < 0)

\* Mutant of Listed: what the limit leaves is filtered.
ListedThenFiltered(user, status, limit) ==
  SelectSeq(First(InOrderOf({i \in DOMAIN rows : rows[i].user = user}, >), limit),
            LAMBDA i : status \in {AnyStatus, rows[i].status})

\* PostgresStore.List: the newest first.
Listed(user, status, limit) ==
  First(InOrderOf({i \in DOMAIN rows : /\ rows[i].user = user
                                       /\ status \in {AnyStatus, rows[i].status}}, >),
        limit)

\* GET /orders?status=&limit=
ListAnswer(h, status, raw) ==
  IF UserOf(h) = NoUser THEN [code |-> 401, orders |-> <<>>]
  ELSE IF status \notin Statuses \cup {AnyStatus} \/ BadLimit(raw)
    THEN [code |-> 400, orders |-> <<>>]
  ELSE [code |-> 200, orders |-> Listed(UserOf(h), status, ListLimit(raw))]

----------------------------------------------------------------------------
(* The market view *)

DepthIn(view, item) == view.depth[item.side][item.price]

\* Mutant of AddDepth: a level that is there is replaced.
AddDepthOverwriting(view, item) ==
  [view EXCEPT !.depth[item.side][item.price] = item.rem]

\* addDepth: int64 addition, and a level that is not above 0 leaves the map.
AddDepth(view, item) ==
  LET sum == Wrapped(DepthIn(view, item) + item.rem)
  IN [view EXCEPT !.depth[item.side][item.price] = IF sum > 0 THEN sum ELSE 0,
                  !.wrapped = @ \/ DepthIn(view, item) + item.rem > MaxInt64]

\* subDepth: likewise.
SubDepth(view, item) ==
  LET rest == DepthIn(view, item) - item.rem
  IN [view EXCEPT !.depth[item.side][item.price] = IF rest > 0 THEN rest ELSE 0]

IsDepthActive(item) == item.status \in Restable

\* ReadModel.ApplyOrderEvent; an event that does not parse is logged and acked.
ApplyOrderEvent(view, i, row) ==
  LET price == ParsePrice(row.price)
      rem   == ParseQuantity(row.rem)
      item  == [side |-> row.side, price |-> price.value, rem |-> rem.value,
                status |-> row.status]
      prev  == view.items[i]
      less  == IF IsDepthActive(prev) THEN SubDepth(view, prev) ELSE view
      known == [less EXCEPT !.items[i] = item]
  IN IF price.err # "none" \/ rem.err # "none" THEN view
     ELSE IF IsDepthActive(item) THEN AddDepth(known, item) ELSE known

\* The events of the rows ks, one after the other.
Telling(new, view, ks) == FoldLeft(LAMBDA v, k : ApplyOrderEvent(v, k, new[k]), view, ks)

LevelOf(side, p) ==
  [price |-> FormatPrice(p), qty |-> FormatQuantity(market.depth[side][p])]

\* The n best prices of a side, as they are answered.
Levels(side, n, Better(_, _)) ==
  LET prices == InOrderOf({p \in Prices : market.depth[side][p] > 0}, Better)
  IN First([i \in DOMAIN prices |-> LevelOf(side, prices[i])], n)

\* GET orderbook?depth=
OrderBookAnswer(raw) ==
  LET n == ParseBoundedPositiveInt(raw, DefaultDepth, MaxDepth)
  IN IF n.err # "none" THEN [code |-> 400, buy |-> <<>>, sell |-> <<>>]
     ELSE [code |-> 200, buy |-> Levels("buy", n.value, >),
                         sell |-> Levels("sell", n.value, <)]

----------------------------------------------------------------------------
(* Matching *)

\* Resting orders that i meets.
Crossed(i) ==
  LET limit == PriceOf[rows[i].price].value
  IN {m \in DOMAIN book : /\ rows[m].side # rows[i].side
                          /\ IF rows[i].side = "buy" THEN book[m].price <= limit
                                                     ELSE book[m].price >= limit}

\* Of two of them, whether m is the one that a taker of that side meets first.
MetBefore(side, m, n) ==
  \/ book[m].price = book[n].price /\ m < n
  \/ IF side = "buy" THEN book[m].price < book[n].price ELSE book[m].price > book[n].price

Makers(i) == InOrderOf(Crossed(i), LAMBDA m, n : MetBefore(rows[i].side, m, n))

\* What is left of a taker, and its fills, when it has met m.
Meet(result, m) ==
  LET q == IF result.rem < book[m].rem THEN result.rem ELSE book[m].rem
  IN IF q = 0 THEN result
     ELSE [rem   |-> SafeSubInt64(result.rem, q).value,
           fills |-> Append(result.fills, [maker |-> m, price |-> book[m].price, qty |-> q])]

\* ProcessNewOrder.
MatchResult(i) ==
  FoldLeft(Meet, [rem |-> QuantityOf[rows[i].qty].value, fills |-> <<>>], Makers(i))

\* makerDeltas: what the fills took of m.
DeltaOf(fills, m) == FoldLeft(LAMBDA n, f : IF f.maker = m THEN n + f.qty ELSE n, 0, fills)

\* updateOrderRemainingAndStatus, and the taker's UPDATE.
MakerRow(row, delta) ==
  LET rest == ParseQuantityScaled(row.rem).value - delta
  IN [row EXCEPT !.rem = FormatQuantityScaled(rest),
                 !.status = IF rest = 0 THEN "filled" ELSE "partially_filled"]

\* Mutant of TakerRow: an order that met nobody keeps the text it came with.
TakerRowIfFilled(row, result) ==
  IF result.fills = <<>> THEN row
  ELSE [row EXCEPT !.status = IF result.rem = 0 THEN "filled" ELSE "partially_filled"]

TakerRow(row, result) ==
  [row EXCEPT !.rem    = FormatQuantityScaled(result.rem),
              !.status = IF result.fills = <<>> THEN "open"
                         ELSE IF result.rem = 0 THEN "filled" ELSE "partially_filled"]

\* PersistMatchResult's UPDATEs.
MatchedRows(i, result) ==
  [k \in DOMAIN rows |->
     IF k = i THEN TakerRow(rows[k], result)
     ELSE IF DeltaOf(result.fills, k) > 0 THEN MakerRow(rows[k], DeltaOf(result.fills, k))
     ELSE rows[k]]

RestingAt(price, rem) == [price |-> price, rem |-> rem]

----------------------------------------------------------------------------
(* Actions *)

\* POST /orders up to the INSERT and order.created, with the texts as they came.
CreateOrder(h, side, price, qty) ==
  LET i   == Len(rows) + 1
      row == [user |-> UserOf(h), side |-> side, price |-> price, qty |-> qty,
              rem |-> qty, status |-> "open"]
  IN /\ matching = 0
     /\ i <= MaxOrders
     /\ CreateAnswer(h, price, qty) = 201
     /\ rows' = Append(rows, row)
     /\ market' = ApplyOrderEvent(market, i, row)
     /\ matching' = i
     /\ UNCHANGED <<devMode, trades, book>>

\* The rest of it: the match, its rows and trades, an event for every maker in the
\* order they were met and one for the taker.
MatchOrder ==
  LET i         == matching
      result    == MatchResult(i)
      fills     == result.fills
      resting   == {m \in DOMAIN book : DeltaOf(fills, m) < book[m].rem}
      announced == [k \in DOMAIN fills |-> fills[k].maker] \o <<i>>
  IN /\ matching # 0
     /\ rows' = MatchedRows(i, result)
     /\ trades' = trades \cup
          {[taker |-> i, maker |-> f.maker, price |-> f.price, qty |-> f.qty] : f \in ToSet(fills)}
     /\ book' = [m \in resting \cup {k \in {i} : result.rem > 0} |->
                   IF m = i
                     THEN RestingAt(PriceOf[rows[i].price].value, result.rem)
                     ELSE RestingAt(book[m].price, book[m].rem - DeltaOf(fills, m))]
     /\ market' = Telling(MatchedRows(i, result), market, announced)
     /\ matching' = 0
     /\ UNCHANGED devMode

\* DELETE /orders/{id}
CancelOrder(h, i) ==
  LET row == [rows[i] EXCEPT !.status = "cancelled"]
  IN /\ matching = 0
     /\ CancelAnswer(h, i) = 200
     /\ rows' = [rows EXCEPT ![i] = row]
     /\ book' = [m \in DOMAIN book \ {i} |-> book[m]]
     /\ market' = ApplyOrderEvent(market, i, row)
     /\ UNCHANGED <<devMode, trades, matching>>

EmptyView ==
  [items   |-> [i \in 1..MaxOrders |-> NoItem],
   depth   |-> [s \in Sides |-> [p \in Prices |-> 0]],
   wrapped |-> FALSE]

Init ==
  /\ devMode \in BOOLEAN
  /\ rows = <<>>
  /\ trades = {}
  /\ book = [m \in {} |-> RestingAt(0, 0)]
  /\ matching = 0
  /\ market = EmptyView

Next ==
  \/ \E h \in Headers, s \in Sides, p \in PriceTexts, q \in QuantityTexts :
       CreateOrder(h, s, p, q)
  \/ MatchOrder
  \/ \E h \in Headers, i \in DOMAIN rows : CancelOrder(h, i)

Spec == Init /\ [][Next]_vars

----------------------------------------------------------------------------
(* Properties *)

\* A query parameter for n.
Param(n) == Text(FormatInt(n), FALSE, <<>>)

\* Type invariant; market.wrapped is a history of whether a depth ever left int64.
TypeOK ==
  /\ devMode \in BOOLEAN
  /\ rows \in Seq([user : Users \cup {DevUser}, side : Sides, price : PriceTexts,
                   qty : QuantityTexts, rem : Texts, status : Statuses])
  /\ trades \subseteq [taker : Nat, maker : Nat, price : Prices, qty : Nat]
  /\ DOMAIN book \subseteq DOMAIN rows
  /\ matching \in 0..Len(rows)
  /\ \A s \in Sides : market.depth[s] \in [Prices -> 0..MaxInt64]

\* What a restart would rebuild the book from: the texts of the live rows parse, to
\* exactly the numbers that the book holds - so that every match fits the rows, and
\* no remaining quantity is lost or grows on its way through its text (numeric.go:97,
\* rebuild.go:57).
BookIsParsedRows ==
  /\ TypeOK
  /\ DOMAIN book = Live \ {matching}
  /\ \A m \in DOMAIN book :
       /\ ParsePriceKRWMinor(rows[m].price) = Number(book[m].price)
       /\ ParseQuantityScaled(rows[m].rem) = Number(book[m].rem)

Abstract == INSTANCE Exchange WITH
  orders <- [i \in DOMAIN rows |->
               [side |-> rows[i].side, price |-> PriceOf[rows[i].price].value,
                qty |-> QuantityOf[rows[i].qty].value, rem |-> Scaled(rows[i].rem),
                status |-> rows[i].status]]

\* Read as numbers, the rows and the trades are those of the exchange: what a client
\* wrote as text is what is matched, filled and left over, to the last decimal.
ImplementsExchange == Abstract!Spec

\* Orders that marketdata-service can read the price of.
Readable == {i \in Live : ParsePrice(rows[i].price).err = "none"}

TableDepth(side, p) ==
  FoldLeft(LAMBDA n, i : IF /\ i \in Readable
                            /\ rows[i].side = side
                            /\ PriceOf[rows[i].price].value = p
                         THEN n + Scaled(rows[i].rem) ELSE n,
           0, [i \in DOMAIN rows |-> i])

\* Levels, read back: the price of each and how much is there.
ReadBack(levels) ==
  {<<ParsePriceKRWMinor(l.price).value, ParseQuantityScaled(l.qty).value>> : l \in ToSet(levels)}

\* What GET orderbook?depth=n shows of a side.
Shown(s, n) == ReadBack(OrderBookAnswer(Param(n))[s])

\* What GET orderbook answers, whatever depth is asked for, is what the table has at the
\* best prices, for the orders whose price marketdata-service reads: the depth comes
\* through parse, sum and format without a loss, and only worse prices are left out, where
\* the depth leaves them no room.  Should a sum ever leave int64, the answer shows less
\* than there is, never more (readmodel.go:90, 162, 362).
AnsweredDepthIsTable ==
  \A n \in 1..MaxDepth, s \in Sides :
    LET shown  == Shown(s, n)
        prices == {l[1] : l \in shown}
        live   == {p \in Prices : TableDepth(s, p) > 0}
    IN /\ \A l \in shown : l[2] \in 1..TableDepth(s, l[1])
       /\ ~ market.wrapped =>
            /\ \A l \in shown : l[1] \in live /\ l[2] = TableDepth(s, l[1])
            /\ live \ prices # {} => Cardinality(prices) = n
            /\ \A p \in prices, q \in live \ prices : IF s = "buy" THEN p > q ELSE p < q

\* An order is listed, read and cancelled by the same user and nobody else, and to
\* everybody else it does not exist (handler.go:152, 186, 237).
OnlyOwnOrders ==
  \A h \in Headers, i \in 1..MaxOrders :
    /\ i \in ToSet(ListAnswer(h, AnyStatus, Param(MaxListLimit)).orders) => GetAnswer(h, i) = 200
    /\ GetAnswer(h, i) = 200 <=> CancelAnswer(h, i) \in {200, 409}
    /\ GetAnswer(h, i) = 200 => \A g \in Headers : UserOf(g) # UserOf(h) => GetAnswer(g, i) # 200

\* A list leaves out only what its limit leaves no room for, and of that the oldest,
\* whatever is asked for and however it is filtered (store.go:184).
ListHidesOnlyOlder ==
  \A h \in Users, status \in Statuses \cup {AnyStatus}, raw \in ParamTexts :
    LET answer == ListAnswer(h, status, raw)
        shown  == ToSet(answer.orders)
        asked  == {i \in DOMAIN rows : IsOwn(h, i) /\ status \in {AnyStatus, rows[i].status}}
    IN answer.code = 200 =>
         /\ shown \subseteq asked
         /\ asked \ shown # {} => Cardinality(shown) = ListLimit(raw)
         /\ \A i \in shown, j \in asked \ shown : i > j

\* What a client wrote and order-service stored is the same number to marketdata-service:
\* every quantity, and every price without space around it (numeric.go:25, 49;
\* readmodel.go:454, 465).
AcceptedIsRead ==
  \A i \in DOMAIN rows :
    LET price == ParsePriceKRWMinor(rows[i].price)
        qty   == ParseQuantityScaled(rows[i].qty)
    IN /\ qty.err = "none" /\ ParseQuantity(rows[i].qty) = qty
       /\ price.err = "none"
       /\ ~ rows[i].price.padded => ParsePrice(rows[i].price) = price

\* Whatever number is written as a price or a quantity, both services read that number
\* again (numeric.go:97, readmodel.go:465).  What is there does not matter to it, so it
\* is looked at where nothing is.
NumbersRoundTrip ==
  rows = <<>> =>
    \A n \in 1..MaxInt64 :
      /\ ParseQuantityScaled(FormatQuantityScaled(n)) = Number(n)
      /\ ParseQuantity(FormatQuantityScaled(n)) = Number(n)
      /\ ParsePrice(FormatPriceKRWMinor(n)) = Number(n)

\* Every order that was accepted and is live is known to market data ("Numeric
\* fields are decimal strings", events.go:28, for both sides of the bus).
AcceptedIsShown == \A i \in Live : market.items[i] # NoItem

=============================================================================
