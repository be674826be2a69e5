------------------------------ MODULE Exchange ------------------------------
(***************************************************************************)
(* What the exchange promises to who looks at its two tables: orders come  *)
(* in one after another, each is matched once, at its arrival, against the *)
(* orders that are live then, by price and then by time, and a live order  *)
(* can be cancelled.  There is no book, no mutex, no recovery and no text  *)
(* here: OrderRuntime implements it with all of these but the last, and    *)
(* OrderApi with the numbers as the texts they are.                        *)
(***************************************************************************)
EXTENDS Naturals, Sequences, FiniteSetsExt

CONSTANTS
  Prices,     (* the prices an order can have                              *)
  Quantities  (* the quantities                                            *)

VARIABLES
  orders,   (* every order ever accepted, the oldest first                 *)
  trades    (* every fill                                                  *)

vars == <<orders, trades>>

Live(o) == orders[o].status \in {"open", "partially_filled"}

\* Maker m is at a price that taker o accepts.
Crosses(o, m) ==
  IF orders[o].side = "buy" THEN orders[m].price <= orders[o].price
                            ELSE orders[m].price >= orders[o].price

Makers(o) ==
  {m \in DOMAIN orders : /\ Live(m)
                         /\ orders[m].side # orders[o].side
                         /\ Crosses(o, m)}

\* m has priority over n, on their side of the market: by price, then by time.
Before(m, n) ==
  \/ orders[m].side = "sell" /\ orders[m].price < orders[n].price
  \/ orders[m].side = "buy" /\ orders[m].price > orders[n].price
  \/ orders[m].price = orders[n].price /\ m < n

\* What there is for o ahead of maker m, and what o takes of m after that.
AheadOf(o, m) ==
  MapThenSumSet(LAMBDA n : orders[n].rem, {n \in Makers(o) : Before(n, m)})

Fill(o, m) ==
  IF AheadOf(o, m) >= orders[o].rem THEN 0
  ELSE IF orders[m].rem <= orders[o].rem - AheadOf(o, m) THEN orders[m].rem
  ELSE orders[o].rem - AheadOf(o, m)

Filled(order, qty) ==
  IF qty = 0 THEN order
  ELSE [order EXCEPT !.rem = @ - qty,
                     !.status = IF order.rem = qty THEN "filled" ELSE "partially_filled"]

----------------------------------------------------------------------------

Place(side, price, qty) ==
  /\ orders' = Append(orders, [side |-> side, price |-> price, qty |-> qty,
                               rem |-> qty, status |-> "open"])
  /\ UNCHANGED trades

\* The order that arrived last is matched, each maker at its own price.
Match ==
  LET o      == Len(orders)
      makers == {m \in Makers(o) : Fill(o, m) > 0}
      taken(i) == IF i = o THEN MapThenSumSet(LAMBDA m : Fill(o, m), makers)
                  ELSE IF i \in makers THEN Fill(o, i)
                  ELSE 0
  IN /\ orders # <<>>
     /\ orders[o].status = "open"
     /\ orders' = [i \in DOMAIN orders |-> Filled(orders[i], taken(i))]
     /\ trades' = trades \cup
          {[taker |-> o, maker |-> m, price |-> orders[m].price, qty |-> Fill(o, m)] :
             m \in makers}

Cancel(o) ==
  /\ Live(o)
  /\ orders' = [orders EXCEPT ![o].status = "cancelled"]
  /\ UNCHANGED trades

Init == orders = <<>> /\ trades = {}

Next ==
  \/ \E side \in {"buy", "sell"}, price \in Prices, qty \in Quantities :
       Place(side, price, qty)
  \/ Match
  \/ \E o \in DOMAIN orders : Cancel(o)

Spec == Init /\ [][Next]_vars

=============================================================================
