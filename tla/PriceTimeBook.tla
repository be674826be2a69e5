--------------------------- MODULE PriceTimeBook ---------------------------
(***************************************************************************)
(* What the order book and the matcher of order-service promise: a taker   *)
(* meets the best opposite order, earliest first at equal price, until it  *)
(* is used up or crosses nothing, and what is left of it rests.  No lists, *)
(* no levels, no index: of every order the book knows its terms, what is   *)
(* left and when it came.                                                  *)
(*                                                                         *)
(* It stands between two specifications: OrderBook is the data structure   *)
(* of the code and implements it, and OrderRuntime uses its book in these  *)
(* terms (BookIsPriceTime there).                                          *)
(***************************************************************************)
EXTENDS Naturals

CONSTANTS
  MaxOrders,    (* bound: orders there may be                              *)
  Prices,       (* limit prices                                            *)
  Quantities    (* order quantities                                        *)

VARIABLES
  order,        (* the terms of an order that rests or is being matched,   *)
                (* NoOrder for any other                                   *)
  rem,          (* remaining quantity of a resting order, 0 for any other  *)
  seq,          (* arrival number of a resting order, 0 for any other      *)
  nextSeq,      (* last arrival number handed out                          *)
  taker,        (* the order being matched, 0 when there is none           *)
  takerRem      (* what is left of it                                      *)

ptVars == <<order, rem, seq, nextSeq, taker, takerRem>>

OrderId == 1..MaxOrders
Sides   == {"buy", "sell"}
NoOrder == [side |-> "buy", price |-> 0]

Resting(o) == rem[o] > 0

Opposite(o) == {m \in OrderId : Resting(m) /\ order[m].side # order[o].side}

Crosses(o, m) ==
  IF order[o].side = "buy" THEN order[m].price <= order[o].price
                           ELSE order[m].price >= order[o].price

\* m is met before n.
Ahead(m, n) ==
  \/ IF order[m].side = "sell" THEN order[m].price < order[n].price
                               ELSE order[m].price > order[n].price
  \/ order[m].price = order[n].price /\ seq[m] < seq[n]

Best(m) == m \in Opposite(taker) /\ \A n \in Opposite(taker) \ {m} : Ahead(m, n)

Unknown(o) == order[o] = NoOrder

Terms(s, p) == [side |-> s, price |-> p]

Arrive(o, q) ==
  /\ rem' = [rem EXCEPT ![o] = q]
  /\ seq' = [seq EXCEPT ![o] = nextSeq + 1]
  /\ nextSeq' = nextSeq + 1

\* An order is put in the book as it is, whatever it crosses.
Rest(o, s, p, q) ==
  /\ taker = 0
  /\ Unknown(o)
  /\ order' = [order EXCEPT ![o] = Terms(s, p)]
  /\ Arrive(o, q)
  /\ UNCHANGED <<taker, takerRem>>

Submit(o, s, p, q) ==
  /\ taker = 0
  /\ Unknown(o)
  /\ order' = [order EXCEPT ![o] = Terms(s, p)]
  /\ taker' = o
  /\ takerRem' = q
  /\ UNCHANGED <<rem, seq, nextSeq>>

Hit(m) ==
  LET q == IF takerRem < rem[m] THEN takerRem ELSE rem[m] IN
  /\ taker # 0
  /\ takerRem > 0
  /\ Best(m)
  /\ Crosses(taker, m)
  /\ takerRem' = takerRem - q
  /\ rem' = [rem EXCEPT ![m] = @ - q]
  /\ IF rem[m] = q
       THEN /\ seq' = [seq EXCEPT ![m] = 0]
            /\ order' = [order EXCEPT ![m] = NoOrder]
       ELSE UNCHANGED <<seq, order>>
  /\ UNCHANGED <<nextSeq, taker>>

Finish ==
  /\ taker # 0
  /\ takerRem = 0 \/ ~ \E m \in Opposite(taker) : Crosses(taker, m)
  /\ IF takerRem > 0
       THEN Arrive(taker, takerRem) /\ UNCHANGED order
       ELSE /\ order' = [order EXCEPT ![taker] = NoOrder]
            /\ UNCHANGED <<rem, seq, nextSeq>>
  /\ taker' = 0
  /\ takerRem' = 0

Cancel(o) ==
  /\ taker = 0
  /\ Resting(o)
  /\ rem' = [rem EXCEPT ![o] = 0]
  /\ seq' = [seq EXCEPT ![o] = 0]
  /\ order' = [order EXCEPT ![o] = NoOrder]
  /\ UNCHANGED <<nextSeq, taker, takerRem>>

Init ==
  /\ order = [o \in OrderId |-> NoOrder]
  /\ rem = [o \in OrderId |-> 0]
  /\ seq = [o \in OrderId |-> 0]
  /\ nextSeq = 0
  /\ taker = 0
  /\ takerRem = 0

Next ==
  \/ \E o \in OrderId, s \in Sides, p \in Prices, q \in Quantities : Rest(o, s, p, q)
  \/ \E o \in OrderId, s \in Sides, p \in Prices, q \in Quantities : Submit(o, s, p, q)
  \/ \E m \in OrderId : Hit(m)
  \/ Finish
  \/ \E o \in OrderId : Cancel(o)

Spec == Init /\ [][Next]_ptVars

=============================================================================
