----------------------------- MODULE OrderBook -----------------------------
(***************************************************************************)
(* The in-memory book of order-service as the code builds it: per side a   *)
(* map from price to a doubly linked level and a sorted slice of prices,   *)
(* over both an index from order id to node; and the matcher that walks    *)
(* it.  The caller holds the runtime's mutex, so one order is matched at a *)
(* time and a cancel comes between two matches.                            *)
(*                                                                         *)
(* A behaviour is the life of one book.  Before the runtime uses it, the   *)
(* rows of the table are put in without matching, so it may be crossed     *)
(* from then on: a match that was rolled back leaves its order to a rebuild.*)
(*                                                                         *)
(* Order ids are fresh and values are positive (the runtime parses them    *)
(* first), so the error returns of AppendRestingOrder and ProcessNewOrder  *)
(* are never taken.                                                        *)
(***************************************************************************)
EXTENDS Naturals, SequencesExt

CONSTANTS
  MaxOrders,    (* bound: orders ever submitted                            *)
  Prices,       (* limit prices                                            *)
  Quantities    (* order quantities                                        *)

ASSUME OrderBookAssumption ==
  /\ MaxOrders \in Nat
  /\ Prices \subseteq Nat \ {0}
  /\ Quantities \subseteq Nat \ {0}

VARIABLES
  node,         (* the nodes, by the order they hold                       *)
  levels,       (* per side and price the level, NoLevel where there is none*)
  prices,       (* per side the prices with a level, best first            *)
  byID,         (* the orders the index knows                              *)
  nextSeq,      (* last Sequence handed out                                *)
  inUse,        (* whether the rebuild is over                             *)
  used,         (* how many orders came                                    *)
  taker,        (* the order being matched, Nil when there is none         *)
  takerRem      (* TakerRemainingQuantity                                  *)

bookVars  == <<node, levels, prices, byID>>
takerVars == <<used, taker, takerRem>>
vars      == <<bookVars, nextSeq, inUse, takerVars>>

Nil     == 0
OrderId == 1..MaxOrders
Sides   == {"buy", "sell"}

NoNode  == [side |-> "buy", price |-> 0, rem |-> 0, seq |-> 0,
            prev |-> Nil, next |-> Nil, inLevel |-> FALSE]
NoLevel == [head |-> Nil, tail |-> Nil, len |-> 0]

Node  == [side : Sides, price : Nat, rem : Nat, seq : Nat,
          prev : OrderId \cup {Nil}, next : OrderId \cup {Nil}, inLevel : BOOLEAN]
Level == [head : OrderId \cup {Nil}, tail : OrderId \cup {Nil}, len : Nat]

Better(s, p, q) == IF s = "buy" THEN p > q ELSE p < q

----------------------------------------------------------------------------
(* A side *)

\* A price goes before the first one it beats.
InsertPrice(s, p) ==
  LET worse == SelectInSeq(prices[s], LAMBDA q : Better(s, p, q))
  IN IF worse = 0 THEN Append(prices[s], p) ELSE InsertAt(prices[s], worse, p)

\* The node becomes the tail of its level, which is made if there is none.
AddNode(n, new) ==
  LET s == new.side
      p == new.price
      l == levels[s][p]
  IN /\ node' = [o \in OrderId |->
                   IF o = n THEN [new EXCEPT !.prev = l.tail, !.inLevel = TRUE]
                   ELSE IF o = l.tail THEN [node[o] EXCEPT !.next = n]
                   ELSE node[o]]
     /\ levels' = [levels EXCEPT ![s][p] =
                     [head |-> IF l.tail = Nil THEN n ELSE l.head,
                      tail |-> n, len |-> l.len + 1]]
     /\ prices' = IF l = NoLevel THEN [prices EXCEPT ![s] = InsertPrice(s, p)]
                                 ELSE prices

\* The list around node n, as PriceLevel.remove leaves it; n is cut loose.
Unlinked(nodes, n) ==
  [o \in OrderId |->
     IF o = n THEN [nodes[n] EXCEPT !.prev = Nil, !.next = Nil, !.inLevel = FALSE]
     ELSE IF o = nodes[n].prev THEN [nodes[o] EXCEPT !.next = nodes[n].next]
     ELSE IF o = nodes[n].next THEN [nodes[o] EXCEPT !.prev = nodes[n].prev]
     ELSE nodes[o]]

\* Mutant of LevelWithout: removing the last node leaves the tail behind.
LevelKeepsTail(l, n) ==
  [head |-> IF node[n].prev = Nil THEN node[n].next ELSE l.head,
   tail |-> l.tail,
   len  |-> l.len - 1]

LevelWithout(l, n) ==
  [head |-> IF node[n].prev = Nil THEN node[n].next ELSE l.head,
   tail |-> IF node[n].next = Nil THEN node[n].prev ELSE l.tail,
   len  |-> l.len - 1]

\* Mutant of RemoveNode: the price of an emptied level stays listed.
RemoveNodeKeepingPrice(nodes, n) ==
  LET s == node[n].side
      p == node[n].price
      l == LevelWithout(levels[s][p], n)
  IN /\ node' = Unlinked(nodes, n)
     /\ levels' = [levels EXCEPT ![s][p] = IF l.len = 0 THEN NoLevel ELSE l]
     /\ UNCHANGED prices
     /\ byID' = byID \ {n}

\* removeNode, and the order leaves the index.  "nodes" is the heap after what
\* the caller wrote to it before; an empty level goes with its price.
RemoveNode(nodes, n) ==
  LET s == node[n].side
      p == node[n].price
      l == LevelWithout(levels[s][p], n)
      empty == l.len = 0
  IN /\ node' = Unlinked(nodes, n)
     /\ levels' = [levels EXCEPT ![s][p] = IF empty THEN NoLevel ELSE l]
     /\ prices' = IF empty THEN [prices EXCEPT ![s] = RemoveFirst(@, p)] ELSE prices
     /\ byID' = byID \ {n}

----------------------------------------------------------------------------
(* The book and the matcher *)

OppositeSide(s) == IF s = "buy" THEN "sell" ELSE "buy"

\* The head of the best opposite level.
BestMaker ==
  LET s == OppositeSide(node[taker].side)
  IN IF prices[s] = <<>> THEN Nil ELSE levels[s][Head(prices[s])].head

IsCrossed(m) ==
  IF node[taker].side = "buy" THEN node[m].price <= node[taker].price
                              ELSE node[m].price >= node[taker].price

\* AppendRestingOrder, of an order with its side and price in "incoming".
AppendRestingOrder(o, incoming, q) ==
  /\ nextSeq' = nextSeq + 1
  /\ AddNode(o, [incoming EXCEPT !.rem = q, !.seq = nextSeq + 1])
  /\ byID' = byID \cup {o}

Incoming(s, p) == [NoNode EXCEPT !.side = s, !.price = p]

\* One row of RebuildOrderBookFromPersistedOrders: it rests without a match,
\* whatever it crosses.
Restore(s, p, q) ==
  /\ ~ inUse
  /\ used < MaxOrders
  /\ used' = used + 1
  /\ AppendRestingOrder(used + 1, Incoming(s, p), q)
  /\ UNCHANGED <<inUse, taker, takerRem>>

\* ProcessNewOrder is called with a new order.  The values of the incoming order
\* are kept where its node will be.
Submit(s, p, q) ==
  /\ taker = Nil
  /\ used < MaxOrders
  /\ used' = used + 1
  /\ taker' = used + 1
  /\ takerRem' = q
  /\ node' = [node EXCEPT ![used + 1] = Incoming(s, p)]
  /\ inUse' = TRUE
  /\ UNCHANGED <<levels, prices, byID, nextSeq>>

FillQty(m) == IF takerRem < node[m].rem THEN takerRem ELSE node[m].rem

\* One turn of the loop.
MatchStep ==
  LET m == BestMaker
      q == FillQty(m)
      filled == [node EXCEPT ![m].rem = @ - q]
  IN /\ taker # Nil
     /\ takerRem > 0
     /\ m # Nil
     /\ IsCrossed(m)
     /\ takerRem' = takerRem - q
     /\ IF filled[m].rem = 0
          THEN RemoveNode(filled, m)
          ELSE node' = filled /\ UNCHANGED <<levels, prices, byID>>
     /\ UNCHANGED <<nextSeq, inUse, used, taker>>

\* The loop ends: the taker is used up, or the head of the best opposite level
\* does not cross.
MatchDone ==
  /\ taker # Nil
  /\ takerRem = 0 \/ (BestMaker # Nil => ~ IsCrossed(BestMaker))
  /\ IF takerRem > 0 THEN AppendRestingOrder(taker, node[taker], takerRem)
                     ELSE UNCHANGED <<bookVars, nextSeq>>
  /\ taker' = Nil
  /\ takerRem' = 0
  /\ UNCHANGED <<inUse, used>>

\* RemoveOrderByID of an order the book holds.
RemoveOrderByID(o) ==
  /\ taker = Nil
  /\ o \in byID
  /\ RemoveNode(node, o)
  /\ inUse' = TRUE
  /\ UNCHANGED <<nextSeq, takerVars>>

Init ==
  /\ node = [o \in OrderId |-> NoNode]
  /\ levels = [s \in Sides |-> [p \in Prices |-> NoLevel]]
  /\ prices = [s \in Sides |-> <<>>]
  /\ byID = {}
  /\ nextSeq = 0
  /\ inUse = FALSE
  /\ used = 0
  /\ taker = Nil
  /\ takerRem = 0

Next ==
  \/ \E s \in Sides, p \in Prices, q \in Quantities : Restore(s, p, q) \/ Submit(s, p, q)
  \/ MatchStep
  \/ MatchDone
  \/ \E o \in OrderId : RemoveOrderByID(o)

Spec == Init /\ [][Next]_vars

----------------------------------------------------------------------------
(* Properties *)

\* Type invariant.
TypeOK ==
  /\ node \in [OrderId -> Node]
  /\ levels \in [Sides -> [Prices -> Level]]
  /\ prices \in [Sides -> Seq(Prices)]
  /\ byID \subseteq OrderId
  /\ nextSeq \in 0..MaxOrders
  /\ inUse \in BOOLEAN
  /\ used \in 0..MaxOrders
  /\ taker \in 0..used
  /\ takerRem \in Nat

\* The orders met when a level is walked from its head, and from its tail.
NextOf(n) == IF n = Nil THEN Nil ELSE node[n].next
PrevOf(n) == IF n = Nil THEN Nil ELSE node[n].prev

\* The orders of a walk, which stays at Nil once it is there.
UpToNil(walk) == SubSeq(walk, 1, Cardinality({i \in DOMAIN walk : walk[i] # Nil}))

Forward(l) ==
  LET at[i \in 1..MaxOrders] == IF i = 1 THEN l.head ELSE NextOf(at[i - 1])
  IN UpToNil(at)

Backward(l) ==
  LET at[i \in 1..MaxOrders] == IF i = 1 THEN l.tail ELSE PrevOf(at[i - 1])
  IN UpToNil(at)

SideSnapshot(s) ==
  FlattenSeq([i \in DOMAIN prices[s] |-> Forward(levels[s][prices[s][i]])])

\* A level reads the same from both ends, has as many nodes as it says, exists exactly
\* for the prices listed, and is never empty.
PointersAreSound ==
  \A s \in Sides, p \in Prices :
    LET l == levels[s][p] IN
    /\ l.len = Len(Forward(l))
    /\ Reverse(Backward(l)) = Forward(l)
    /\ Cardinality({i \in DOMAIN prices[s] : prices[s][i] = p}) =
         IF l.len > 0 THEN 1 ELSE 0

\* A snapshot of a side holds exactly the orders the index knows there, in strict
\* matching order: best price first, earliest first inside a price.
SnapshotInPriorityOrder ==
  \A s \in Sides :
    LET snap == SideSnapshot(s) IN
    /\ ToSet(snap) = {o \in byID : node[o].side = s}
    /\ \A i, j \in DOMAIN snap : i < j =>
         LET m == node[snap[i]]
             n == node[snap[j]]
         IN Better(s, m.price, n.price) \/ (m.price = n.price /\ m.seq < n.seq)

\* The book is well linked: its pointers are sound, and whoever follows them meets
\* exactly the orders the index knows, in matching order (order_book.go:43, 57, 94,
\* 105).
WellLinked == TypeOK /\ PointersAreSound /\ SnapshotInPriorityOrder

\* The terms of an order that rests or is being matched.
Terms(o) == IF o \in byID \cup {taker} THEN [side |-> node[o].side, price |-> node[o].price]
                                      ELSE [side |-> "buy", price |-> 0]

PT == INSTANCE PriceTimeBook WITH
        order <- [o \in OrderId |-> Terms(o)],
        rem   <- [o \in OrderId |-> IF o \in byID THEN node[o].rem ELSE 0],
        seq   <- [o \in OrderId |-> IF o \in byID THEN node[o].seq ELSE 0]

\* The lists, slices and index implement price-time matching: the head of the
\* best level is the order that is due, and asking it alone whether it crosses is
\* enough (matcher.go:87-99).
ImplementsPriceTime == PT!Spec

=============================================================================
