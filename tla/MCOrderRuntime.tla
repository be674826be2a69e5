--------------------------- MODULE MCOrderRuntime ---------------------------
(***************************************************************************)
(* Instances of OrderRuntime for TLC, the property that sums trades, the   *)
(* abstract exchange that the runtime implements, and the abstract book it *)
(* uses.                                                                   *)
(***************************************************************************)
EXTENDS OrderRuntime, FiniteSetsExt

FilledOf(o) ==
  MapThenSumSet(LAMBDA t : t.qty, {t \in trades : o \in {t.taker, t.maker}})

\* Nothing is filled twice and nothing is lost: for every row, what is left and
\* what the trades table says was filled add up to the quantity ordered, through
\* rollbacks, commits that looked like failures, and restarts (store.go:288).
FillsConserved ==
  \A o \in Orders : rows[o].rem + FilledOf(o) = rows[o].qty

\* The orders of the abstract exchange are the rows there are; its trades are the
\* trades table, and book, mutex, events and recoveries are not seen.
Abstract == INSTANCE Exchange WITH orders <- [o \in 1..created |-> rows[o]]

\* Whatever fails, rolls back or crashes, the two tables change only as the exchange
\* promises: an order is matched at its arrival or never, against all that was live
\* then and in its order - as long as no insert or cancel that took effect is
\* answered as a failure, and a commit that is answered as one is over by then: one
\* that lands later matches an order after others that arrived behind it
\* (runtime.go:44, store.go:288).
ImplementsExchange == Abstract!Spec

\* The terms of an order that rests or is being matched, which its row has.
TermsInBook(o) ==
  IF InBook(o) \/ (pc = "matching" /\ o = cur)
    THEN [side |-> rows[o].side, price |-> rows[o].price]
    ELSE [side |-> "buy", price |-> 0]

PT == INSTANCE PriceTimeBook WITH
        order    <- [o \in OrderId |-> TermsInBook(o)],
        rem      <- bookRem,
        seq      <- bookSeq,
        taker    <- IF pc = "matching" THEN cur ELSE 0,
        takerRem <- IF pc = "matching" THEN takerRem ELSE 0

\* Whenever the book changes, it is as PriceTimeBook has it, or it is a new one, also
\* while a cancel that was applied behind an error is still in it; so the linked lists
\* of OrderBook, which implement PriceTimeBook, can stand in its place (runtime.go:13,
\* 44, 91).
BookIsPriceTime ==
  PT!Init /\ [][~ UNCHANGED PT!ptVars => RebuiltBook \/ EmptyBook \/ PT!Next]_(PT!ptVars)

\* Bound: the first order buys.  What begins with a sale is the same with the sides
\* swapped and the prices turned round.
FirstBuys == created > 0 => rows[1].side = "buy"

\* Bound: faults and cancelled orders come to three together.
ThreeIncidents == faults + Cardinality({o \in OrderId : rows[o].status = "cancelled"}) <= 3

\* Bound: a second fault comes in a market of one price, or one where every order is for 1.
SecondFault ==
  faults > 1 => \/ \A o \in Orders : rows[o].price = 1
                \/ \A o \in Orders : rows[o].qty = 1

=============================================================================
