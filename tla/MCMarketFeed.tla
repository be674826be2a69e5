---------------------------- MODULE MCMarketFeed ----------------------------
(***************************************************************************)
(* The instance of MarketFeed for TLC: what bounds a run cannot say in a   *)
(* constant.                                                               *)
(***************************************************************************)
EXTENDS MarketFeed

\* Bound: the first order buys, as in MCOrderRuntime.
FirstBuys == created > 0 => rows[1].side = "buy"

\* The first order is for 2 and the second for 1, at one price: of these two an order is
\* filled in part, filled or cancelled, which is every kind of event.
OnePrice == \A o \in Orders : rows[o].price = 1 /\ rows[o].qty = IF o = 1 THEN 2 ELSE 1

\* Bound: a service restarts behind its durables only there, and where order-service met
\* no fault.  What the restart leaves unacked, in every number and order, is most of the
\* states; the other faults of the feed meet those of order-service.
RestartsAlone == "resume" \in feedFaults => faults = 0 /\ OnePrice

\* Bound: as well a second fault of the feed.
SecondFaults == feedFaultCount > 1 => faults = 0 /\ OnePrice

=============================================================================
