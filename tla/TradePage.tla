----------------------------- MODULE TradePage -----------------------------
(***************************************************************************)
(* The trading page of the frontend, from the moment it is shown until it  *)
(* is left: it polls the market panels and the list of my orders, and asks *)
(* for both again after an order was created or cancelled.                 *)
(*                                                                         *)
(* Ticker, order book, trades and candles are four copies of one panel: a  *)
(* request counts only if no later one was started.  The list of my orders *)
(* has no such guard.  Requests are answered in any order, from the state  *)
(* the server was in at some moment in between.                            *)
(*                                                                         *)
(* The market is known by a version, one of my orders by whether it is     *)
(* live.  The version a panel request captures is compared for being the   *)
(* last one only, so a request remembers just that.                        *)
(***************************************************************************)
EXTENDS Integers, FiniteSets

CONSTANTS
  Orders,       (* my orders, there and to come                            *)
  Slots,        (* bound: requests of a panel that are under way           *)
  Flows,        (* bound: cancels that are under way                       *)
  MaxMarket,    (* bound: changes of the market                            *)
  MaxTasks,     (* bound: creates and cancels that are under way           *)
  MaxTroubles   (* bound: requests that fail, and polls before the answers *)
                (* of the last one are in                                  *)

ASSUME PageAssumption == {MaxMarket, MaxTasks, MaxTroubles} \cup Slots \subseteq Nat

VARIABLES
  market,       (* server: version of the market                           *)
  mine,         (* server: my orders                                       *)
  token,        (* whether there is a token in the session storage         *)
  marketReqs,   (* requests of the market panel                            *)
  ordersReqs,   (* requests of the list of my orders                       *)
  marketPanel,  (* PanelState of the market panel                          *)
  ordersPanel,  (* ordersState                                             *)
  ticket,       (* the order form's submit                                 *)
  flows,        (* the cancels                                             *)
  cancellingId,
  troubles      (* such failures and polls so far                          *)

serverVars == <<market, mine>>
reqVars    == <<marketReqs, ordersReqs>>
panelVars  == <<marketPanel, ordersPanel>>
flowVars   == <<ticket, flows, cancellingId>>
vars == <<serverVars, token, reqVars, panelVars, flowVars, troubles>>

Lives   == {"none", "open", "closed"}
Nobody  == "nobody"
Unknown == -1                                 \* data: null
Empty   == [o \in Orders |-> "none"]          \* data: []

\* Who waits for a request: the timer does not.
Waiters == {"timer", "ticket"} \cup Flows

Free        == [by |-> "timer", busy |-> FALSE, latest |-> FALSE, answered |-> FALSE]
Request(by) == [by |-> by, busy |-> TRUE, latest |-> TRUE, answered |-> FALSE]

MarketRequests == [by : Waiters, busy : BOOLEAN, latest : BOOLEAN, answered : BOOLEAN,
                   data : Unknown..MaxMarket]
OrdersRequests == [by : Waiters, busy : BOOLEAN, latest : BOOLEAN, answered : BOOLEAN,
                   data : [Orders -> Lives]]

With(r, d) == [by |-> r.by, busy |-> r.busy, latest |-> r.latest,
               answered |-> r.answered, data |-> d]

NoFlow == [order |-> Nobody, step |-> "idle"]

FreeMarket == With(Free, Unknown)
FreeOrders == With(Free, Empty)

\* The panel before its first request - and while that is under way.
NotAsked == [data |-> Unknown, loading |-> TRUE, error |-> FALSE]

----------------------------------------------------------------------------
(* The refreshes *)

\* Nothing tells slots apart: a request takes the first that is free.
FirstFree(reqs, s) == ~ reqs[s].busy /\ \A r \in Slots : r < s => reqs[r].busy

\* Mutant of RefreshMarket: the version is never counted up.
RefreshMarketUncounted(m, by) ==
  /\ FirstFree(marketReqs, m)
  /\ marketReqs' = [marketReqs EXCEPT ![m] = With(Request(by), Unknown)]
  /\ marketPanel' = [marketPanel EXCEPT !.loading = TRUE, !.error = FALSE]

\* refreshTicker and its copies: later requests make earlier ones count for nothing.
RefreshMarket(m, by) ==
  /\ FirstFree(marketReqs, m)
  /\ marketReqs' = [n \in Slots |-> IF n = m THEN With(Request(by), Unknown)
                                   ELSE [marketReqs[n] EXCEPT !.latest = FALSE]]
  /\ marketPanel' = [marketPanel EXCEPT !.loading = TRUE, !.error = FALSE]

\* A mutant of RefreshMyOrders: without a token it does nothing.
RefreshMyOrdersKeeping(n, by) ==
  IF token
    THEN /\ FirstFree(ordersReqs, n)
         /\ ordersReqs' = [ordersReqs EXCEPT ![n] = With(Request(by), Empty)]
         /\ ordersPanel' = [ordersPanel EXCEPT !.loading = TRUE, !.error = FALSE]
    ELSE UNCHANGED <<ordersReqs, ordersPanel>>

\* refreshMyOrders: without a token the list is emptied at once.
RefreshMyOrders(n, by) ==
  IF token
    THEN /\ FirstFree(ordersReqs, n)
         /\ ordersReqs' = [ordersReqs EXCEPT ![n] = With(Request(by), Empty)]
         /\ ordersPanel' = [ordersPanel EXCEPT !.loading = TRUE, !.error = FALSE]
    ELSE /\ ordersPanel' = [data |-> Empty, loading |-> FALSE, error |-> FALSE]
         /\ UNCHANGED ordersReqs

Refetch(by) ==
  \E m, n \in Slots : RefreshMarket(m, by) /\ RefreshMyOrders(n, by)

Waiting(by) ==
  \E s \in Slots : \/ marketReqs[s].busy /\ marketReqs[s].by = by
                   \/ ordersReqs[s].busy /\ ordersReqs[s].by = by

Trouble == troubles < MaxTroubles /\ troubles' = troubles + 1

\* The interval fires; its first run is that of the effect.
Poll ==
  /\ \/ /\ \A s \in Slots : ~ marketReqs[s].busy /\ ~ ordersReqs[s].busy
        /\ UNCHANGED troubles
     \/ Trouble
  /\ Refetch("timer")
  /\ UNCHANGED <<serverVars, token, flowVars>>

Serve(s) ==
  /\ \/ /\ marketReqs[s].busy /\ ~ marketReqs[s].answered
        /\ marketReqs' = [marketReqs EXCEPT ![s].answered = TRUE, ![s].data = market]
        /\ UNCHANGED ordersReqs
     \/ /\ ordersReqs[s].busy /\ ~ ordersReqs[s].answered
        /\ ordersReqs' = [ordersReqs EXCEPT ![s].answered = TRUE, ![s].data = mine]
        /\ UNCHANGED marketReqs
  /\ UNCHANGED <<serverVars, token, panelVars, flowVars, troubles>>

\* Mutants of MarketArrives: the version is not looked at; an answer that came too
\* late ends the loading of the one that is awaited.
MarketArrivesUnguarded(s) ==
  /\ marketReqs[s].answered
  /\ marketReqs' = [marketReqs EXCEPT ![s] = FreeMarket]
  /\ marketPanel' = [data |-> marketReqs[s].data, loading |-> FALSE, error |-> FALSE]
  /\ UNCHANGED <<serverVars, token, ordersReqs, ordersPanel, flowVars, troubles>>

MarketArrivesDropsLoading(s) ==
  /\ marketReqs[s].answered
  /\ marketReqs' = [marketReqs EXCEPT ![s] = FreeMarket]
  /\ marketPanel' =
       IF marketReqs[s].latest
         THEN [data |-> marketReqs[s].data, loading |-> FALSE, error |-> FALSE]
         ELSE [marketPanel EXCEPT !.loading = FALSE]
  /\ UNCHANGED <<serverVars, token, ordersReqs, ordersPanel, flowVars, troubles>>

MarketArrives(s) ==
  /\ marketReqs[s].answered
  /\ marketReqs' = [marketReqs EXCEPT ![s] = FreeMarket]
  /\ marketPanel' =
       IF marketReqs[s].latest
         THEN [data |-> marketReqs[s].data, loading |-> FALSE, error |-> FALSE]
         ELSE marketPanel
  /\ UNCHANGED <<serverVars, token, ordersReqs, ordersPanel, flowVars, troubles>>

OrdersArrive(s) ==
  /\ ordersReqs[s].answered
  /\ ordersReqs' = [ordersReqs EXCEPT ![s] = FreeOrders]
  /\ ordersPanel' = [data |-> ordersReqs[s].data, loading |-> FALSE, error |-> FALSE]
  /\ UNCHANGED <<serverVars, token, marketReqs, marketPanel, flowVars, troubles>>

\* A request fails, answered or not; what the panel had stays.
MarketFails(s) ==
  /\ marketReqs[s].busy
  /\ Trouble
  /\ marketReqs' = [marketReqs EXCEPT ![s] = FreeMarket]
  /\ marketPanel' =
       IF marketReqs[s].latest
         THEN [marketPanel EXCEPT !.loading = FALSE, !.error = TRUE]
         ELSE marketPanel
  /\ UNCHANGED <<serverVars, token, ordersReqs, ordersPanel, flowVars>>

OrdersFail(s) ==
  /\ ordersReqs[s].busy
  /\ Trouble
  /\ ordersReqs' = [ordersReqs EXCEPT ![s] = FreeOrders]
  /\ ordersPanel' = [ordersPanel EXCEPT !.loading = FALSE, !.error = TRUE]
  /\ UNCHANGED <<serverVars, token, marketReqs, marketPanel, flowVars>>

----------------------------------------------------------------------------
(* Creating and cancelling *)

\* What is done to an order shows in a panel, or is nothing that the panel shows.
MayMove == market' \in market..(market + 1) /\ market' <= MaxMarket

Tasks == Cardinality({f \in Flows : flows[f].step # "idle"}) + IF ticket # "idle" THEN 1 ELSE 0

\* onCreateOrder: the form cannot be sent while it is being sent, nor signed out.
SubmitTicket ==
  /\ ticket = "idle"
  /\ Tasks < MaxTasks
  /\ token
  /\ ticket' = "posting"
  /\ UNCHANGED <<serverVars, token, reqVars, panelVars, flows, cancellingId, troubles>>

CreateServed ==
  /\ ticket = "posting"
  /\ \E o \in Orders : mine[o] = "none" /\ mine' = [mine EXCEPT ![o] = "open"]
  /\ MayMove
  /\ ticket' = "created"
  /\ UNCHANGED <<token, reqVars, panelVars, flows, cancellingId, troubles>>

CreateReturns ==
  /\ ticket = "created"
  /\ Refetch("ticket")
  /\ ticket' = "refetching"
  /\ UNCHANGED <<serverVars, token, flows, cancellingId, troubles>>

\* The POST failed - or its answer was lost - or its refetch is through.
TicketEnds ==
  /\ \/ ticket \in {"posting", "created"} /\ Trouble
     \/ ticket = "refetching" /\ ~ Waiting("ticket") /\ UNCHANGED troubles
  /\ ticket' = "idle"
  /\ UNCHANGED <<serverVars, token, reqVars, panelVars, flows, cancellingId>>

Shown(o) == ~ ordersPanel.error /\ ordersPanel.data[o] = "open"

\* onCancelOrder, from a row whose button is not disabled.
ClickCancel(f, o) ==
  /\ flows[f].step = "idle"
  /\ Tasks < MaxTasks
  /\ Shown(o)
  /\ cancellingId # o
  /\ IF token
       THEN /\ flows' = [flows EXCEPT ![f] = [order |-> o, step |-> "deleting"]]
            /\ cancellingId' = o
            /\ UNCHANGED ordersPanel
       ELSE /\ ordersPanel' = [ordersPanel EXCEPT !.error = TRUE]
            /\ UNCHANGED <<flows, cancellingId>>
  /\ UNCHANGED <<serverVars, token, reqVars, marketPanel, ticket, troubles>>

\* The server cancels what is live and refuses the rest.
DeleteServed(f) ==
  /\ flows[f].step = "deleting"
  /\ IF mine[flows[f].order] = "open"
       THEN /\ MayMove
            /\ mine' = [mine EXCEPT ![flows[f].order] = "closed"]
            /\ flows' = [flows EXCEPT ![f].step = "deleted"]
       ELSE /\ flows' = [flows EXCEPT ![f].step = "refused"]
            /\ UNCHANGED serverVars
  /\ UNCHANGED <<token, reqVars, panelVars, ticket, cancellingId, troubles>>

CancelReturns(f) ==
  /\ flows[f].step = "deleted"
  /\ Refetch(f)
  /\ flows' = [flows EXCEPT ![f].step = "refetching"]
  /\ UNCHANGED <<serverVars, token, ticket, cancellingId, troubles>>

\* finally: setCancellingId(null), whatever it is by now.
CancelEnds(f) ==
  /\ \/ /\ flows[f].step = "refetching" /\ ~ Waiting(f)
        /\ UNCHANGED <<ordersPanel, troubles>>
     \/ /\ flows[f].step = "refused" /\ UNCHANGED troubles
        /\ ordersPanel' = [ordersPanel EXCEPT !.error = TRUE]
     \/ /\ flows[f].step \in {"deleting", "deleted"} /\ Trouble
        /\ ordersPanel' = [ordersPanel EXCEPT !.error = TRUE]
  /\ flows' = [flows EXCEPT ![f] = NoFlow]
  /\ cancellingId' = Nobody
  /\ UNCHANGED <<serverVars, token, reqVars, marketPanel, ticket>>

----------------------------------------------------------------------------
(* The world around the page *)

\* Somebody trades, with one of my orders or not.
MarketMoves ==
  /\ MayMove
  /\ \/ UNCHANGED mine
     \/ \E o \in Orders : mine[o] = "open" /\ mine' = [mine EXCEPT ![o] = "closed"]
  /\ UNCHANGED <<token, reqVars, panelVars, flowVars, troubles>>

\* onSignOut of the header, which stays on the page.
SignOut ==
  /\ token
  /\ token' = FALSE
  /\ UNCHANGED <<serverVars, reqVars, panelVars, flowVars, troubles>>

Init ==
  /\ market = 0
  /\ mine \in [Orders -> {"none", "open"}]
  /\ token \in BOOLEAN
  /\ marketReqs = [s \in Slots |-> FreeMarket]
  /\ ordersReqs = [s \in Slots |-> FreeOrders]
  /\ marketPanel = NotAsked
  /\ ordersPanel = [data |-> Empty, loading |-> TRUE, error |-> FALSE]
  /\ ticket = "idle"
  /\ flows = [f \in Flows |-> NoFlow]
  /\ cancellingId = Nobody
  /\ troubles = 0

\* The page is left: what is under way has nobody left that waits for it.
Unmount ==
  /\ marketReqs' = [s \in Slots |-> FreeMarket]
  /\ ordersReqs' = [s \in Slots |-> FreeOrders]
  /\ marketPanel' = NotAsked
  /\ ordersPanel' = [data |-> Empty, loading |-> TRUE, error |-> FALSE]
  /\ ticket' = "idle"
  /\ flows' = [f \in Flows |-> NoFlow]
  /\ cancellingId' = Nobody

Answers(s) == Serve(s) \/ MarketArrives(s) \/ OrdersArrive(s)

FlowSteps(f) == DeleteServed(f) \/ CancelReturns(f) \/ CancelEnds(f)

\* What the page does while it is shown.
Steps ==
  \/ Poll
  \/ \E s \in Slots : Answers(s) \/ MarketFails(s) \/ OrdersFail(s)
  \/ SubmitTicket \/ CreateServed \/ CreateReturns \/ TicketEnds
  \/ \E f \in Flows : (\E o \in Orders : ClickCancel(f, o)) \/ FlowSteps(f)

Next == Steps \/ MarketMoves \/ SignOut

Spec == Init /\ [][Next]_vars

----------------------------------------------------------------------------
(* Properties *)

\* Type invariant; of the requests of a panel at most one has the current version.
TypeOK ==
  /\ market \in 0..MaxMarket
  /\ mine \in [Orders -> Lives]
  /\ token \in BOOLEAN
  /\ marketReqs \in [Slots -> MarketRequests]
  /\ \A s, t \in Slots : marketReqs[s].latest /\ marketReqs[t].latest => s = t
  /\ ordersReqs \in [Slots -> OrdersRequests]
  /\ marketPanel \in [data : Unknown..MaxMarket, loading : BOOLEAN, error : BOOLEAN]
  /\ ordersPanel \in [data : [Orders -> Lives], loading : BOOLEAN, error : BOOLEAN]
  /\ ticket \in {"idle", "posting", "created", "refetching"}
  /\ \A f \in Flows : flows[f].step \in
       {"idle", "deleting", "deleted", "refused", "refetching"}
  /\ cancellingId \in Orders \cup {Nobody}
  /\ troubles \in 0..MaxTroubles

\* A market panel says it is loading exactly as long as its latest request is
\* awaited - and before the first one: it neither hangs in loading nor takes an old
\* answer for the last one (TradePage.tsx:90, 94).
LoadingIsLatest ==
  LET awaited == \E s \in Slots : marketReqs[s].busy /\ marketReqs[s].latest
  IN  marketPanel.loading <=> awaited \/ marketPanel = NotAsked

\* The cancel button of a row is disabled while its cancel is under way
\* (OrdersPage.test.tsx: "disables the cancel button of the row currently being
\* cancelled").
CancellingIsDisabled ==
  \A f \in Flows : flows[f].step # "idle" => cancellingId = flows[f].order

=============================================================================
