--------------------------- MODULE Frontend_proofs ---------------------------
(***************************************************************************)
(* For any number of orders, requests, cancels and failures, in a tab that *)
(* goes from page to page.                                                 *)
(*                                                                         *)
(*   PanelInv    a market panel is loading exactly as long as its latest   *)
(*               request is awaited, and never shows an older market       *)
(*   SessionInv  what the orders page shows is what the session allows     *)
(*   TabTypes    types, and that a page which is left keeps nothing        *)
(*   LonelyInv   what is under way and shown after a refresh that had the  *)
(*               orders page to itself                                     *)
(***************************************************************************)
EXTENDS Frontend, TLAPS

marketPart == <<market, marketReqs, marketPanel>>

MarketTypes ==
  /\ market \in Int
  /\ marketReqs \in [Slots -> [by : Waiters, busy : BOOLEAN, latest : BOOLEAN,
                               answered : BOOLEAN, data : Int]]
  /\ marketPanel \in [data : Int, loading : BOOLEAN, error : BOOLEAN]

AtMostOneLatest ==
  \A s, t \in Slots : marketReqs[s].latest /\ marketReqs[t].latest => s = t

\* The panel is never ahead of an answer that still counts, nor the answers ahead of
\* the market.
NothingIsAhead ==
  /\ marketPanel.data <= market
  /\ \A s \in Slots : marketReqs[s].answered /\ marketReqs[s].latest =>
       marketPanel.data <= marketReqs[s].data /\ marketReqs[s].data <= market

PanelInv == MarketTypes /\ AtMostOneLatest /\ NothingIsAhead /\ LoadingIsLatest

\* What a step on the trading page has to keep: the invariant, and what is shown.
PanelKept == PanelInv' /\ marketPanel'.data >= marketPanel.data

LEMMA FreeIsFree ==
  /\ FreeMarket \in [by : Waiters, busy : BOOLEAN, latest : BOOLEAN,
                     answered : BOOLEAN, data : Int]
  /\ ~ FreeMarket.busy /\ ~ FreeMarket.latest /\ ~ FreeMarket.answered
BY DEF FreeMarket, With, Free, Unknown, Waiters

LEMMA PanelInit ==
  ASSUME market = 0, marketReqs = [s \in Slots |-> FreeMarket], marketPanel = NotAsked
  PROVE  PanelInv
<1>1. MarketTypes
  BY FreeIsFree DEF MarketTypes, NotAsked, Unknown
<1>2. AtMostOneLatest /\ NothingIsAhead
  BY FreeIsFree DEF AtMostOneLatest, NothingIsAhead, NotAsked, Unknown
<1>3. LoadingIsLatest
  BY FreeIsFree DEF LoadingIsLatest, NotAsked
<1> QED
  BY <1>1, <1>2, <1>3 DEF PanelInv

\* A step that leaves the panel's part alone, except that the market may move on.
LEMMA MarketOnly ==
  ASSUME PanelInv, market' \in Int, market' >= market, UNCHANGED <<marketReqs, marketPanel>>
  PROVE  PanelKept
BY DEF PanelKept, PanelInv, MarketTypes, AtMostOneLatest, NothingIsAhead, LoadingIsLatest

LEMMA RefreshKeeps ==
  ASSUME PanelInv, NEW m \in Slots, NEW by \in Waiters, RefreshMarket(m, by),
         UNCHANGED market
  PROVE  PanelKept
<1> DEFINE new == With(Request(by), Unknown)
<1>1. /\ new \in [by : Waiters, busy : BOOLEAN, latest : BOOLEAN,
                  answered : BOOLEAN, data : Int]
      /\ new.busy /\ new.latest /\ ~ new.answered
  BY DEF With, Request, Unknown
<1>2. \A n \in Slots : n # m => marketReqs'[n] = [marketReqs[n] EXCEPT !.latest = FALSE]
  BY DEF RefreshMarket
<1>3. marketReqs'[m] = new
  BY DEF RefreshMarket
<1>4. DOMAIN marketReqs' = Slots
  BY DEF RefreshMarket
<1> HIDE DEF new
<1>5. marketPanel' = [marketPanel EXCEPT !.loading = TRUE, !.error = FALSE]
  BY DEF RefreshMarket
<1>6. MarketTypes'
  <2>1. marketReqs' \in [Slots -> [by : Waiters, busy : BOOLEAN, latest : BOOLEAN,
                                   answered : BOOLEAN, data : Int]]
    BY <1>1 DEF RefreshMarket, PanelInv, MarketTypes, new
  <2> QED
    BY <1>5, <2>1 DEF PanelInv, MarketTypes
<1>7. \A n \in Slots : marketReqs'[n].latest => n = m
  BY <1>2, <1>4 DEF PanelInv, MarketTypes
<1>8. marketPanel'.data = marketPanel.data /\ marketPanel'.loading
  BY <1>5 DEF PanelInv, MarketTypes
<1>9. AtMostOneLatest' /\ NothingIsAhead'
  BY <1>1, <1>3, <1>7, <1>8 DEF AtMostOneLatest, NothingIsAhead, PanelInv
<1>10. LoadingIsLatest'
  BY <1>1, <1>3, <1>8 DEF LoadingIsLatest
<1> QED
  BY <1>6, <1>8, <1>9, <1>10 DEF PanelKept, PanelInv, MarketTypes

LEMMA ServeKeeps ==
  ASSUME PanelInv, NEW s \in Slots, Serve(s)
  PROVE  PanelKept
<1>1. CASE UNCHANGED marketReqs
  BY <1>1, MarketOnly DEF Serve, serverVars, panelVars, PanelInv, MarketTypes
<1>2. CASE /\ marketReqs[s].busy /\ ~ marketReqs[s].answered
           /\ marketReqs' = [marketReqs EXCEPT ![s].answered = TRUE, ![s].data = market]
  <2>1. UNCHANGED <<market, marketPanel>>
    BY DEF Serve, serverVars, panelVars
  <2>2. MarketTypes'
    BY <1>2, <2>1 DEF PanelInv, MarketTypes
  <2>3. \A t \in Slots : /\ marketReqs'[t].latest = marketReqs[t].latest
                         /\ marketReqs'[t].busy = marketReqs[t].busy
                         /\ t # s => marketReqs'[t] = marketReqs[t]
    BY <1>2 DEF PanelInv, MarketTypes
  <2>4. marketReqs'[s].data = market
    BY <1>2 DEF PanelInv, MarketTypes
  <2>5. AtMostOneLatest' /\ LoadingIsLatest'
    BY <2>1, <2>3 DEF PanelInv, AtMostOneLatest, LoadingIsLatest
  <2>6. NothingIsAhead'
    BY <2>1, <2>3, <2>4 DEF PanelInv, NothingIsAhead, MarketTypes
  <2> QED
    BY <2>1, <2>2, <2>5, <2>6 DEF PanelKept, PanelInv, MarketTypes
<1> QED
  BY <1>1, <1>2 DEF Serve

\* A request ends; if it was the latest, so does the loading.
LEMMA EndKeeps ==
  ASSUME PanelInv, NEW s \in Slots, marketReqs[s].busy \/ marketReqs[s].answered,
         marketReqs' = [marketReqs EXCEPT ![s] = FreeMarket], UNCHANGED market,
         marketPanel' \in [data : Int, loading : BOOLEAN, error : BOOLEAN],
         IF marketReqs[s].latest
           THEN /\ ~ marketPanel'.loading
                /\ marketPanel'.data >= marketPanel.data
                /\ marketPanel'.data <= market
           ELSE UNCHANGED marketPanel
  PROVE  PanelKept
<1>1. MarketTypes'
  BY FreeIsFree DEF PanelInv, MarketTypes
<1>2. marketReqs'[s] = FreeMarket /\ \A t \in Slots : t # s => marketReqs'[t] = marketReqs[t]
  BY DEF PanelInv, MarketTypes
<1>3. AtMostOneLatest'
  BY <1>2, FreeIsFree DEF PanelInv, AtMostOneLatest
<1>4. CASE marketReqs[s].latest
  <2>1. \A t \in Slots : ~ marketReqs'[t].latest
    BY <1>2, <1>4, FreeIsFree DEF PanelInv, AtMostOneLatest
  <2>2. NothingIsAhead'
    BY <1>4, <2>1 DEF NothingIsAhead
  <2>3. LoadingIsLatest'
    BY <1>4, <2>1 DEF LoadingIsLatest, NotAsked
  <2> QED
    BY <1>1, <1>3, <1>4, <2>2, <2>3 DEF PanelKept, PanelInv
<1>5. CASE ~ marketReqs[s].latest
  <2>1. NothingIsAhead'
    BY <1>2, <1>5, FreeIsFree DEF PanelInv, NothingIsAhead
  <2>2. (\E t \in Slots : marketReqs'[t].busy /\ marketReqs'[t].latest)
          <=> (\E t \in Slots : marketReqs[t].busy /\ marketReqs[t].latest)
    BY <1>2, <1>5, FreeIsFree
  <2>3. LoadingIsLatest'
    BY <1>5, <2>2 DEF PanelInv, LoadingIsLatest
  <2> QED
    BY <1>1, <1>3, <1>5, <2>1, <2>3 DEF PanelKept, PanelInv, MarketTypes
<1> QED
  BY <1>4, <1>5

LEMMA MarketArrivesKeeps ==
  ASSUME PanelInv, NEW s \in Slots, MarketArrives(s)
  PROVE  PanelKept
<1>1. /\ marketReqs[s].answered
      /\ marketReqs' = [marketReqs EXCEPT ![s] = FreeMarket]
      /\ UNCHANGED market
  BY DEF MarketArrives, serverVars
<1>2. CASE marketReqs[s].latest
  <2>1. marketPanel' = [data |-> marketReqs[s].data, loading |-> FALSE, error |-> FALSE]
    BY <1>2 DEF MarketArrives
  <2>2. marketPanel.data <= marketReqs[s].data /\ marketReqs[s].data <= market
    BY <1>1, <1>2 DEF PanelInv, NothingIsAhead
  <2>3. marketPanel' \in [data : Int, loading : BOOLEAN, error : BOOLEAN]
    BY <2>1 DEF PanelInv, MarketTypes
  <2>4. ~ marketPanel'.loading /\ marketPanel'.data >= marketPanel.data
          /\ marketPanel'.data <= market
    BY <2>1, <2>2 DEF PanelInv, MarketTypes
  <2> QED
    BY <1>1, <1>2, <2>3, <2>4, EndKeeps
<1>3. CASE ~ marketReqs[s].latest
  <2>1. UNCHANGED marketPanel
    BY <1>3 DEF MarketArrives
  <2> QED
    BY <1>1, <1>3, <2>1, EndKeeps DEF PanelInv, MarketTypes
<1> QED
  BY <1>2, <1>3

LEMMA MarketFailsKeeps ==
  ASSUME PanelInv, NEW s \in Slots, MarketFails(s)
  PROVE  PanelKept
<1>1. /\ marketReqs[s].busy
      /\ marketReqs' = [marketReqs EXCEPT ![s] = FreeMarket]
      /\ UNCHANGED market
  BY DEF MarketFails, serverVars
<1>2. CASE marketReqs[s].latest
  <2>1. marketPanel' = [marketPanel EXCEPT !.loading = FALSE, !.error = TRUE]
    BY <1>2 DEF MarketFails
  <2>2. /\ marketPanel' \in [data : Int, loading : BOOLEAN, error : BOOLEAN]
        /\ ~ marketPanel'.loading
        /\ marketPanel'.data = marketPanel.data
    BY <2>1 DEF PanelInv, MarketTypes
  <2>3. marketPanel'.data >= marketPanel.data /\ marketPanel'.data <= market
    BY <2>2 DEF PanelInv, MarketTypes, NothingIsAhead
  <2> QED
    BY <1>1, <1>2, <2>2, <2>3, EndKeeps
<1>3. CASE ~ marketReqs[s].latest
  <2>1. UNCHANGED marketPanel
    BY <1>3 DEF MarketFails
  <2> QED
    BY <1>1, <1>3, <2>1, EndKeeps DEF PanelInv, MarketTypes
<1> QED
  BY <1>2, <1>3

LEMMA MovesOn ==
  ASSUME PanelInv, MayMove PROVE market' \in Int /\ market' >= market
BY DEF PanelInv, MarketTypes, MayMove

\* Whatever the trading page does, and the market around it.
LEMMA TradeKeeps ==
  ASSUME PanelInv, Steps \/ MarketMoves
  PROVE  PanelKept
<1> USE DEF serverVars, reqVars, panelVars
<1>0. ASSUME UNCHANGED marketPart PROVE PanelKept
  BY <1>0, MarketOnly DEF marketPart, PanelInv, MarketTypes
<1>1. ASSUME NEW by \in Waiters, Refetch(by), UNCHANGED market PROVE PanelKept
  BY <1>1, RefreshKeeps DEF Refetch
<1>2. CASE Poll
  BY <1>1, <1>2 DEF Poll, Waiters
<1>3. ASSUME NEW s \in Slots, Answers(s) \/ MarketFails(s) \/ OrdersFail(s) PROVE PanelKept
  <2>1. CASE OrdersArrive(s)
    BY <1>0, <2>1 DEF OrdersArrive, marketPart
  <2>2. CASE OrdersFail(s)
    BY <1>0, <2>2 DEF OrdersFail, marketPart
  <2> QED
    BY <1>3, <2>1, <2>2, ServeKeeps, MarketArrivesKeeps, MarketFailsKeeps DEF Answers
<1>4. CASE SubmitTicket
  BY <1>0, <1>4 DEF SubmitTicket, marketPart
<1>5. CASE CreateServed
  BY <1>5, MovesOn, MarketOnly DEF CreateServed
<1>6. CASE CreateReturns
  BY <1>1, <1>6 DEF CreateReturns, Waiters
<1>7. CASE TicketEnds
  BY <1>0, <1>7 DEF TicketEnds, marketPart
<1>8. ASSUME NEW f \in Flows, (\E o \in Orders : ClickCancel(f, o)) \/ FlowSteps(f)
      PROVE  PanelKept
  <2>1. CASE \E o \in Orders : ClickCancel(f, o)
    BY <1>0, <2>1 DEF ClickCancel, marketPart
  <2>2. CASE DeleteServed(f)
    <3>1. UNCHANGED <<marketReqs, marketPanel>>
      BY <2>2 DEF DeleteServed
    <3>2. UNCHANGED market \/ MayMove
      BY <2>2 DEF DeleteServed
    <3> QED
      BY <1>0, <3>1, <3>2, MovesOn, MarketOnly DEF marketPart
  <2>3. CASE CancelReturns(f)
    BY <1>1, <2>3 DEF CancelReturns, Waiters
  <2>4. CASE CancelEnds(f)
    BY <1>0, <2>4 DEF CancelEnds, marketPart
  <2> QED
    BY <1>8, <2>1, <2>2, <2>3, <2>4 DEF FlowSteps
<1>9. CASE MarketMoves
  BY <1>9, MovesOn, MarketOnly DEF MarketMoves
<1> QED
  BY <1>2, <1>3, <1>4, <1>5, <1>6, <1>7, <1>8, <1>9 DEF Steps

\* The trading page is left, and shown anew when it is shown again.
LEMMA ShowKeeps ==
  ASSUME PanelInv, NEW p \in Pages, Show(p)
  PROVE  PanelInv' /\ ~ (page = "trade" /\ page' = "trade")
<1>1. CASE page = "trade"
  <2>1. /\ market' = 0
        /\ marketReqs' = [s \in Slots |-> FreeMarket]
        /\ marketPanel' = NotAsked
    BY <1>1 DEF Show, Unmount
  <2>2. PanelInv'
    <3>1. MarketTypes'
      BY <2>1, FreeIsFree DEF MarketTypes, NotAsked, Unknown
    <3>2. AtMostOneLatest' /\ NothingIsAhead'
      BY <2>1, FreeIsFree DEF AtMostOneLatest, NothingIsAhead, NotAsked, Unknown
    <3>3. LoadingIsLatest'
      BY <2>1, FreeIsFree DEF LoadingIsLatest, NotAsked
    <3> QED
      BY <3>1, <3>2, <3>3 DEF PanelInv
  <2> QED
    BY <1>1, <2>2 DEF Show
<1>2. CASE page # "trade"
  <2>1. UNCHANGED marketPart
    BY <1>2 DEF Show, tradeVars, reqVars, panelVars, marketPart
  <2> QED
    BY <1>2, <2>1, MarketOnly DEF marketPart, PanelKept, PanelInv, MarketTypes
<1> QED
  BY <1>1, <1>2

\* One step of the tab: the invariant is kept, and what a page that stays shows.
LEMMA TabKeeps ==
  ASSUME PanelInv, [FrontNext]_frontVars
  PROVE  /\ PanelInv'
         /\ page = "trade" /\ page' = "trade" => marketPanel'.data >= marketPanel.data
<1>0. ASSUME UNCHANGED marketPart PROVE PanelKept
  BY <1>0, MarketOnly DEF marketPart, PanelInv, MarketTypes
<1> USE DEF tradeVars, reqVars, panelVars, serverVars, marketPart
<1>1. CASE InTrade(Steps)
  BY <1>1, TradeKeeps DEF InTrade, PanelKept
<1>2. CASE InOrders(O!Steps)
  BY <1>0, <1>2 DEF InOrders, PanelKept
<1>3. CASE Elsewhere
  BY <1>0, <1>3, TradeKeeps DEF Elsewhere, InTrade, PanelKept
<1>4. CASE Navigate
  BY <1>4, ShowKeeps DEF Navigate
<1>5. CASE Redirect
  BY <1>5, ShowKeeps DEF Redirect, Pages
<1>6. CASE SubmitLogin \/ SignIn \/ LoginFails
  BY <1>0, <1>6 DEF SubmitLogin, SignIn, LoginFails, vars, PanelKept
<1>7. CASE SignOutAnywhere
  BY <1>0, <1>7 DEF SignOutAnywhere, SignOut, PanelKept
<1>8. CASE UNCHANGED frontVars
  BY <1>0, <1>8 DEF frontVars, vars, PanelKept
<1> QED
  BY <1>1, <1>2, <1>3, <1>4, <1>5, <1>6, <1>7, <1>8 DEF FrontNext

LEMMA TabInit == FrontInit => PanelInv
BY PanelInit DEF FrontInit, Init

\* A market panel is loading exactly as long as its latest request is awaited, however
\* polls and refetches overlap and fail (TradePage.tsx:84-146).
THEOREM LoadingNeverHangs == FrontSpec => []LoadingIsLatest
<1>1. PanelInv /\ [FrontNext]_frontVars => PanelInv'
  BY TabKeeps
<1>2. PanelInv => LoadingIsLatest
  BY DEF PanelInv
<1> QED
  BY <1>1, <1>2, TabInit, PTL DEF FrontSpec

\* While it stays on the trading page, a market panel never shows an older market than
\* it did, whatever overtakes what (TradePage.tsx:90).
THEOREM PanelsNeverGoBack == FrontSpec => MarketNeverGoesBack
<1>1. PanelInv /\ [FrontNext]_frontVars => PanelInv'
  BY TabKeeps
<1>2. PanelInv /\ [FrontNext]_frontVars =>
        [page = "trade" /\ page' = "trade" => marketPanel'.data >= marketPanel.data]_frontVars
  BY TabKeeps
<1> QED
  BY <1>1, <1>2, TabInit, PTL DEF FrontSpec, MarketNeverGoesBack

----------------------------------------------------------------------------
(* The session *)

\* SessionIsShown alone says nothing of a list without an error in it.
ErrorKnown == "error" \in DOMAIN list

SessionInv == SessionIsShown /\ ErrorKnown

LEMMA KeepsSession ==
  ASSUME SessionInv, UNCHANGED <<token, list>>, page' = "orders" => page = "orders"
  PROVE  SessionInv'
BY DEF SessionInv, SessionIsShown, ErrorKnown

\* A refresh tells the session as it is.
LEMMA RefreshTells ==
  ASSUME ErrorKnown, NEW f, NEW by, O!Refresh(f, by)
  PROVE  SessionInv'
<1>1. CASE token'
  <2>1. list' = [list EXCEPT !.loading = TRUE, !.error = "none"]
    BY <1>1 DEF O!Refresh
  <2>2. list'.error = "none" /\ ErrorKnown'
    BY <2>1 DEF ErrorKnown
  <2> QED
    BY <1>1, <2>2 DEF SessionInv, SessionIsShown
<1>2. CASE ~ token'
  <2>1. list' = [list EXCEPT !.data = O!Empty, !.error = "signIn"]
    BY <1>2 DEF O!Refresh
  <2>2. list'.error = "signIn" /\ ErrorKnown'
    BY <2>1 DEF ErrorKnown
  <2> QED
    BY <1>2, <2>2 DEF SessionInv, SessionIsShown
<1> QED
  BY <1>1, <1>2

\* A step that leaves an error of its own, which is none of the session's, or with a
\* session takes one away.
LEMMA ErrorTells ==
  ASSUME ErrorKnown', UNCHANGED token,
         list'.error = "failed" \/ (token /\ list'.error = "none")
  PROVE  SessionInv'
BY DEF SessionInv, SessionIsShown

LEMMA ListKeeps ==
  ASSUME SessionInv, page = "orders", UNCHANGED page, O!Steps
  PROVE  SessionInv'
<1> USE DEF SessionInv
<1>0. ASSUME UNCHANGED <<token, list>> PROVE SessionInv'
  BY <1>0, KeepsSession
<1>1. ASSUME NEW s \in Slots, O!Serve(s) PROVE SessionInv'
  BY <1>0, <1>1 DEF O!Serve
<1>2. ASSUME NEW s \in Slots, O!Arrive(s) PROVE SessionInv'
  <2>1. /\ UNCHANGED token
        /\ list' = [list EXCEPT !.data = listReqs[s].data, !.of = listReqs[s].filter,
                                !.loading = FALSE]
    BY <1>2 DEF O!Arrive
  <2>2. list'.error = list.error /\ ErrorKnown'
    BY <2>1 DEF ErrorKnown
  <2> QED
    BY <2>1, <2>2 DEF SessionIsShown
<1>3. ASSUME NEW s \in Slots, O!Fail(s) PROVE SessionInv'
  <2>1. UNCHANGED token /\ list' = [list EXCEPT !.loading = FALSE, !.error = "failed"]
    BY <1>3 DEF O!Fail
  <2>2. list'.error = "failed" /\ ErrorKnown'
    BY <2>1 DEF ErrorKnown
  <2> QED
    BY <2>1, <2>2, ErrorTells
<1>4. CASE O!ClickRefresh
  BY <1>4, RefreshTells DEF O!ClickRefresh
<1>5. ASSUME NEW f \in O!Filters, O!ChooseFilter(f) PROVE SessionInv'
  BY <1>5, RefreshTells DEF O!ChooseFilter
<1>6. CASE O!SubmitForm
  BY <1>0, <1>6 DEF O!SubmitForm
<1>7. CASE O!FormSteps
  <2>1. CASE O!CreateServed
    BY <1>0, <2>1 DEF O!CreateServed
  <2>2. CASE O!CreateReturns
    BY <2>2, RefreshTells DEF O!CreateReturns
  <2>3. CASE O!FormEnds
    BY <1>0, <2>3 DEF O!FormEnds
  <2> QED
    BY <1>7, <2>1, <2>2, <2>3 DEF O!FormSteps
<1>8. ASSUME NEW f \in Flows, NEW o \in Orders, O!ClickCancel(f, o) PROVE SessionInv'
  <2>1. token /\ UNCHANGED token /\ list' = [list EXCEPT !.error = "none"]
    BY <1>8 DEF O!ClickCancel
  <2>2. list'.error = "none" /\ ErrorKnown'
    BY <2>1 DEF ErrorKnown
  <2> QED
    BY <2>1, <2>2, ErrorTells
<1>9. ASSUME NEW f \in Flows, O!FlowSteps(f) PROVE SessionInv'
  <2>1. CASE O!DeleteServed(f)
    BY <1>0, <2>1 DEF O!DeleteServed
  <2>2. CASE O!CancelReturns(f)
    BY <2>2, RefreshTells DEF O!CancelReturns
  <2>3. CASE O!CancelEnds(f)
    <3>1. UNCHANGED token
      BY <2>3 DEF O!CancelEnds
    <3>2. UNCHANGED list \/ list' = [list EXCEPT !.error = "failed"]
      BY <2>3 DEF O!CancelEnds
    <3>3. ASSUME list' = [list EXCEPT !.error = "failed"]
          PROVE  list'.error = "failed" /\ ErrorKnown'
      BY <3>3 DEF ErrorKnown
    <3> QED
      BY <1>0, <3>1, <3>2, <3>3, ErrorTells
  <2> QED
    BY <1>9, <2>1, <2>2, <2>3 DEF O!FlowSteps
<1> QED
  BY <1>1, <1>2, <1>3, <1>4, <1>5, <1>6, <1>7, <1>8, <1>9 DEF O!Steps

\* The orders page is left, or shown: then its first refresh tells.
LEMMA ShowTells ==
  ASSUME SessionInv, NEW p \in Pages, Show(p)
  PROVE  SessionInv'
<1>1. page # p /\ page' = p /\ UNCHANGED token
  BY DEF Show
<1>2. CASE page = "orders"
  <2>1. O!Unmount
    BY <1>2 DEF Show
  <2>2. list' = O!Blank
    BY <2>1 DEF O!Unmount
  <2> QED
    BY <1>1, <1>2, <2>2 DEF SessionInv, SessionIsShown, ErrorKnown, O!Blank
<1>3. CASE p = "orders"
  <2>1. O!Mount
    BY <1>1, <1>3 DEF Show
  <2> QED
    BY <2>1, RefreshTells DEF O!Mount, SessionInv
<1>4. CASE page # "orders" /\ p # "orders"
  <2>1. UNCHANGED ordersVars
    BY <1>4 DEF Show
  <2> QED
    BY <1>1, <1>4, <2>1, KeepsSession DEF ordersVars
<1> QED
  BY <1>2, <1>3, <1>4

\* A session begins or ends: on the orders page a refresh follows.
LEMMA TokenFollowed ==
  ASSUME SessionInv, FollowToken, UNCHANGED page
  PROVE  SessionInv'
<1>1. CASE page = "orders" /\ token' # token
  BY <1>1, RefreshTells DEF FollowToken, O!SessionChanges, SessionInv
<1>2. CASE ~ (page = "orders" /\ token' # token)
  <2>1. UNCHANGED list
    BY <1>2 DEF FollowToken, ordersVars
  <2> QED
    BY <1>2, <2>1 DEF SessionInv, SessionIsShown, ErrorKnown
<1> QED
  BY <1>1, <1>2

LEMMA SessionStep ==
  ASSUME SessionInv, [FrontNext]_frontVars
  PROVE  SessionInv'
<1>1. ASSUME UNCHANGED <<token, list, page>> PROVE SessionInv'
  BY <1>1, KeepsSession
<1>2. CASE InTrade(Steps) \/ InTrade(MarketMoves)
  <2>1. page = "trade" /\ UNCHANGED <<list, page>>
    BY <1>2 DEF InTrade, ordersVars, appVars
  <2> QED
    BY <2>1 DEF SessionInv, SessionIsShown, ErrorKnown
<1>3. CASE InOrders(O!Steps)
  BY <1>3, ListKeeps DEF InOrders, appVars
<1>4. CASE O!OrderMoves /\ UNCHANGED <<market, tradeVars, appVars>>
  BY <1>1, <1>4 DEF O!OrderMoves, O!pageVars, appVars
<1>5. CASE Navigate
  BY <1>5, ShowTells DEF Navigate
<1>6. CASE Redirect
  BY <1>6, ShowTells DEF Redirect, Pages
<1>7. CASE SubmitLogin \/ LoginFails
  BY <1>1, <1>7 DEF SubmitLogin, LoginFails, vars, ordersVars
<1>8. CASE SignIn
  BY <1>8, TokenFollowed DEF SignIn
<1>9. CASE SignOutAnywhere
  BY <1>9, TokenFollowed DEF SignOutAnywhere, appVars
<1>10. CASE UNCHANGED frontVars
  BY <1>1, <1>10 DEF frontVars, vars, ordersVars, appVars
<1> QED
  BY <1>2, <1>3, <1>4, <1>5, <1>6, <1>7, <1>8, <1>9, <1>10 DEF FrontNext, Elsewhere

\* However late an answer of another session comes, whatever fails and wherever the
\* user goes: the orders page shows rows with a session only, and asks to sign in
\* without one only (OrdersPage.tsx:50, 66).
THEOREM SessionIsTold == FrontSpec => []SessionIsShown
<1>1. FrontInit => SessionInv
  BY DEF FrontInit, Pages, O!Init, O!Blank, SessionInv, SessionIsShown, ErrorKnown
<1>2. SessionInv /\ [FrontNext]_frontVars => SessionInv'
  BY SessionStep
<1>3. SessionInv => SessionIsShown
  BY DEF SessionInv
<1> QED
  BY <1>1, <1>2, <1>3, PTL DEF FrontSpec

----------------------------------------------------------------------------
(* Types *)

FlowType ==
  [order : Orders \cup {Nobody},
   step : {"idle", "deleting", "deleted", "refused", "refetching"}]
MarketPane == [data : Unknown..MaxMarket, loading : BOOLEAN, error : BOOLEAN]
OrdersPane == [data : [Orders -> Lives], loading : BOOLEAN, error : BOOLEAN]
TicketSteps == {"idle", "posting", "created", "refetching"}

\* TypeOK, with the flows typed whole and without what PanelInv says.
WorldTypes == market \in 0..MaxMarket /\ mine \in [Orders -> Lives] /\ token \in BOOLEAN
              /\ troubles \in 0..MaxTroubles
PanelTypes == /\ marketReqs \in [Slots -> MarketRequests] /\ marketPanel \in MarketPane
              /\ ordersReqs \in [Slots -> OrdersRequests] /\ ordersPanel \in OrdersPane
FlowTypes  == ticket \in TicketSteps /\ flows \in [Flows -> FlowType]
              /\ cancellingId \in Orders \cup {Nobody}
TradeTypes == WorldTypes /\ PanelTypes /\ FlowTypes

\* The bounds are numbers.
LEMMA Bounds == MaxMarket \in Nat /\ MaxTroubles \in Nat /\ Slots \subseteq Nat
BY PageAssumption

\* What the pages begin with is typed.
LEMMA FreeTypes ==
  /\ FreeMarket \in MarketRequests /\ FreeOrders \in OrdersRequests
  /\ NotAsked \in MarketPane /\ Empty \in [Orders -> Lives] /\ NoFlow \in FlowType
  /\ [data |-> Empty, loading |-> TRUE, error |-> FALSE] \in OrdersPane
  /\ [data |-> Empty, loading |-> FALSE, error |-> FALSE] \in OrdersPane
<1>1. Empty \in [Orders -> Lives]
  BY DEF Empty, Lives
<1>2. Unknown \in Unknown..MaxMarket
  BY Bounds DEF Unknown
<1>3. FreeMarket \in MarketRequests
  BY <1>2 DEF FreeMarket, With, Free, MarketRequests, Waiters
<1>4. FreeOrders \in OrdersRequests
  BY <1>1 DEF FreeOrders, With, Free, OrdersRequests, Waiters
<1>5. NotAsked \in MarketPane /\ NoFlow \in FlowType
  BY <1>2 DEF NotAsked, MarketPane, NoFlow, FlowType
<1>6. /\ [data |-> Empty, loading |-> TRUE, error |-> FALSE] \in OrdersPane
      /\ [data |-> Empty, loading |-> FALSE, error |-> FALSE] \in OrdersPane
  BY <1>1 DEF OrdersPane
<1> QED
  BY <1>1, <1>3, <1>4, <1>5, <1>6

\* One trouble more is still within the bound.
LEMMA TroubleType ==
  ASSUME WorldTypes, UNCHANGED troubles \/ Trouble PROVE troubles' \in 0..MaxTroubles
BY Bounds DEF WorldTypes, Trouble

\* The market moves within its bound.
LEMMA MoveType == ASSUME WorldTypes, MayMove PROVE market' \in 0..MaxMarket
BY Bounds DEF WorldTypes, MayMove

\* A refetch of the panels, whoever waits for it.
LEMMA RefetchTypes ==
  ASSUME PanelTypes, token \in BOOLEAN, NEW by \in Waiters, Refetch(by)
  PROVE  PanelTypes'
<1>1. PICK m \in Slots, n \in Slots : RefreshMarket(m, by) /\ RefreshMyOrders(n, by)
  BY DEF Refetch
<1>2. With(Request(by), Unknown) \in MarketRequests
  BY Bounds DEF With, Request, MarketRequests, Unknown
<1>3. With(Request(by), Empty) \in OrdersRequests
  BY FreeTypes DEF With, Request, OrdersRequests
<1>4. \A r \in MarketRequests : [r EXCEPT !.latest = FALSE] \in MarketRequests
  BY DEF MarketRequests
<1>5. marketReqs' \in [Slots -> MarketRequests]
  <2>1. marketReqs' = [k \in Slots |-> IF k = m THEN With(Request(by), Unknown)
                                       ELSE [marketReqs[k] EXCEPT !.latest = FALSE]]
    BY <1>1 DEF RefreshMarket
  <2>2. \A k \in Slots : marketReqs[k] \in MarketRequests
    BY DEF PanelTypes
  <2> QED
    BY <1>2, <1>4, <2>1, <2>2
<1>6. marketPanel' \in MarketPane
  BY <1>1 DEF RefreshMarket, PanelTypes, MarketPane
<1>7. ordersReqs' \in [Slots -> OrdersRequests]
  BY <1>1, <1>3 DEF RefreshMyOrders, PanelTypes
<1>8. ordersPanel' \in OrdersPane
  BY <1>1, FreeTypes DEF RefreshMyOrders, PanelTypes, OrdersPane
<1> QED
  BY <1>5, <1>6, <1>7, <1>8 DEF PanelTypes

\* A request is served.
LEMMA ServeTypes ==
  ASSUME TradeTypes, NEW s \in Slots, Serve(s) PROVE TradeTypes'
<1>1. WorldTypes' /\ FlowTypes' /\ marketPanel' \in MarketPane /\ ordersPanel' \in OrdersPane
  BY DEF Serve, serverVars, panelVars, flowVars, TradeTypes, WorldTypes, FlowTypes,
     PanelTypes
<1>2. market \in Unknown..MaxMarket
  BY Bounds DEF TradeTypes, WorldTypes, Unknown
<1>3. \A r \in MarketRequests : [r EXCEPT !.answered = TRUE, !.data = market] \in MarketRequests
  BY <1>2 DEF MarketRequests
<1>4. \A r \in OrdersRequests : [r EXCEPT !.answered = TRUE, !.data = mine] \in OrdersRequests
  BY DEF OrdersRequests, TradeTypes, WorldTypes
<1>5. marketReqs \in [Slots -> MarketRequests] /\ ordersReqs \in [Slots -> OrdersRequests]
  BY DEF TradeTypes, PanelTypes
<1>6. CASE /\ marketReqs' = [marketReqs EXCEPT ![s].answered = TRUE, ![s].data = market]
           /\ UNCHANGED ordersReqs
  <2>1. marketReqs' = [marketReqs EXCEPT ![s] =
          [marketReqs[s] EXCEPT !.answered = TRUE, !.data = market]]
    BY <1>5, <1>6
  <2>2. marketReqs[s] \in MarketRequests
    BY <1>5
  <2>3. marketReqs' \in [Slots -> MarketRequests]
    BY <1>3, <1>5, <2>1, <2>2
  <2> QED
    BY <1>1, <1>5, <1>6, <2>3 DEF TradeTypes, PanelTypes
<1>7. CASE /\ ordersReqs' = [ordersReqs EXCEPT ![s].answered = TRUE, ![s].data = mine]
           /\ UNCHANGED marketReqs
  <2>1. ordersReqs' = [ordersReqs EXCEPT ![s] =
          [ordersReqs[s] EXCEPT !.answered = TRUE, !.data = mine]]
    BY <1>5, <1>7
  <2>2. ordersReqs[s] \in OrdersRequests
    BY <1>5
  <2>3. ordersReqs' \in [Slots -> OrdersRequests]
    BY <1>4, <1>5, <2>1, <2>2
  <2> QED
    BY <1>1, <1>5, <1>7, <2>3 DEF TradeTypes, PanelTypes
<1> QED
  BY <1>6, <1>7 DEF Serve

\* It ends, with an answer or without.
LEMMA AnswerTypes ==
  ASSUME TradeTypes, NEW s \in Slots,
         MarketArrives(s) \/ OrdersArrive(s) \/ MarketFails(s) \/ OrdersFail(s)
  PROVE  TradeTypes'
<1>1. WorldTypes'
  <2>1. UNCHANGED <<market, mine, token>> /\ (UNCHANGED troubles \/ Trouble)
    BY DEF MarketArrives, OrdersArrive, MarketFails, OrdersFail, serverVars
  <2> QED
    BY <2>1, TroubleType DEF TradeTypes, WorldTypes
<1>2. FlowTypes'
  BY DEF MarketArrives, OrdersArrive, MarketFails, OrdersFail, flowVars, TradeTypes,
     FlowTypes
<1>3. marketReqs' \in [Slots -> MarketRequests] /\ ordersReqs' \in [Slots -> OrdersRequests]
  BY FreeTypes DEF MarketArrives, OrdersArrive, MarketFails, OrdersFail, TradeTypes,
     PanelTypes
<1>4. /\ marketReqs[s] \in MarketRequests /\ ordersReqs[s] \in OrdersRequests
      /\ marketPanel \in MarketPane /\ ordersPanel \in OrdersPane
  BY DEF TradeTypes, PanelTypes
<1>5. /\ [data |-> marketReqs[s].data, loading |-> FALSE, error |-> FALSE] \in MarketPane
      /\ [marketPanel EXCEPT !.loading = FALSE, !.error = TRUE] \in MarketPane
  BY <1>4 DEF MarketPane, MarketRequests
<1>6. /\ [data |-> ordersReqs[s].data, loading |-> FALSE, error |-> FALSE] \in OrdersPane
      /\ [ordersPanel EXCEPT !.loading = FALSE, !.error = TRUE] \in OrdersPane
  BY <1>4 DEF OrdersPane, OrdersRequests
<1>7. marketPanel' \in MarketPane
  BY <1>4, <1>5 DEF MarketArrives, OrdersArrive, MarketFails, OrdersFail
<1>8. ordersPanel' \in OrdersPane
  BY <1>4, <1>6 DEF MarketArrives, OrdersArrive, MarketFails, OrdersFail
<1> QED
  BY <1>1, <1>2, <1>3, <1>7, <1>8 DEF TradeTypes, PanelTypes

\* Creating.
LEMMA TicketTypes ==
  ASSUME TradeTypes, SubmitTicket \/ CreateServed \/ CreateReturns \/ TicketEnds
  PROVE  TradeTypes'
<1> USE DEF TradeTypes
<1>1. CASE SubmitTicket
  BY <1>1 DEF SubmitTicket, serverVars, reqVars, panelVars, WorldTypes, PanelTypes,
     FlowTypes, TicketSteps
<1>2. CASE CreateServed
  <2>1. mine' \in [Orders -> Lives]
    BY <1>2 DEF CreateServed, WorldTypes, Lives
  <2>2. market' \in 0..MaxMarket
    BY <1>2, MoveType DEF CreateServed
  <2> QED
    BY <1>2, <2>1, <2>2 DEF CreateServed, reqVars, panelVars, WorldTypes, PanelTypes,
       FlowTypes, TicketSteps
<1>3. CASE CreateReturns
  <2>1. PanelTypes'
    BY <1>3, RefetchTypes DEF CreateReturns, Waiters, WorldTypes
  <2> QED
    BY <1>3, <2>1 DEF CreateReturns, serverVars, WorldTypes, FlowTypes, TicketSteps
<1>4. CASE TicketEnds
  <2>1. troubles' \in 0..MaxTroubles
    BY <1>4, TroubleType DEF TicketEnds
  <2> QED
    BY <1>4, <2>1 DEF TicketEnds, serverVars, reqVars, panelVars, WorldTypes, PanelTypes,
       FlowTypes, TicketSteps
<1> QED
  BY <1>1, <1>2, <1>3, <1>4

\* Cancelling.
LEMMA CancelTypes ==
  ASSUME TradeTypes, NEW f \in Flows, (\E o \in Orders : ClickCancel(f, o)) \/ FlowSteps(f)
  PROVE  TradeTypes'
<1> USE DEF TradeTypes
<1>1. flows[f] \in FlowType
  BY DEF FlowTypes
<1>2. ASSUME NEW o \in Orders, ClickCancel(f, o) PROVE TradeTypes'
  <2>1. flows' \in [Flows -> FlowType] /\ cancellingId' \in Orders \cup {Nobody}
    BY <1>2 DEF ClickCancel, FlowTypes, FlowType
  <2>2. ordersPanel' \in OrdersPane
    BY <1>2 DEF ClickCancel, PanelTypes, OrdersPane
  <2> QED
    BY <1>2, <2>1, <2>2 DEF ClickCancel, serverVars, reqVars, WorldTypes, PanelTypes,
       FlowTypes
<1>3. CASE DeleteServed(f)
  <2>1. flows' \in [Flows -> FlowType]
    BY <1>3 DEF DeleteServed, FlowTypes, FlowType
  <2>2. mine' \in [Orders -> Lives]
    BY <1>3 DEF DeleteServed, WorldTypes, serverVars, Lives
  <2>3. market' \in 0..MaxMarket
    BY <1>3, MoveType DEF DeleteServed, WorldTypes, serverVars
  <2> QED
    BY <1>3, <2>1, <2>2, <2>3 DEF DeleteServed, reqVars, panelVars, WorldTypes,
       PanelTypes, FlowTypes
<1>4. CASE CancelReturns(f)
  <2>1. PanelTypes'
    BY <1>4, RefetchTypes DEF CancelReturns, Waiters, WorldTypes
  <2>2. flows' \in [Flows -> FlowType]
    BY <1>4 DEF CancelReturns, FlowTypes, FlowType
  <2> QED
    BY <1>4, <2>1, <2>2 DEF CancelReturns, serverVars, WorldTypes, FlowTypes
<1>5. CASE CancelEnds(f)
  <2>1. troubles' \in 0..MaxTroubles
    BY <1>5, TroubleType DEF CancelEnds
  <2>2. flows' \in [Flows -> FlowType] /\ cancellingId' = Nobody
    BY <1>5, FreeTypes DEF CancelEnds, FlowTypes
  <2>3. ordersPanel' \in OrdersPane
    BY <1>5 DEF CancelEnds, PanelTypes, OrdersPane
  <2> QED
    BY <1>5, <2>1, <2>2, <2>3 DEF CancelEnds, serverVars, reqVars, WorldTypes,
       PanelTypes, FlowTypes
<1> QED
  BY <1>2, <1>3, <1>4, <1>5 DEF FlowSteps

\* Whatever the trading page does, and the market around it.
LEMMA TradeStepTypes ==
  ASSUME TradeTypes, Steps \/ MarketMoves PROVE TradeTypes'
<1>1. CASE Poll
  <2>1. PanelTypes'
    BY <1>1, RefetchTypes DEF Poll, Waiters, TradeTypes, WorldTypes
  <2>2. troubles' \in 0..MaxTroubles
    BY <1>1, TroubleType DEF Poll, TradeTypes
  <2> QED
    BY <1>1, <2>1, <2>2 DEF Poll, serverVars, flowVars, TradeTypes, WorldTypes, FlowTypes
<1>2. CASE MarketMoves
  <2>1. market' \in 0..MaxMarket
    BY <1>2, MoveType DEF MarketMoves, TradeTypes
  <2>2. mine' \in [Orders -> Lives]
    BY <1>2 DEF MarketMoves, TradeTypes, WorldTypes, Lives
  <2> QED
    BY <1>2, <2>1, <2>2 DEF MarketMoves, reqVars, panelVars, flowVars, TradeTypes,
       WorldTypes, PanelTypes, FlowTypes
<1> QED
  BY <1>1, <1>2, ServeTypes, AnswerTypes, TicketTypes, CancelTypes DEF Steps, Answers

----------------------------------------------------------------------------
(* The types of the orders page *)

ListRequests == [by : O!Waiters, busy : BOOLEAN, answered : BOOLEAN,
                 filter : O!Filters, data : [Orders -> Lives]]
ListPane == [data : [Orders -> Lives], of : O!Filters, loading : BOOLEAN, error : O!Errors]
FormType == [step : TicketSteps, filter : O!Filters]
CancelType ==
  [order : Orders \cup {Nobody},
   step : {"idle", "deleting", "deleted", "refused", "refetching"},
   filter : O!Filters]

\* What a refresh changes, and the rest; of a cancel that is under way it is an order.
ListTypes == listReqs \in [Slots -> ListRequests] /\ list \in ListPane /\ alone \in BOOLEAN
ClickTypes ==
  /\ filter \in O!Filters
  /\ form \in FormType
  /\ cancels \in [Flows -> CancelType]
  /\ \A f \in Flows : cancels[f].step # "idle" => cancels[f].order \in Orders
  /\ cancelling \in Orders \cup {Nobody}
  /\ done \subseteq Orders
OrdersTypes == ListTypes /\ ClickTypes

\* The part of the world that the orders page acts on.
ServerTypes == mine \in [Orders -> Lives] /\ troubles \in 0..MaxTroubles

\* Both pages write the same of orders, and who may wait for a list.
LEMMA OrdersConstants ==
  /\ O!Lives = Lives /\ O!Nobody = Nobody /\ O!Empty = Empty
  /\ "page" \in O!Waiters /\ "form" \in O!Waiters /\ Flows \subseteq O!Waiters
  /\ "all" \in O!Filters
BY DEF O!Lives, Lives, O!Nobody, Nobody, O!Empty, Empty, O!Waiters, O!Filters

\* What the orders page begins with is typed.
LEMMA BlankTypes ==
  /\ O!Free \in ListRequests /\ O!Blank \in ListPane
  /\ O!NoForm \in FormType /\ O!NoFlow \in CancelType /\ O!NoFlow.step = "idle"
<1>1. Empty \in [Orders -> Lives]
  BY FreeTypes
<1>2. O!Free \in ListRequests
  BY <1>1, OrdersConstants DEF O!Free, ListRequests
<1>3. O!Blank \in ListPane
  BY <1>1, OrdersConstants DEF O!Blank, ListPane, O!Errors
<1>4. O!NoForm \in FormType /\ O!NoFlow \in CancelType /\ O!NoFlow.step = "idle"
  BY OrdersConstants DEF O!NoForm, FormType, TicketSteps, O!NoFlow, CancelType
<1> QED
  BY <1>2, <1>3, <1>4

\* What the server lists is a list, whatever the filter.
LEMMA ListedType ==
  ASSUME mine \in [Orders -> Lives], NEW f PROVE O!Listed(mine, f) \in [Orders -> Lives]
BY DEF O!Listed, Lives

\* A refresh, whoever waits for it.
LEMMA RefreshListTypes ==
  ASSUME ListTypes, NEW f \in O!Filters, NEW by \in O!Waiters, O!Refresh(f, by),
         alone' \in BOOLEAN
  PROVE  ListTypes'
<1>1. Empty \in [Orders -> Lives]
  BY FreeTypes
<1>2. CASE token'
  <2>1. PICK s \in Slots :
          listReqs' = [listReqs EXCEPT ![s] = [by |-> by, busy |-> TRUE, answered |-> FALSE,
                                               filter |-> f, data |-> O!Empty]]
    BY <1>2 DEF O!Refresh
  <2>2. [by |-> by, busy |-> TRUE, answered |-> FALSE, filter |-> f, data |-> O!Empty]
          \in ListRequests
    BY <1>1, OrdersConstants DEF ListRequests
  <2>3. listReqs' \in [Slots -> ListRequests]
    BY <2>1, <2>2 DEF ListTypes
  <2>4. list' \in ListPane
    BY <1>2 DEF O!Refresh, ListTypes, ListPane, O!Errors
  <2> QED
    BY <2>3, <2>4 DEF ListTypes
<1>3. CASE ~ token'
  <2>1. list' \in ListPane
    BY <1>1, <1>3, OrdersConstants DEF O!Refresh, ListTypes, ListPane, O!Errors
  <2> QED
    BY <1>3, <2>1 DEF O!Refresh, ListTypes
<1> QED
  BY <1>2, <1>3

\* One failure more is still within the bound.
LEMMA ListTroubleType ==
  ASSUME ServerTypes, UNCHANGED troubles \/ O!Trouble PROVE troubles' \in 0..MaxTroubles
BY Bounds DEF ServerTypes, O!Trouble

\* A list request: what becomes of it.
LEMMA ListAnswerTypes ==
  ASSUME OrdersTypes, ServerTypes, NEW s \in Slots, O!Serve(s) \/ O!Arrive(s) \/ O!Fail(s)
  PROVE  OrdersTypes' /\ ServerTypes'
<1>1. ServerTypes'
  <2>1. UNCHANGED mine /\ (UNCHANGED troubles \/ O!Trouble)
    BY DEF O!Serve, O!Arrive, O!Fail
  <2> QED
    BY <2>1, ListTroubleType DEF ServerTypes
<1>2. ClickTypes' /\ alone' \in BOOLEAN
  BY DEF O!Serve, O!Arrive, O!Fail, O!flowVars, OrdersTypes, ClickTypes, ListTypes
<1>3. listReqs[s] \in ListRequests /\ list \in ListPane /\ listReqs \in [Slots -> ListRequests]
  BY DEF OrdersTypes, ListTypes
<1>4. CASE O!Serve(s)
  <2>1. O!Listed(mine, listReqs[s].filter) \in [Orders -> Lives]
    BY ListedType DEF ServerTypes
  <2>2. [listReqs[s] EXCEPT !.answered = TRUE, !.data = O!Listed(mine, listReqs[s].filter)]
          \in ListRequests
    BY <1>3, <2>1 DEF ListRequests
  <2>3. listReqs' = [listReqs EXCEPT ![s] =
          [listReqs[s] EXCEPT !.answered = TRUE, !.data = O!Listed(mine, listReqs[s].filter)]]
    BY <1>3, <1>4 DEF O!Serve
  <2>4. listReqs' \in [Slots -> ListRequests]
    BY <1>3, <2>2, <2>3
  <2>5. list' \in ListPane
    BY <1>3, <1>4 DEF O!Serve
  <2> QED
    BY <1>1, <1>2, <2>4, <2>5 DEF OrdersTypes, ListTypes
<1>5. CASE O!Arrive(s) \/ O!Fail(s)
  <2>1. listReqs' = [listReqs EXCEPT ![s] = O!Free]
    BY <1>5 DEF O!Arrive, O!Fail
  <2>2. listReqs' \in [Slots -> ListRequests]
    BY <1>3, <2>1, BlankTypes
  <2>3. /\ [list EXCEPT !.data = listReqs[s].data, !.of = listReqs[s].filter, !.loading = FALSE]
             \in ListPane
        /\ [list EXCEPT !.loading = FALSE, !.error = "failed"] \in ListPane
    BY <1>3 DEF ListPane, ListRequests, O!Errors
  <2>4. list' \in ListPane
    BY <1>5, <2>3 DEF O!Arrive, O!Fail
  <2> QED
    BY <1>1, <1>2, <2>2, <2>4 DEF OrdersTypes, ListTypes
<1> QED
  BY <1>4, <1>5

\* Whether nothing is under way is said with TRUE or FALSE.
LEMMA AloneType == O!Quiet \in BOOLEAN
BY DEF O!Quiet

\* The refreshes that are asked for by a click or by the session.
LEMMA AskTypes ==
  ASSUME OrdersTypes,
         O!ClickRefresh \/ (\E f \in O!Filters : O!ChooseFilter(f)) \/ O!SessionChanges
  PROVE  OrdersTypes'
<1>1. ListTypes'
  <2>1. PICK f \in O!Filters : O!Refresh(f, "page") /\ alone' = O!Quiet
    BY DEF O!ClickRefresh, O!ChooseFilter, O!SessionChanges, OrdersTypes, ClickTypes
  <2> QED
    BY <2>1, RefreshListTypes, OrdersConstants, AloneType DEF OrdersTypes
<1>2. ClickTypes'
  BY DEF O!ClickRefresh, O!ChooseFilter, O!SessionChanges, O!flowVars, OrdersTypes,
     ClickTypes
<1> QED
  BY <1>1, <1>2 DEF OrdersTypes

\* Creating.
LEMMA FormStepTypes ==
  ASSUME OrdersTypes, ServerTypes, O!SubmitForm \/ O!FormSteps
  PROVE  OrdersTypes' /\ ServerTypes'
<1> USE DEF OrdersTypes
<1>1. form \in FormType /\ filter \in O!Filters
  BY DEF ClickTypes
<1>2. CASE O!SubmitForm
  <2>1. form' \in FormType
    BY <1>1, <1>2 DEF O!SubmitForm, FormType, TicketSteps
  <2> QED
    BY <1>2, <2>1 DEF O!SubmitForm, ListTypes, ClickTypes, ServerTypes
<1>3. CASE O!CreateServed
  <2>1. form' \in FormType
    BY <1>1, <1>3 DEF O!CreateServed, FormType, TicketSteps
  <2>2. mine' \in [Orders -> Lives]
    BY <1>3 DEF O!CreateServed, ServerTypes, Lives
  <2> QED
    BY <1>3, <2>1, <2>2 DEF O!CreateServed, ListTypes, ClickTypes, ServerTypes
<1>4. CASE O!CreateReturns
  <2>1. form' \in FormType
    BY <1>1, <1>4 DEF O!CreateReturns, FormType, TicketSteps
  <2>2. O!Refresh(form.filter, "form") /\ alone' \in BOOLEAN /\ form.filter \in O!Filters
    BY <1>1, <1>4 DEF O!CreateReturns, FormType
  <2>3. ListTypes'
    BY <2>2, RefreshListTypes, OrdersConstants
  <2> QED
    BY <1>4, <2>1, <2>3 DEF O!CreateReturns, ClickTypes, ServerTypes
<1>5. CASE O!FormEnds
  <2>1. troubles' \in 0..MaxTroubles
    BY <1>5, ListTroubleType DEF O!FormEnds
  <2> QED
    BY <1>5, <2>1, BlankTypes DEF O!FormEnds, ListTypes, ClickTypes, ServerTypes
<1> QED
  BY <1>2, <1>3, <1>4, <1>5 DEF O!FormSteps

\* Cancelling.
LEMMA CancelStepTypes ==
  ASSUME OrdersTypes, ServerTypes, NEW f \in Flows,
         (\E o \in Orders : O!ClickCancel(f, o)) \/ O!FlowSteps(f)
  PROVE  OrdersTypes' /\ ServerTypes'
<1> USE DEF OrdersTypes
<1>1. cancels[f] \in CancelType /\ cancels \in [Flows -> CancelType] /\ list \in ListPane
  BY DEF ClickTypes, ListTypes
<1>2. ASSUME NEW o \in Orders, O!ClickCancel(f, o) PROVE OrdersTypes' /\ ServerTypes'
  <2>1. [order |-> o, step |-> "deleting", filter |-> filter] \in CancelType
    BY DEF CancelType, ClickTypes
  <2>2. /\ cancels' \in [Flows -> CancelType]
        /\ \A g \in Flows : cancels'[g].step # "idle" => cancels'[g].order \in Orders
    BY <1>1, <1>2, <2>1 DEF O!ClickCancel, ClickTypes
  <2>3. list' \in ListPane
    BY <1>1, <1>2 DEF O!ClickCancel, ListPane, O!Errors
  <2> QED
    BY <1>2, <2>2, <2>3 DEF O!ClickCancel, ListTypes, ClickTypes, ServerTypes
<1>3. ASSUME NEW step \in {"deleted", "refused", "refetching"}, cancels[f].step # "idle",
             cancels' = [cancels EXCEPT ![f].step = step]
      PROVE  /\ cancels' \in [Flows -> CancelType]
             /\ \A g \in Flows : cancels'[g].step # "idle" => cancels'[g].order \in Orders
  <2>1. cancels' = [cancels EXCEPT ![f] = [cancels[f] EXCEPT !.step = step]]
    BY <1>1, <1>3
  <2>2. /\ [cancels[f] EXCEPT !.step = step] \in CancelType
        /\ [cancels[f] EXCEPT !.step = step].order = cancels[f].order
    BY <1>1 DEF CancelType
  <2> QED
    BY <1>1, <1>3, <2>1, <2>2 DEF ClickTypes
<1>4. CASE O!DeleteServed(f)
  <2>1. /\ cancels' \in [Flows -> CancelType]
        /\ \A g \in Flows : cancels'[g].step # "idle" => cancels'[g].order \in Orders
    BY <1>3, <1>4 DEF O!DeleteServed
  <2>2. mine' \in [Orders -> Lives]
    BY <1>4 DEF O!DeleteServed, ServerTypes, Lives
  <2> QED
    BY <1>4, <2>1, <2>2 DEF O!DeleteServed, ListTypes, ClickTypes, ServerTypes
<1>5. CASE O!CancelReturns(f)
  <2>1. /\ cancels' \in [Flows -> CancelType]
        /\ \A g \in Flows : cancels'[g].step # "idle" => cancels'[g].order \in Orders
    BY <1>3, <1>5 DEF O!CancelReturns
  <2>2. O!Refresh(cancels[f].filter, f) /\ alone' \in BOOLEAN /\ cancels[f].filter \in O!Filters
    BY <1>1, <1>5 DEF O!CancelReturns, CancelType
  <2>3. ListTypes'
    BY <2>2, RefreshListTypes, OrdersConstants
  <2> QED
    BY <1>5, <2>1, <2>3 DEF O!CancelReturns, ClickTypes, ServerTypes
<1>6. CASE O!CancelEnds(f)
  <2>1. troubles' \in 0..MaxTroubles
    BY <1>6, ListTroubleType DEF O!CancelEnds
  <2>2. /\ cancels' \in [Flows -> CancelType]
        /\ \A g \in Flows : cancels'[g].step # "idle" => cancels'[g].order \in Orders
    BY <1>1, <1>6, BlankTypes DEF O!CancelEnds, ClickTypes
  <2>3. list' \in ListPane
    BY <1>1, <1>6 DEF O!CancelEnds, ListPane, O!Errors
  <2>4. cancels[f].step = "refetching" => cancels[f].order \in Orders
    BY DEF ClickTypes
  <2>5. done' \subseteq Orders
    BY <1>6, <2>4 DEF O!CancelEnds, ClickTypes
  <2>6. cancelling' = Nobody
    BY <1>6, OrdersConstants DEF O!CancelEnds
  <2>7. UNCHANGED <<mine, filter, listReqs, form, alone>>
    BY <1>6 DEF O!CancelEnds
  <2> QED
    BY <2>1, <2>2, <2>3, <2>5, <2>6, <2>7 DEF ListTypes, ClickTypes, ServerTypes
<1> QED
  BY <1>2, <1>4, <1>5, <1>6 DEF O!FlowSteps

\* Whatever the orders page does.
LEMMA OrdersStepTypes ==
  ASSUME OrdersTypes, ServerTypes, O!Steps
  PROVE  OrdersTypes' /\ ServerTypes'
<1>1. CASE O!ClickRefresh \/ \E f \in O!Filters : O!ChooseFilter(f)
  <2>1. UNCHANGED <<mine, troubles>>
    BY <1>1 DEF O!ClickRefresh, O!ChooseFilter
  <2> QED
    BY <1>1, <2>1, AskTypes DEF ServerTypes
<1> QED
  BY <1>1, ListAnswerTypes, FormStepTypes, CancelStepTypes DEF O!Steps

\* The orders page is left.
LEMMA BlankPageTypes == ASSUME O!Unmount PROVE OrdersTypes'
BY BlankTypes, OrdersConstants DEF O!Unmount, OrdersTypes, ListTypes, ClickTypes

\* The orders page is shown.
LEMMA MountTypes == ASSUME OrdersTypes, O!Mount PROVE OrdersTypes'
BY RefreshListTypes, OrdersConstants DEF O!Mount, O!flowVars, OrdersTypes, ListTypes,
   ClickTypes

----------------------------------------------------------------------------
(* The tab *)

\* What is left of a page that is not shown.
TradeLeft == marketPanel = NotAsked /\ cancellingId = Nobody
OrdersLeft ==
  /\ filter = "all" /\ done = {} /\ list = O!Blank
  /\ listReqs = [s \in Slots |-> O!Free]
  /\ cancels = [f \in Flows |-> O!NoFlow]

AppTypes ==
  /\ page \in Pages /\ login \in {"idle", "asked", "signedIn"}
  /\ page # "trade" => TradeLeft
  /\ page # "orders" => OrdersLeft

TabTypes == TradeTypes /\ OrdersTypes /\ AppTypes

\* Nothing happens to a page that is left.
LEMMA LeftKept ==
  /\ (TradeLeft /\ UNCHANGED tradeVars => TradeLeft')
  /\ (OrdersLeft /\ UNCHANGED ordersVars => OrdersLeft')
BY DEF TradeLeft, OrdersLeft, tradeVars, ordersVars, panelVars, flowVars

\* Nothing happens to the trading page, whatever happens around it.
LEMMA TradeTypesKept ==
  ASSUME TradeTypes, UNCHANGED <<market, tradeVars>>, mine' \in [Orders -> Lives],
         token' \in BOOLEAN, troubles' \in 0..MaxTroubles
  PROVE  TradeTypes'
BY DEF TradeTypes, WorldTypes, PanelTypes, FlowTypes, tradeVars, reqVars, panelVars,
   flowVars

\* Nothing happens to the orders page.
LEMMA OrdersTypesKept == ASSUME OrdersTypes, UNCHANGED ordersVars PROVE OrdersTypes'
BY DEF OrdersTypes, ListTypes, ClickTypes, ordersVars

\* Steps on one of the pages.
LEMMA PageTypes ==
  ASSUME TabTypes,
         InTrade(Steps) \/ InOrders(O!Steps) \/ Elsewhere
  PROVE  TabTypes'
<1> USE DEF TabTypes
<1>1. ASSUME InTrade(Steps) \/ InTrade(MarketMoves) PROVE TabTypes'
  <2>1. TradeTypes'
    BY <1>1, TradeStepTypes DEF InTrade
  <2>2. OrdersTypes'
    BY <1>1, OrdersTypesKept DEF InTrade
  <2>3. page = "trade" /\ UNCHANGED <<page, login, ordersVars>>
    BY <1>1 DEF InTrade, appVars
  <2> QED
    BY <2>1, <2>2, <2>3, LeftKept DEF AppTypes
<1>2. ASSUME InOrders(O!Steps) PROVE TabTypes'
  <2>1. OrdersTypes' /\ ServerTypes'
    BY <1>2, OrdersStepTypes DEF InOrders, TradeTypes, WorldTypes, ServerTypes
  <2>2. UNCHANGED token
    BY <1>2 DEF InOrders, O!Steps, O!Serve, O!Arrive, O!Fail, O!ClickRefresh,
       O!ChooseFilter,
         O!SubmitForm, O!FormSteps, O!CreateServed, O!CreateReturns, O!FormEnds, O!ClickCancel,
         O!FlowSteps, O!DeleteServed, O!CancelReturns, O!CancelEnds
  <2>3. TradeTypes'
    BY <1>2, <2>1, <2>2, TradeTypesKept DEF InOrders, ServerTypes, TradeTypes, WorldTypes
  <2>4. page = "orders" /\ UNCHANGED <<page, login, tradeVars>>
    BY <1>2 DEF InOrders, appVars
  <2> QED
    BY <2>1, <2>3, <2>4, LeftKept DEF AppTypes
<1>3. ASSUME O!OrderMoves, UNCHANGED <<market, tradeVars, appVars>> PROVE TabTypes'
  <2>1. mine' \in [Orders -> Lives] /\ token' \in BOOLEAN /\ troubles' \in 0..MaxTroubles
    BY <1>3 DEF O!OrderMoves, TradeTypes, WorldTypes, Lives
  <2>2. UNCHANGED ordersVars
    BY <1>3 DEF O!OrderMoves, O!pageVars, O!flowVars, ordersVars
  <2> QED
    BY <1>3, <2>1, <2>2, TradeTypesKept, OrdersTypesKept, LeftKept DEF AppTypes, appVars
<1> QED
  BY <1>1, <1>2, <1>3 DEF Elsewhere

\* Another page is shown.
LEMMA ShowTypes ==
  ASSUME TabTypes, NEW p \in Pages, Show(p), login' \in {"idle", "asked", "signedIn"}
  PROVE  TabTypes'
<1> USE DEF TabTypes
<1>1. page # p /\ page' = p /\ UNCHANGED <<mine, token, troubles>>
  BY DEF Show
<1>2. TradeTypes' /\ (p # "trade" => TradeLeft')
  <2>1. CASE page = "trade"
    <3>1. Unmount /\ market' = 0
      BY <2>1 DEF Show
    <3>2. WorldTypes'
      BY <1>1, <3>1, Bounds DEF TradeTypes, WorldTypes
    <3>3. PanelTypes' /\ FlowTypes' /\ TradeLeft'
      BY <3>1, FreeTypes DEF Unmount, PanelTypes, FlowTypes, TicketSteps, TradeLeft
    <3> QED
      BY <3>2, <3>3 DEF TradeTypes
  <2>2. CASE page # "trade"
    <3>1. UNCHANGED <<tradeVars, market>>
      BY <2>2 DEF Show
    <3>2. mine' \in [Orders -> Lives] /\ token' \in BOOLEAN /\ troubles' \in 0..MaxTroubles
      BY <1>1 DEF TradeTypes, WorldTypes
    <3> QED
      BY <2>2, <3>1, <3>2, TradeTypesKept, LeftKept DEF AppTypes
  <2> QED
    BY <2>1, <2>2
<1>3. OrdersTypes' /\ (p # "orders" => OrdersLeft')
  <2>1. CASE page = "orders"
    <3>1. O!Unmount
      BY <2>1 DEF Show
    <3> QED
      BY <3>1, BlankPageTypes DEF O!Unmount, OrdersLeft
  <2>2. CASE p = "orders"
    BY <1>1, <2>2, MountTypes DEF Show
  <2>3. CASE page # "orders" /\ p # "orders"
    <3>1. UNCHANGED ordersVars
      BY <2>3 DEF Show
    <3> QED
      BY <2>3, <3>1, OrdersTypesKept, LeftKept DEF AppTypes
  <2> QED
    BY <2>1, <2>2, <2>3
<1> QED
  BY <1>1, <1>2, <1>3 DEF AppTypes

\* The session begins or ends.
LEMMA SessionTypes ==
  ASSUME TabTypes, FollowToken, UNCHANGED <<market, mine, tradeVars, troubles, page>>,
         token' \in BOOLEAN, login' \in {"idle", "asked", "signedIn"}
  PROVE  TabTypes'
<1> USE DEF TabTypes
<1>1. TradeTypes'
  BY TradeTypesKept DEF TradeTypes, WorldTypes
<1>2. CASE page = "orders" /\ token' # token
  <2>1. OrdersTypes'
    BY <1>2, AskTypes DEF FollowToken
  <2> QED
    BY <1>1, <1>2, <2>1, LeftKept DEF AppTypes
<1>3. CASE ~ (page = "orders" /\ token' # token)
  <2>1. UNCHANGED ordersVars
    BY <1>3 DEF FollowToken
  <2> QED
    BY <1>1, <2>1, OrdersTypesKept, LeftKept DEF AppTypes
<1> QED
  BY <1>2, <1>3

\* The types hold at the beginning.
LEMMA TabTypesInit == FrontInit => TabTypes
<1> SUFFICES ASSUME FrontInit PROVE TabTypes
  OBVIOUS
<1>1. WorldTypes
  <2>1. [Orders -> {"none", "open"}] \subseteq [Orders -> Lives]
    BY DEF Lives
  <2> QED
    BY <2>1, Bounds DEF FrontInit, Init, WorldTypes
<1>2. PanelTypes /\ FlowTypes /\ TradeLeft
  BY FreeTypes DEF FrontInit, Init, PanelTypes, FlowTypes, TicketSteps, TradeLeft
<1>3. OrdersTypes /\ OrdersLeft
  BY BlankTypes, OrdersConstants DEF FrontInit, O!Init, OrdersTypes, ListTypes,
     ClickTypes, OrdersLeft
<1> QED
  BY <1>1, <1>2, <1>3 DEF FrontInit, TabTypes, TradeTypes, AppTypes

\* Every step of the tab keeps the types.
LEMMA TabTypesStep == ASSUME TabTypes, [FrontNext]_frontVars PROVE TabTypes'
<1>1. CASE Navigate
  BY <1>1, ShowTypes DEF Navigate, TabTypes, AppTypes
<1>2. CASE Redirect
  BY <1>2, ShowTypes DEF Redirect, Pages
<1>3. CASE SubmitLogin
  <2>1. /\ UNCHANGED <<market, tradeVars, mine, token, troubles, ordersVars, page>>
        /\ login' = "asked"
    BY <1>3 DEF SubmitLogin, vars, tradeVars, serverVars
  <2> QED
    BY <2>1, TradeTypesKept, OrdersTypesKept, LeftKept DEF TabTypes, AppTypes,
       TradeTypes, WorldTypes
<1>4. CASE SignIn
  BY <1>4, SessionTypes DEF SignIn, serverVars, TabTypes, TradeTypes, WorldTypes
<1>5. CASE LoginFails
  <2>1. troubles' \in 0..MaxTroubles
    BY <1>5, TroubleType DEF LoginFails, TabTypes, TradeTypes
  <2>2. UNCHANGED <<market, tradeVars, mine, token, ordersVars, page>> /\ login' = "idle"
    BY <1>5 DEF LoginFails, serverVars
  <2> QED
    BY <2>1, <2>2, TradeTypesKept, OrdersTypesKept, LeftKept DEF TabTypes, AppTypes,
       TradeTypes, WorldTypes
<1>6. CASE SignOutAnywhere
  BY <1>6, SessionTypes
  DEF SignOutAnywhere, SignOut, serverVars, tradeVars, appVars, TabTypes, AppTypes
<1>7. CASE UNCHANGED frontVars
  <2>1. UNCHANGED <<market, tradeVars, mine, token, troubles, ordersVars, page, login>>
    BY <1>7 DEF frontVars, vars, appVars, tradeVars, serverVars
  <2> QED
    BY <2>1, TradeTypesKept, OrdersTypesKept, LeftKept DEF TabTypes, AppTypes,
       TradeTypes, WorldTypes
<1> QED
  BY <1>1, <1>2, <1>3, <1>4, <1>5, <1>6, <1>7, PageTypes DEF FrontNext

\* Types, and of the requests of a panel one at most that is the latest; a page that is
\* not shown keeps nothing (TradePage.tsx:84, App.tsx:12).
THEOREM FrontTypeCorrect == FrontSpec => []FrontTypeOK
<1>1. TabTypes /\ [FrontNext]_frontVars => TabTypes'
  BY TabTypesStep
<1>2. PanelInv /\ [FrontNext]_frontVars => PanelInv'
  BY TabKeeps
<1>3. TabTypes /\ PanelInv => FrontTypeOK
  <2> SUFFICES ASSUME TabTypes, PanelInv PROVE FrontTypeOK
    OBVIOUS
  <2>1. TypeOK
    BY DEF TabTypes, PanelInv, AtMostOneLatest, TypeOK, TradeTypes, WorldTypes,
       PanelTypes, FlowTypes,
           MarketPane, OrdersPane, TicketSteps, FlowType
  <2>2. O!TypeOK
    <3>1. \A f \in Flows : cancels[f].step \in
            {"idle", "deleting", "deleted", "refused", "refetching"}
      BY DEF TabTypes, OrdersTypes, ClickTypes, CancelType
    <3> QED
      BY <3>1, OrdersConstants DEF TabTypes, OrdersTypes, ListTypes, ClickTypes, O!TypeOK,
         ListRequests, ListPane, FormType, TicketSteps
  <2>3. OrdersLeft => O!Quiet
    BY DEF OrdersLeft, O!Quiet, O!Free
  <2> QED
    BY <2>1, <2>2, <2>3 DEF TabTypes, AppTypes, TradeLeft, OrdersLeft, FrontTypeOK
<1> QED
  BY <1>1, <1>2, <1>3, TabTypesInit, TabInit, PTL DEF FrontSpec

----------------------------------------------------------------------------
(* A refresh that has the page to itself *)

\* The orders whose cancel went through, and was followed by a refresh at least.
IsGone(o) == \/ o \in done
             \/ \E f \in Flows : cancels[f].step = "refetching" /\ cancels[f].order = o

NothingGoneIn(data) == \A o \in Orders : IsGone(o) => data[o] # "open"

Settled == ~ list.loading /\ list.error = "none"

AnsweredIsBusy == \A s \in Slots : listReqs[s].answered => listReqs[s].busy

CancelledIsClosed ==
  /\ \A o \in done : mine[o] = "closed"
  /\ \A f \in Flows : cancels[f].step \in {"deleted", "refetching"} =>
                        mine[cancels[f].order] = "closed"

\* What is under way and what is shown, after a refresh that had the page to itself:
\* it is of the chosen filter, and what is gone is not live in it.
WhileAlone ==
  /\ \A s \in Slots : listReqs[s].busy => listReqs[s].filter = filter
  /\ \A s \in Slots : listReqs[s].answered => NothingGoneIn(listReqs[s].data)
  /\ Settled => list.of = filter /\ NothingGoneIn(list.data)

LonelyInv == AnsweredIsBusy /\ CancelledIsClosed /\ (alone => WhileAlone)

\* What a step does to the orders, to what is gone, and to the list it leaves there.
ClosedKept == \A o \in Orders : mine[o] = "closed" => mine'[o] = "closed"
NoneGone == \A o \in Orders : IsGone(o)' => IsGone(o)
NotRenewed == Settled' => Settled /\ list'.of = list.of /\ list'.data = list.data

\* A refresh: if it has the page to itself nothing is shown until its answer comes.
LEMMA RefreshIsAlone ==
  ASSUME OrdersTypes, AnsweredIsBusy, NEW f \in O!Filters, NEW by \in O!Waiters,
         O!Refresh(f, by), alone' => O!Quiet /\ filter' = f
  PROVE  AnsweredIsBusy' /\ (alone' => WhileAlone')
<1>1. listReqs \in [Slots -> ListRequests] /\ list \in ListPane
  BY DEF OrdersTypes, ListTypes
<1>2. O!Quiet => \A s \in Slots : ~ listReqs[s].busy /\ ~ listReqs[s].answered
  BY DEF O!Quiet, AnsweredIsBusy
<1>3. CASE token'
  <2>1. PICK s \in Slots :
          listReqs' = [listReqs EXCEPT ![s] = [by |-> by, busy |-> TRUE, answered |-> FALSE,
                                               filter |-> f, data |-> O!Empty]]
    BY <1>3 DEF O!Refresh
  <2>2. /\ listReqs'[s].busy /\ ~ listReqs'[s].answered /\ listReqs'[s].filter = f
        /\ \A t \in Slots : t # s => listReqs'[t] = listReqs[t]
    BY <1>1, <2>1
  <2>3. AnsweredIsBusy'
    BY <2>2 DEF AnsweredIsBusy
  <2>4. list'.loading
    BY <1>1, <1>3 DEF O!Refresh, ListPane
  <2>5. ASSUME alone' PROVE WhileAlone'
    <3>1. \A t \in Slots : ~ listReqs'[t].answered /\ (listReqs'[t].busy => t = s)
      BY <1>2, <2>2, <2>5
    <3> QED
      BY <2>2, <2>4, <2>5, <3>1 DEF WhileAlone, Settled
  <2> QED
    BY <2>3, <2>5
<1>4. CASE ~ token'
  <2>1. list'.error = "signIn" /\ UNCHANGED listReqs
    BY <1>1, <1>4 DEF O!Refresh, ListPane
  <2> QED
    BY <1>2, <2>1 DEF AnsweredIsBusy, WhileAlone, Settled
<1> QED
  BY <1>3, <1>4

\* A step that asks for nothing and answers nothing.
LEMMA NothingAsked ==
  ASSUME LonelyInv, UNCHANGED <<listReqs, filter, alone>>, NotRenewed, NoneGone,
         CancelledIsClosed'
  PROVE  LonelyInv'
<1>1. AnsweredIsBusy'
  BY DEF LonelyInv, AnsweredIsBusy
<1>2. ASSUME alone' PROVE WhileAlone'
  <2>1. WhileAlone
    BY <1>2 DEF LonelyInv
  <2>2. \A s \in Slots : listReqs'[s].busy => listReqs'[s].filter = filter'
    BY <2>1 DEF WhileAlone
  <2>3. ASSUME NEW s \in Slots, listReqs'[s].answered PROVE NothingGoneIn(listReqs[s].data)'
    BY <2>1, <2>3 DEF WhileAlone, NothingGoneIn, NoneGone
  <2>4. ASSUME Settled' PROVE list'.of = filter' /\ NothingGoneIn(list.data)'
    BY <2>1, <2>4 DEF WhileAlone, NothingGoneIn, NoneGone, NotRenewed
  <2> QED
    BY <2>2, <2>3, <2>4 DEF WhileAlone
<1> QED
  BY <1>1, <1>2 DEF LonelyInv

\* What is closed stays closed, and what is gone stays as it was.
LEMMA StillClosed ==
  ASSUME OrdersTypes, CancelledIsClosed, ClosedKept, UNCHANGED <<cancels, done>>
  PROVE  CancelledIsClosed' /\ NoneGone
<1>1. NoneGone
  BY DEF NoneGone, IsGone
<1>2. \A o \in done' : mine'[o] = "closed"
  BY DEF CancelledIsClosed, ClosedKept, OrdersTypes, ClickTypes
<1>3. \A f \in Flows : cancels'[f].step \in {"deleted", "refetching"} =>
                         mine'[cancels'[f].order] = "closed"
  BY DEF CancelledIsClosed, ClosedKept, OrdersTypes, ClickTypes
<1> QED
  BY <1>1, <1>2, <1>3 DEF CancelledIsClosed

\* A refresh, with what a cancel's return changes besides.
LEMMA AskedAlone ==
  ASSUME OrdersTypes, LonelyInv, NEW f \in O!Filters, NEW by \in O!Waiters,
         O!Refresh(f, by), alone' => O!Quiet /\ filter' = f, CancelledIsClosed'
  PROVE  LonelyInv'
BY RefreshIsAlone DEF LonelyInv

\* The refreshes that are asked for by a click or by the session.
LEMMA SessionAlone ==
  ASSUME OrdersTypes, LonelyInv,
         O!ClickRefresh \/ (\E f \in O!Filters : O!ChooseFilter(f)) \/ O!SessionChanges
  PROVE  LonelyInv'
<1>1. UNCHANGED <<mine, cancels, done>>
  BY DEF O!ClickRefresh, O!ChooseFilter, O!SessionChanges, O!flowVars
<1>2. CancelledIsClosed'
  BY <1>1, StillClosed DEF ClosedKept, LonelyInv
<1>3. PICK f \in O!Filters : O!Refresh(f, "page") /\ alone' = O!Quiet /\ filter' = f
  BY DEF O!ClickRefresh, O!ChooseFilter, O!SessionChanges, OrdersTypes, ClickTypes
<1> QED
  BY <1>2, <1>3, AskedAlone, OrdersConstants

\* A list request: what it brings, and how it ends.
LEMMA AnswerAlone ==
  ASSUME OrdersTypes, ServerTypes, LonelyInv, NEW s \in Slots,
         O!Serve(s) \/ O!Arrive(s) \/ O!Fail(s)
  PROVE  LonelyInv'
<1>1. UNCHANGED <<mine, cancels, done, filter, alone>>
  BY DEF O!Serve, O!Arrive, O!Fail, O!flowVars
<1>2. CancelledIsClosed' /\ NoneGone
  BY <1>1, StillClosed DEF ClosedKept, LonelyInv
<1>3. listReqs \in [Slots -> ListRequests] /\ list \in ListPane
  BY DEF OrdersTypes, ListTypes
<1>4. \A t \in Slots : t # s => listReqs'[t] = listReqs[t]
  BY <1>3 DEF O!Serve, O!Arrive, O!Fail
<1>5. CASE O!Serve(s)
  <2>1. /\ listReqs[s].busy /\ listReqs'[s].busy /\ listReqs'[s].filter = listReqs[s].filter
        /\ listReqs'[s].data = O!Listed(mine, listReqs[s].filter)
        /\ UNCHANGED list
    BY <1>3, <1>5 DEF O!Serve, ListRequests
  <2>2. AnsweredIsBusy'
    BY <1>4, <2>1 DEF LonelyInv, AnsweredIsBusy
  <2>3. NothingGoneIn(O!Listed(mine, listReqs[s].filter))
    <3> SUFFICES ASSUME NEW o \in Orders, IsGone(o)
                 PROVE  O!Listed(mine, listReqs[s].filter)[o] # "open"
      BY DEF NothingGoneIn
    <3>1. mine[o] = "closed"
      BY DEF IsGone, LonelyInv, CancelledIsClosed
    <3> QED
      BY <3>1 DEF O!Listed
  <2>4. ASSUME alone' PROVE WhileAlone'
    <3>1. WhileAlone
      BY <1>1, <2>4 DEF LonelyInv
    <3>2. \A t \in Slots : listReqs'[t].busy => listReqs'[t].filter = filter'
      BY <1>1, <1>4, <2>1, <3>1 DEF WhileAlone
    <3>3. ASSUME NEW t \in Slots, listReqs'[t].answered PROVE NothingGoneIn(listReqs[t].data)'
      BY <1>2, <1>4, <2>1, <2>3, <3>1, <3>3 DEF WhileAlone, NothingGoneIn, NoneGone
    <3>4. Settled' => list'.of = filter' /\ NothingGoneIn(list.data)'
      BY <1>1, <1>2, <2>1, <3>1 DEF WhileAlone, NothingGoneIn, NoneGone, Settled
    <3> QED
      BY <3>2, <3>3, <3>4 DEF WhileAlone
  <2> QED
    BY <1>2, <2>2, <2>4 DEF LonelyInv
<1>6. CASE O!Arrive(s) \/ O!Fail(s)
  <2>1. listReqs'[s] = O!Free
    BY <1>3, <1>6 DEF O!Arrive, O!Fail
  <2>2. ~ listReqs'[s].busy /\ ~ listReqs'[s].answered
    BY <2>1 DEF O!Free
  <2>3. AnsweredIsBusy'
    BY <1>4, <2>2 DEF LonelyInv, AnsweredIsBusy
  <2>4. ASSUME alone' PROVE WhileAlone'
    <3>1. WhileAlone
      BY <1>1, <2>4 DEF LonelyInv
    <3>2. \A t \in Slots : listReqs'[t].busy => listReqs'[t].filter = filter'
      BY <1>1, <1>4, <2>2, <3>1 DEF WhileAlone
    <3>3. ASSUME NEW t \in Slots, listReqs'[t].answered PROVE NothingGoneIn(listReqs[t].data)'
      BY <1>2, <1>4, <2>2, <3>1, <3>3 DEF WhileAlone, NothingGoneIn, NoneGone
    <3>4. ASSUME Settled' PROVE list'.of = filter' /\ NothingGoneIn(list.data)'
      <4>1. CASE O!Fail(s)
        BY <1>3, <3>4, <4>1 DEF O!Fail, ListPane, Settled
      <4>2. CASE O!Arrive(s)
        <5>1. /\ list'.data = listReqs[s].data /\ list'.of = listReqs[s].filter
              /\ listReqs[s].answered
          BY <1>3, <4>2 DEF O!Arrive, ListPane
        <5>2. listReqs[s].filter = filter /\ NothingGoneIn(listReqs[s].data)
          BY <3>1, <5>1 DEF WhileAlone, LonelyInv, AnsweredIsBusy
        <5> QED
          BY <1>1, <1>2, <5>1, <5>2 DEF NothingGoneIn, NoneGone
      <4> QED
        BY <1>6, <4>1, <4>2
    <3> QED
      BY <3>2, <3>3, <3>4 DEF WhileAlone
  <2> QED
    BY <1>2, <2>3, <2>4 DEF LonelyInv
<1> QED
  BY <1>5, <1>6

\* Creating.
LEMMA FormAlone ==
  ASSUME OrdersTypes, ServerTypes, LonelyInv, O!SubmitForm \/ O!FormSteps
  PROVE  LonelyInv'
<1>1. UNCHANGED <<cancels, done, filter>> /\ ClosedKept
  <2>1. CASE O!CreateServed
    BY <2>1 DEF O!CreateServed, ClosedKept, ServerTypes
  <2> QED
    BY <2>1 DEF O!SubmitForm, O!FormSteps, O!CreateReturns, O!FormEnds, ClosedKept
<1>2. CancelledIsClosed' /\ NoneGone
  BY <1>1, StillClosed DEF LonelyInv
<1>3. CASE O!CreateReturns
  <2>1. O!Refresh(form.filter, "form") /\ alone' = (O!Quiet /\ form.filter = filter)
    BY <1>3 DEF O!CreateReturns
  <2>2. form.filter \in O!Filters
    BY DEF OrdersTypes, ClickTypes, FormType
  <2> QED
    BY <1>1, <1>2, <2>1, <2>2, AskedAlone, OrdersConstants
<1>4. CASE O!SubmitForm \/ O!CreateServed \/ O!FormEnds
  <2>1. UNCHANGED <<listReqs, filter, alone, list>>
    BY <1>4 DEF O!SubmitForm, O!CreateServed, O!FormEnds
  <2> QED
    BY <1>2, <2>1, NothingAsked DEF NotRenewed, Settled
<1> QED
  BY <1>3, <1>4 DEF O!FormSteps

\* Cancelling: what the server cancelled is closed when the cancel counts as gone.
LEMMA CancelAlone ==
  ASSUME OrdersTypes, ServerTypes, LonelyInv, NEW f \in Flows,
         (\E o \in Orders : O!ClickCancel(f, o)) \/ O!FlowSteps(f)
  PROVE  LonelyInv'
<1>1. cancels \in [Flows -> CancelType] /\ cancels[f] \in CancelType /\ list \in ListPane
        /\ mine \in [Orders -> Lives]
  BY DEF OrdersTypes, ClickTypes, ListTypes, ServerTypes
<1>2. ASSUME NEW o \in Orders, O!ClickCancel(f, o) PROVE LonelyInv'
  <2>1. /\ cancels'[f].step = "deleting"
        /\ \A g \in Flows : g # f => cancels'[g] = cancels[g]
        /\ UNCHANGED <<mine, done, listReqs, filter, alone>>
    BY <1>1, <1>2 DEF O!ClickCancel
  <2>2. NoneGone
    BY <2>1 DEF NoneGone, IsGone
  <2>3. CancelledIsClosed'
    BY <2>1 DEF LonelyInv, CancelledIsClosed
  <2>4. NotRenewed
    BY <1>1, <1>2 DEF O!ClickCancel, O!Shown, NotRenewed, Settled, ListPane
  <2> QED
    BY <2>1, <2>2, <2>3, <2>4, NothingAsked
<1>3. CASE O!DeleteServed(f)
  <2>1. UNCHANGED <<done, listReqs, filter, alone, list>>
    BY <1>3 DEF O!DeleteServed
  <2>2. /\ cancels'[f].step \in {"deleted", "refused"} /\ cancels'[f].order = cancels[f].order
        /\ \A g \in Flows : g # f => cancels'[g] = cancels[g]
    BY <1>1, <1>3 DEF O!DeleteServed, CancelType
  <2>3. ClosedKept
    BY <1>1, <1>3 DEF O!DeleteServed, ClosedKept
  <2>4. cancels'[f].step = "deleted" => mine'[cancels[f].order] = "closed"
    <3>1. cancels[f].order \in Orders
      BY <1>3 DEF O!DeleteServed, OrdersTypes, ClickTypes
    <3> QED
      BY <1>1, <1>3, <3>1 DEF O!DeleteServed, CancelType
  <2>5. NoneGone
    BY <2>1, <2>2 DEF NoneGone, IsGone
  <2>6. CancelledIsClosed'
    <3>1. \A o \in done' : mine'[o] = "closed"
      BY <2>1, <2>3 DEF LonelyInv, CancelledIsClosed, ClosedKept, OrdersTypes, ClickTypes
    <3>2. ASSUME NEW g \in Flows, cancels'[g].step \in {"deleted", "refetching"}
          PROVE  mine'[cancels'[g].order] = "closed"
      <4>1. CASE g = f
        BY <2>2, <2>4, <3>2, <4>1
      <4>2. CASE g # f
        <5>1. cancels'[g] = cancels[g] /\ cancels[g].order \in Orders
          BY <2>2, <3>2, <4>2 DEF OrdersTypes, ClickTypes
        <5>2. mine[cancels[g].order] = "closed"
          BY <3>2, <5>1 DEF LonelyInv, CancelledIsClosed
        <5> QED
          BY <2>3, <5>1, <5>2 DEF ClosedKept
      <4> QED
        BY <4>1, <4>2
    <3> QED
      BY <3>1, <3>2 DEF CancelledIsClosed
  <2> QED
    BY <2>1, <2>5, <2>6, NothingAsked DEF NotRenewed, Settled
<1>4. CASE O!CancelReturns(f)
  <2>1. /\ cancels[f].step = "deleted" /\ cancels'[f].order = cancels[f].order
        /\ \A g \in Flows : g # f => cancels'[g] = cancels[g]
        /\ UNCHANGED <<mine, filter, done>>
    BY <1>1, <1>4 DEF O!CancelReturns, CancelType
  <2>2. CancelledIsClosed'
    BY <2>1 DEF LonelyInv, CancelledIsClosed
  <2>3. /\ O!Refresh(cancels[f].filter, f) /\ cancels[f].filter \in O!Filters
        /\ alone' = (O!Quiet /\ cancels[f].filter = filter)
    BY <1>1, <1>4 DEF O!CancelReturns, CancelType
  <2> QED
    BY <2>1, <2>2, <2>3, AskedAlone, OrdersConstants
<1>5. CASE O!CancelEnds(f)
  <2>1. /\ UNCHANGED <<mine, filter, listReqs, alone>>
        /\ cancels'[f] = O!NoFlow
        /\ \A g \in Flows : g # f => cancels'[g] = cancels[g]
        /\ \/ UNCHANGED done
           \/ cancels[f].step = "refetching" /\ done' = done \cup {cancels[f].order}
    BY <1>1, <1>5 DEF O!CancelEnds
  <2>2. NoneGone
    BY <2>1, BlankTypes DEF NoneGone, IsGone
  <2>3. CancelledIsClosed'
    BY <2>1, BlankTypes DEF LonelyInv, CancelledIsClosed, O!NoFlow
  <2>4. NotRenewed
    BY <1>1, <1>5 DEF O!CancelEnds, NotRenewed, Settled, ListPane
  <2> QED
    BY <2>1, <2>2, <2>3, <2>4, NothingAsked
<1> QED
  BY <1>2, <1>3, <1>4, <1>5 DEF O!FlowSteps

\* Whatever the orders page does.
LEMMA OrdersStepAlone ==
  ASSUME OrdersTypes, ServerTypes, LonelyInv, O!Steps PROVE LonelyInv'
BY SessionAlone, AnswerAlone, FormAlone, CancelAlone DEF O!Steps

\* The page is left, and shown.
LEMMA BlankAlone == ASSUME OrdersLeft PROVE LonelyInv
<1>1. AnsweredIsBusy
  BY DEF OrdersLeft, AnsweredIsBusy, O!Free
<1>2. CancelledIsClosed
  BY BlankTypes DEF OrdersLeft, CancelledIsClosed, O!NoFlow
<1>3. \A o \in Orders : ~ IsGone(o)
  BY DEF OrdersLeft, IsGone, O!NoFlow
<1>4. WhileAlone
  BY <1>3 DEF OrdersLeft, WhileAlone, NothingGoneIn, O!Free, O!Blank
<1> QED
  BY <1>1, <1>2, <1>4 DEF LonelyInv

\* The first refresh of the page.
LEMMA MountAlone ==
  ASSUME OrdersTypes, LonelyInv, OrdersLeft, O!Mount, UNCHANGED mine PROVE LonelyInv'
<1>1. UNCHANGED <<filter, cancels, done>>
  BY DEF O!Mount, O!flowVars
<1>2. CancelledIsClosed'
  BY <1>1, StillClosed DEF ClosedKept, LonelyInv
<1>3. O!Quiet /\ filter' = "all"
  BY <1>1 DEF OrdersLeft, O!Quiet, O!Free
<1> QED
  BY <1>2, <1>3, AskedAlone, OrdersConstants DEF O!Mount

\* What the trading page and the market do to the orders.
LEMMA TradeCloses == ASSUME TradeTypes, Steps \/ MarketMoves PROVE ClosedKept
<1>1. mine \in [Orders -> Lives]
  BY DEF TradeTypes, WorldTypes
<1>2. ASSUME UNCHANGED mine PROVE ClosedKept
  BY <1>2 DEF ClosedKept
<1>3. ASSUME NEW s \in Slots, Answers(s) \/ MarketFails(s) \/ OrdersFail(s) PROVE UNCHANGED mine
  BY <1>3 DEF Answers, Serve, MarketArrives, OrdersArrive, MarketFails, OrdersFail,
     serverVars
<1>4. ASSUME Poll \/ SubmitTicket \/ CreateReturns \/ TicketEnds PROVE UNCHANGED mine
  BY <1>4 DEF Poll, SubmitTicket, CreateReturns, TicketEnds, serverVars
<1>5. CASE CreateServed
  BY <1>1, <1>5 DEF CreateServed, ClosedKept
<1>6. ASSUME NEW f \in Flows, NEW o \in Orders, ClickCancel(f, o) PROVE UNCHANGED mine
  BY <1>6 DEF ClickCancel, serverVars
<1>7. ASSUME NEW f \in Flows, FlowSteps(f) PROVE ClosedKept
  <2>1. CASE DeleteServed(f)
    BY <1>1, <2>1 DEF DeleteServed, ClosedKept, serverVars
  <2> QED
    BY <1>2, <1>7, <2>1 DEF FlowSteps, CancelReturns, CancelEnds, serverVars
<1>8. CASE MarketMoves
  BY <1>1, <1>8 DEF MarketMoves, ClosedKept
<1> QED
  BY <1>2, <1>3, <1>4, <1>5, <1>6, <1>7, <1>8 DEF Steps

\* Nothing happens to the orders page, whatever becomes of the orders.
LEMMA OrdersPageRests ==
  ASSUME OrdersTypes, LonelyInv, ClosedKept, UNCHANGED ordersVars PROVE LonelyInv'
<1>1. UNCHANGED <<listReqs, filter, alone, list, cancels, done>>
  BY DEF ordersVars
<1>2. CancelledIsClosed' /\ NoneGone
  BY <1>1, StillClosed DEF LonelyInv
<1> QED
  BY <1>1, <1>2, NothingAsked DEF NotRenewed, Settled

\* Another page is shown.
LEMMA ShowAlone == ASSUME TabTypes, LonelyInv, NEW p \in Pages, Show(p) PROVE LonelyInv'
<1>1. page # p /\ UNCHANGED mine
  BY DEF Show
<1>2. CASE page = "orders"
  <2>1. OrdersLeft'
    BY <1>2 DEF Show, O!Unmount, OrdersLeft
  <2>2. LonelyInv'
    <3>1. AnsweredIsBusy'
      BY <2>1 DEF OrdersLeft, AnsweredIsBusy, O!Free
    <3>2. CancelledIsClosed'
      BY <2>1 DEF OrdersLeft, CancelledIsClosed, O!NoFlow
    <3>3. \A o \in Orders : ~ IsGone(o)'
      BY <2>1 DEF OrdersLeft, IsGone, O!NoFlow
    <3>4. WhileAlone'
      BY <2>1, <3>3 DEF OrdersLeft, WhileAlone, NothingGoneIn, O!Free, O!Blank
    <3> QED
      BY <3>1, <3>2, <3>4 DEF LonelyInv
  <2> QED
    BY <2>2
<1>3. CASE p = "orders"
  <2>1. O!Mount /\ OrdersLeft
    BY <1>1, <1>3 DEF Show, TabTypes, AppTypes
  <2> QED
    BY <1>1, <2>1, MountAlone DEF TabTypes
<1>4. CASE page # "orders" /\ p # "orders"
  BY <1>1, <1>4, OrdersPageRests DEF Show, TabTypes, ClosedKept
<1> QED
  BY <1>2, <1>3, <1>4

\* The session begins or ends.
LEMMA TokenAlone ==
  ASSUME OrdersTypes, LonelyInv, FollowToken, UNCHANGED mine PROVE LonelyInv'
BY SessionAlone, OrdersPageRests DEF FollowToken, ClosedKept

\* Every step of the tab keeps the invariant.
LEMMA LonelyStep == ASSUME TabTypes, LonelyInv, [FrontNext]_frontVars PROVE LonelyInv'
<1> USE DEF TabTypes
<1>1. CASE InTrade(Steps) \/ InTrade(MarketMoves)
  BY <1>1, TradeCloses, OrdersPageRests DEF InTrade
<1>2. CASE InOrders(O!Steps)
  BY <1>2, OrdersStepAlone DEF InOrders, ServerTypes, TradeTypes, WorldTypes
<1>3. CASE O!OrderMoves /\ UNCHANGED <<market, tradeVars, appVars>>
  <2>1. ClosedKept /\ UNCHANGED ordersVars
    BY <1>3 DEF O!OrderMoves, O!pageVars, O!flowVars, ordersVars, ClosedKept, TradeTypes,
       WorldTypes
  <2> QED
    BY <2>1, OrdersPageRests
<1>4. CASE Navigate
  BY <1>4, ShowAlone DEF Navigate
<1>5. CASE Redirect
  BY <1>5, ShowAlone DEF Redirect, Pages
<1>6. CASE SubmitLogin \/ LoginFails
  <2>1. UNCHANGED mine /\ UNCHANGED ordersVars
    BY <1>6 DEF SubmitLogin, LoginFails, vars, serverVars
  <2> QED
    BY <2>1, OrdersPageRests DEF ClosedKept
<1>7. CASE SignIn \/ SignOutAnywhere
  BY <1>7, TokenAlone DEF SignIn, SignOutAnywhere, SignOut, serverVars
<1>8. CASE UNCHANGED frontVars
  <2>1. UNCHANGED mine /\ UNCHANGED ordersVars
    BY <1>8 DEF frontVars, vars, serverVars
  <2> QED
    BY <2>1, OrdersPageRests DEF ClosedKept
<1> QED
  BY <1>1, <1>2, <1>3, <1>4, <1>5, <1>6, <1>7, <1>8 DEF FrontNext, Elsewhere

\* A refresh of the orders page that had the page to itself leaves the list right,
\* whatever else is under way, fails or is left: it is of the chosen filter, and no
\* order whose cancel went through is live in it (OrdersPage.tsx:58, 102).
THEOREM LonelyRefreshIsRight == FrontSpec => []LonelyListIsRight
<1>1. TabTypes /\ [FrontNext]_frontVars => TabTypes'
  BY TabTypesStep
<1>2. TabTypes /\ LonelyInv /\ [FrontNext]_frontVars => LonelyInv'
  BY LonelyStep
<1>3. FrontInit => LonelyInv
  BY BlankAlone DEF FrontInit, O!Init, OrdersLeft
<1>4. TabTypes /\ LonelyInv => LonelyListIsRight
  <2> SUFFICES ASSUME TabTypes, LonelyInv PROVE LonelyListIsRight
    OBVIOUS
  <2>1. O!ListIsOfFilter
    BY DEF O!ListIsOfFilter, LonelyInv, WhileAlone, Settled
  <2>2. O!CancelledStaysGone
    BY DEF O!CancelledStaysGone, O!Shown, LonelyInv, WhileAlone, Settled, NothingGoneIn,
       IsGone,
           TabTypes, OrdersTypes, ClickTypes
  <2> QED
    BY <2>1, <2>2 DEF LonelyListIsRight
<1> QED
  BY <1>1, <1>2, <1>3, <1>4, TabTypesInit, PTL DEF FrontSpec

=============================================================================
