------------------------------ MODULE Frontend ------------------------------
(***************************************************************************)
(* The frontend in one tab: the trading page, the orders page and the      *)
(* login page, one of which is shown, and the session they share.  Pages   *)
(* keep nothing once they are left.  What a page has sent may still reach  *)
(* the services - as MarketMoves and OrderMoves have it - but its answer   *)
(* comes to nothing; only that of the login outlives its page.             *)
(***************************************************************************)
EXTENDS TradePage

CONSTANT LoginPages   (* bound: pages that are shown while a login is under way *)

ASSUME FrontAssumption == LoginPages \subseteq {"orders", "login"}

VARIABLES
  page,         (* the route                                               *)
  login,        (* the login form's submit, until it has led to the page   *)
  filter, listReqs, list, form, cancels, cancelling, alone, done

O == INSTANCE OrdersPage WITH reqs <- listReqs

Pages == {"trade", "orders", "login"}

tradeVars  == <<reqVars, panelVars, flowVars>>
ordersVars == <<filter, listReqs, list, form, cancels, cancelling, alone, done>>
appVars    == <<page, login>>
frontVars  == <<vars, ordersVars, appVars>>

----------------------------------------------------------------------------
(* Routes *)

\* Another route: the page that was shown is unmounted, the orders page asks at once.
Show(p) ==
  /\ page # p
  /\ page' = p
  /\ UNCHANGED <<mine, token, troubles>>
  /\ IF page = "trade"
       THEN Unmount /\ market' = 0
       ELSE UNCHANGED <<tradeVars, market>>
  /\ CASE page = "orders" -> O!Unmount
       [] p = "orders"    -> O!Mount
       [] OTHER           -> UNCHANGED ordersVars

Navigate ==
  /\ \E p \in Pages : (login = "idle" \/ p \in LoginPages) /\ Show(p)
  /\ UNCHANGED login

----------------------------------------------------------------------------
(* The session *)

\* AUTH_CHANGE_EVENT: the orders page refreshes when isAuthenticated changed.
FollowToken ==
  IF page = "orders" /\ token' # token
    THEN O!SessionChanges
    ELSE UNCHANGED ordersVars

SubmitLogin ==
  /\ page = "login"
  /\ login = "idle"
  /\ login' = "asked"
  /\ UNCHANGED <<vars, ordersVars, page>>

\* The token comes, whatever page is shown by now.
SignIn ==
  /\ login = "asked"
  /\ login' = "signedIn"
  /\ token' = TRUE
  /\ UNCHANGED <<serverVars, tradeVars, troubles, page>>
  /\ FollowToken

LoginFails ==
  /\ login = "asked"
  /\ Trouble
  /\ login' = "idle"
  /\ UNCHANGED <<serverVars, token, tradeVars, ordersVars, page>>

\* A moment later navigate leads to the trading page, from wherever that is; on the
\* trading page itself, which LoginPages leaves out, it changes nothing.
Redirect ==
  /\ login = "signedIn"
  /\ login' = "idle"
  /\ Show("trade")

\* onSignOut of the header, onLogout of the login page.
SignOutAnywhere ==
  /\ SignOut
  /\ FollowToken
  /\ UNCHANGED appVars

----------------------------------------------------------------------------
(* The tab *)

InTrade(A) == page = "trade" /\ A /\ UNCHANGED <<ordersVars, appVars>>

InOrders(A) == page = "orders" /\ A /\ UNCHANGED <<market, tradeVars, appVars>>

\* The market has a version for the trading page only, and from when it is shown.
Elsewhere ==
  \/ InTrade(MarketMoves)
  \/ O!OrderMoves /\ UNCHANGED <<market, tradeVars, appVars>>

FrontInit ==
  /\ Init
  /\ O!Init
  /\ page \in Pages \ {"orders"}
  /\ login = "idle"

FrontNext ==
  \/ InTrade(Steps)
  \/ InOrders(O!Steps)
  \/ Elsewhere
  \/ Navigate
  \/ SubmitLogin \/ SignIn \/ LoginFails \/ Redirect \/ SignOutAnywhere

FrontSpec == FrontInit /\ [][FrontNext]_frontVars

(***************************************************************************)
(* The timer of the trading page fires; a request that does not fail is    *)
(* answered, and what waits for it goes on - as soon as there is a slot,   *)
(* which is the bound's doing and needs strong fairness.                   *)
(***************************************************************************)
FairFrontSpec ==
  /\ FrontSpec
  /\ WF_frontVars(InTrade(Poll))
  /\ \A s \in Slots :
       /\ WF_frontVars(InTrade(Answers(s)))
       /\ WF_frontVars(InOrders(O!Serve(s) \/ O!Arrive(s)))
  /\ \A f \in Flows : /\ WF_frontVars(InOrders(O!DeleteServed(f) \/ O!CancelEnds(f)))
                      /\ SF_frontVars(InOrders(O!CancelReturns(f)))

----------------------------------------------------------------------------
(* Properties *)

\* Type invariant of the pages together; a page that is not shown is blank.
FrontTypeOK ==
  /\ TypeOK /\ O!TypeOK
  /\ page \in Pages
  /\ login \in {"idle", "asked", "signedIn"}
  /\ page # "trade" => marketPanel = NotAsked /\ cancellingId = Nobody
  /\ page # "orders" => list = O!Blank /\ O!Quiet

\* While it stays on the trading page, a market panel never shows an older market than
\* it already showed, whatever overtakes what (TradePage.tsx:84).
MarketNeverGoesBack ==
  [][page = "trade" /\ page' = "trade" => marketPanel'.data >= marketPanel.data]_frontVars

\* The market panels of a trading page that stays end as the market - if polls overtake
\* their answers only so often: each poll makes the answers before it count for nothing.
\* Its list of my orders ends as what the server has, and as nothing once signed out,
\* although its answers overtake each other: the next poll puts it right.
PanelsSettle ==
  <>[](page = "trade") =>
    /\ <>[](marketPanel.data = market)
    /\ <>[](ordersPanel.data = IF token THEN mine ELSE Empty)

\* While the orders page is shown: without a session no row of an order is, even when
\* an answer from before it ended comes late; and whoever has one is not asked to sign
\* in, wherever he was when it began (OrdersPage.tsx:50, 66; token.ts:6).
SessionIsShown ==
  page = "orders" =>
    /\ ~ token => list.error # "none"
    /\ list.error = "signIn" => ~ token

\* A refresh of the orders page that had the page to itself leaves the list right: it is
\* that of the chosen filter, and what was cancelled is not live in it
\* (OrdersPage.tsx:58, 102).
LonelyListIsRight == O!ListIsOfFilter /\ O!CancelledStaysGone

\* The orders page does not stay in loading, nor a row in being cancelled: the refresh
\* button and the rows come back, however requests overlap and fail.
LoadingEnds ==
  /\ list.loading ~> ~ list.loading
  /\ cancelling # Nobody ~> cancelling = Nobody

=============================================================================
