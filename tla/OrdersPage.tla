----------------------------- MODULE OrdersPage -----------------------------
(***************************************************************************)
(* The orders page of the frontend: the list of my orders under a filter,  *)
(* with a button that cancels an order and a form that creates one.        *)
(*                                                                         *)
(* Nothing is polled: the list is asked for when the page is shown, when   *)
(* the filter or the session changes, at the button, and after a create or *)
(* a cancel - then under the filter of the render that was clicked in.  No *)
(* request knows whether it is the latest, and each ends the loading.      *)
(***************************************************************************)
EXTENDS Integers, FiniteSets

CONSTANTS
  Orders,       (* my orders, there and to come                            *)
  Slots,        (* bound: list requests that are under way                 *)
  Flows,        (* bound: cancels that are under way                       *)
  MaxTasks,     (* bound: creates and cancels that are under way           *)
  MaxTroubles   (* bound: requests that fail                               *)

VARIABLES
  mine,         (* server: my orders                                       *)
  token,        (* whether there is a token in the session storage         *)
  troubles,     (* failures so far                                         *)
  filter,       (* statusFilter                                            *)
  reqs,         (* list requests                                           *)
  list,         (* orders, loading and listError; of: the filter it is of  *)
  form,         (* the order form's submit                                 *)
  cancels,
  cancelling,   (* cancellingId                                            *)
  alone,        (* history: the last refresh began with none under way and *)
                (* for the filter that was chosen                          *)
  done          (* history: orders whose cancel and refresh went through   *)

flowVars  == <<form, cancels, cancelling, done>>
pageVars  == <<filter, reqs, list, flowVars, alone>>
vars      == <<mine, token, troubles, pageVars>>

Lives   == {"none", "open", "closed"}
Filters == {"all", "open"}
Nobody  == "nobody"
Errors  == {"none", "signIn", "failed"}      \* listError
Empty   == [o \in Orders |-> "none"]
Waiters == {"page", "form"} \cup Flows

Free   == [by |-> "page", busy |-> FALSE, answered |-> FALSE, filter |-> "all", data |-> Empty]
NoForm == [step |-> "idle", filter |-> "all"]
NoFlow == [order |-> Nobody, step |-> "idle", filter |-> "all"]

----------------------------------------------------------------------------
(* Asking for the list *)

\* What GET /orders?status= lists of the orders there are.
Listed(orders, f) ==
  [o \in Orders |-> IF f = "all" \/ orders[o] = f THEN orders[o] ELSE "none"]

Quiet == \A s \in Slots : ~ reqs[s].busy

FirstFree(s) == ~ reqs[s].busy /\ \A r \in Slots : r < s => reqs[r].busy

\* refresh, of a render with filter f: without a token the list gives way to an error.
Refresh(f, by) ==
  IF token'
    THEN /\ \E s \in Slots :
              /\ FirstFree(s)
              /\ reqs' = [reqs EXCEPT ![s] = [by |-> by, busy |-> TRUE, answered |-> FALSE,
                                              filter |-> f, data |-> Empty]]
         /\ list' = [list EXCEPT !.loading = TRUE, !.error = "none"]
    ELSE /\ list' = [list EXCEPT !.data = Empty, !.error = "signIn"]
         /\ UNCHANGED reqs

Waiting(by) == \E s \in Slots : reqs[s].busy /\ reqs[s].by = by

Serve(s) ==
  /\ reqs[s].busy /\ ~ reqs[s].answered
  /\ reqs' = [reqs EXCEPT ![s].answered = TRUE, ![s].data = Listed(mine, reqs[s].filter)]
  /\ UNCHANGED <<mine, token, troubles, filter, list, flowVars, alone>>

\* Mutant of Arrive: it takes the error away, as the trading page does.
ArriveClearing(s) ==
  /\ reqs[s].answered
  /\ reqs' = [reqs EXCEPT ![s] = Free]
  /\ list' = [data |-> reqs[s].data, of |-> reqs[s].filter, loading |-> FALSE, error |-> "none"]
  /\ UNCHANGED <<mine, token, troubles, filter, flowVars, alone>>

\* An answer replaces the list and ends the loading; an error stays.
Arrive(s) ==
  /\ reqs[s].answered
  /\ reqs' = [reqs EXCEPT ![s] = Free]
  /\ list' = [list EXCEPT !.data = reqs[s].data, !.of = reqs[s].filter, !.loading = FALSE]
  /\ UNCHANGED <<mine, token, troubles, filter, flowVars, alone>>

Trouble == troubles < MaxTroubles /\ troubles' = troubles + 1

\* Mutant of Fail: there is no finally.
FailLoadingOn(s) ==
  /\ reqs[s].busy
  /\ Trouble
  /\ reqs' = [reqs EXCEPT ![s] = Free]
  /\ list' = [list EXCEPT !.error = "failed"]
  /\ UNCHANGED <<mine, token, filter, flowVars, alone>>

Fail(s) ==
  /\ reqs[s].busy
  /\ Trouble
  /\ reqs' = [reqs EXCEPT ![s] = Free]
  /\ list' = [list EXCEPT !.loading = FALSE, !.error = "failed"]
  /\ UNCHANGED <<mine, token, filter, flowVars, alone>>

----------------------------------------------------------------------------
(* What is clicked *)

ClickRefresh ==
  /\ ~ list.loading
  /\ UNCHANGED <<mine, token, troubles, filter, flowVars>>
  /\ Refresh(filter, "page")
  /\ alone' = Quiet

ChooseFilter(f) ==
  /\ f # filter
  /\ filter' = f
  /\ UNCHANGED <<mine, token, troubles, flowVars>>
  /\ Refresh(f, "page")
  /\ alone' = Quiet

\* isAuthenticated changed while the page is shown: token' is what it is now.
SessionChanges ==
  /\ UNCHANGED <<mine, troubles, filter, flowVars>>
  /\ Refresh(filter, "page")
  /\ alone' = Quiet

Tasks == Cardinality({f \in Flows : cancels[f].step # "idle"})
           + IF form.step # "idle" THEN 1 ELSE 0

\* onCreate, with the refresh of this render.
SubmitForm ==
  /\ form.step = "idle"
  /\ Tasks < MaxTasks
  /\ token
  /\ form' = [step |-> "posting", filter |-> filter]
  /\ UNCHANGED <<mine, token, troubles, filter, reqs, list, cancels, cancelling, alone, done>>

CreateServed ==
  /\ form.step = "posting"
  /\ \E o \in Orders : mine[o] = "none" /\ mine' = [mine EXCEPT ![o] = "open"]
  /\ form' = [form EXCEPT !.step = "created"]
  /\ UNCHANGED <<token, troubles, filter, reqs, list, cancels, cancelling, alone, done>>

CreateReturns ==
  /\ form.step = "created"
  /\ form' = [form EXCEPT !.step = "refetching"]
  /\ UNCHANGED <<mine, token, troubles, filter, cancels, cancelling, done>>
  /\ Refresh(form.filter, "form")
  /\ alone' = (Quiet /\ form.filter = filter)

FormEnds ==
  /\ \/ form.step \in {"posting", "created"} /\ Trouble
     \/ form.step = "refetching" /\ ~ Waiting("form") /\ UNCHANGED troubles
  /\ form' = NoForm
  /\ UNCHANGED <<mine, token, filter, reqs, list, cancels, cancelling, alone, done>>

\* OrdersTable: no row is there while the list is loading or has an error.
Shown(o) == ~ list.loading /\ list.error = "none" /\ list.data[o] = "open"

\* onCancel, from a row whose button is not disabled; a row is there with a token only,
\* see Frontend's SessionIsShown.
ClickCancel(f, o) ==
  /\ cancels[f].step = "idle"
  /\ Tasks < MaxTasks
  /\ token
  /\ Shown(o)
  /\ cancelling # o
  /\ cancels' = [cancels EXCEPT ![f] = [order |-> o, step |-> "deleting", filter |-> filter]]
  /\ cancelling' = o
  /\ list' = [list EXCEPT !.error = "none"]
  /\ UNCHANGED <<mine, token, troubles, filter, reqs, form, alone, done>>

\* The server cancels what is live and refuses the rest.
DeleteServed(f) ==
  /\ cancels[f].step = "deleting"
  /\ IF mine[cancels[f].order] = "open"
       THEN /\ mine' = [mine EXCEPT ![cancels[f].order] = "closed"]
            /\ cancels' = [cancels EXCEPT ![f].step = "deleted"]
       ELSE /\ cancels' = [cancels EXCEPT ![f].step = "refused"]
            /\ UNCHANGED mine
  /\ UNCHANGED <<token, troubles, filter, reqs, list, form, cancelling, alone, done>>

\* Mutant of CancelReturns: the list is not asked for again.
CancelReturnsOnly(f) ==
  /\ cancels[f].step = "deleted"
  /\ cancels' = [cancels EXCEPT ![f].step = "refetching"]
  /\ UNCHANGED <<mine, token, troubles, filter, reqs, list, form, cancelling, alone, done>>

CancelReturns(f) ==
  /\ cancels[f].step = "deleted"
  /\ cancels' = [cancels EXCEPT ![f].step = "refetching"]
  /\ UNCHANGED <<mine, token, troubles, filter, form, cancelling, done>>
  /\ Refresh(cancels[f].filter, f)
  /\ alone' = (Quiet /\ cancels[f].filter = filter)

\* An error of the DELETE is shown in place of the list; one of the refresh is its own.
CancelEnds(f) ==
  /\ \/ /\ cancels[f].step = "refetching" /\ ~ Waiting(f)
        /\ done' = done \cup {cancels[f].order}
        /\ UNCHANGED <<list, troubles>>
     \/ /\ cancels[f].step = "refused" /\ UNCHANGED <<troubles, done>>
        /\ list' = [list EXCEPT !.error = "failed"]
     \/ /\ cancels[f].step \in {"deleting", "deleted"} /\ Trouble /\ UNCHANGED done
        /\ list' = [list EXCEPT !.error = "failed"]
  /\ cancels' = [cancels EXCEPT ![f] = NoFlow]
  /\ cancelling' = Nobody
  /\ UNCHANGED <<mine, token, filter, reqs, form, alone>>

----------------------------------------------------------------------------
(* The page in the browser *)

\* One of my orders is filled, or one is created or cancelled from somewhere else.
OrderMoves ==
  /\ \E o \in Orders :
       \/ mine[o] = "none" /\ mine' = [mine EXCEPT ![o] = "open"]
       \/ mine[o] = "open" /\ mine' = [mine EXCEPT ![o] = "closed"]
  /\ UNCHANGED <<token, troubles, pageVars>>

Blank == [data |-> Empty, of |-> "all", loading |-> FALSE, error |-> "none"]

Init ==
  /\ filter = "all"
  /\ reqs = [s \in Slots |-> Free]
  /\ list = Blank
  /\ form = NoForm
  /\ cancels = [f \in Flows |-> NoFlow]
  /\ cancelling = Nobody
  /\ alone = TRUE
  /\ done = {}

\* The effect that runs when the page is shown: the first refresh.
Mount ==
  /\ Refresh("all", "page")
  /\ UNCHANGED <<filter, flowVars, alone>>

\* The page is left: what is under way has nobody left that waits for it.
Unmount ==
  /\ filter' = "all"
  /\ reqs' = [s \in Slots |-> Free]
  /\ list' = Blank
  /\ form' = NoForm
  /\ cancels' = [f \in Flows |-> NoFlow]
  /\ cancelling' = Nobody
  /\ alone' = TRUE
  /\ done' = {}

FlowSteps(f) == DeleteServed(f) \/ CancelReturns(f) \/ CancelEnds(f)

FormSteps == CreateServed \/ CreateReturns \/ FormEnds

\* What the page does while it is shown, but for the session's begin and end.
Steps ==
  \/ \E s \in Slots : Serve(s) \/ Arrive(s) \/ Fail(s)
  \/ ClickRefresh
  \/ \E f \in Filters : ChooseFilter(f)
  \/ SubmitForm \/ FormSteps
  \/ \E f \in Flows : (\E o \in Orders : ClickCancel(f, o)) \/ FlowSteps(f)

----------------------------------------------------------------------------
(* Properties *)

\* Type invariant.
TypeOK ==
  /\ filter \in Filters
  /\ reqs \in [Slots -> [by : Waiters, busy : BOOLEAN, answered : BOOLEAN,
                         filter : Filters, data : [Orders -> Lives]]]
  /\ list \in [data : [Orders -> Lives], of : Filters, loading : BOOLEAN, error : Errors]
  /\ form \in [step : {"idle", "posting", "created", "refetching"}, filter : Filters]
  /\ \A f \in Flows :
       cancels[f].step \in {"idle", "deleting", "deleted", "refused", "refetching"}
  /\ cancelling \in Orders \cup {Nobody}
  /\ alone \in BOOLEAN
  /\ done \subseteq Orders

\* A list that is shown is that of the chosen filter, unless its refresh overlapped
\* another or came from a render with another filter; the next refresh that has the
\* page to itself puts it right (OrdersPage.tsx:58, 68).
ListIsOfFilter ==
  alone /\ ~ list.loading /\ list.error = "none" => list.of = filter

\* An order whose cancel went through is not shown live again, but for the same
\* (OrdersPage.tsx:102).
CancelledStaysGone ==
  alone => \A o \in done : ~ Shown(o)

=============================================================================
