---------------------------- MODULE OrderRuntime ----------------------------
(***************************************************************************)
(* The matcher runtime of order-service: one mutex around                  *)
(*                                                                         *)
(*      POST   /orders       SubmitOrder                                   *)
(*      DELETE /orders/{id}  CancelOrder                                   *)
(*                                                                         *)
(* the PostgreSQL tables it writes ("orders" and "trades"), the in-memory  *)
(* order book it matches against, and the events it hands to the stream.   *)
(* pc is where the holder of the mutex is; pc = "idle" means it is free.   *)
(*                                                                         *)
(* Calls that change nothing are stuttering steps: a value that does not   *)
(* parse, a foreign or terminal order in a cancel, an INSERT that fails    *)
(* without effect, every call on a closed runtime.  What the database does *)
(* behind a call that failed is no step of the runtime and may come at any *)
(* time: an INSERT, a cancel's UPDATE or a COMMIT that was sent takes      *)
(* effect although its answer is lost, in the call or long after it.       *)
(*                                                                         *)
(* Order i is the i-th row ever inserted, so i also stands for the pair    *)
(* (created_at, id) the rebuild sorts by: created_at is taken under the    *)
(* mutex by the one replica there is, from a clock assumed not to step     *)
(* back.  Side, price and quantity of a row never change, so the book's    *)
(* copies of them are read from the row.                                   *)
(***************************************************************************)
EXTENDS Naturals, Sequences, FiniteSets

CONSTANTS
  MaxOrders,    (* bound: rows ever inserted                               *)
  Prices,       (* limit prices, already parsed to KRW minor units         *)
  Quantities,   (* order quantities, already scaled                        *)
  FaultKinds,   (* the faults this instance meets, see AllFaults           *)
  MaxFaults     (* bound: faults in a behaviour                            *)

(***************************************************************************)
(* A call to the database can fail without effect, or fail although it     *)
(* takes effect: the handlers pass the request's context down, and a       *)
(* client that hangs up, or a lost connection, turns a statement that was  *)
(* sent into an error.                                                     *)
(*   "createUnsure"  the INSERT was sent and may take effect at any time   *)
(*                   after Create returned an error                        *)
(*   "cancelUnsure"  the same for the UPDATE of Cancel                     *)
(*   "commit"        the match transaction failed and rolled back          *)
(*   "commitUnsure"  it committed, PersistMatchResult returned an error    *)
(*   "commitLate"    PersistMatchResult returned an error, and it commits  *)
(*                   or rolls back later; until then its rows stay locked  *)
(*   "rebuild"       loading the restorable orders failed                  *)
(*   "publish"       an event did not reach the stream                     *)
(*   "crash"         the process stopped, wherever it was                  *)
(***************************************************************************)
AllFaults == {"createUnsure", "cancelUnsure", "commit", "commitUnsure",
              "commitLate", "rebuild", "publish", "crash"}

ASSUME RuntimeAssumption ==
  /\ MaxOrders \in Nat
  /\ Prices \subseteq Nat \ {0}
  /\ Quantities \subseteq Nat \ {0}
  /\ FaultKinds \subseteq AllFaults
  /\ MaxFaults \in Nat

VARIABLES
  rows,          (* orders table, NoRow where nothing was inserted         *)
  created,       (* how many rows were inserted                            *)
  trades,        (* trades table                                           *)
  late,          (* transactions whose COMMIT is on its way                *)
  lateCancels,   (* orders to which the UPDATE of a cancel is on its way   *)
  bookRem,       (* book: remaining quantity, 0 when the order is not in it*)
  bookSeq,       (* book: Sequence of a resting order                      *)
  nextSeq,       (* book: last Sequence handed out                         *)
  pc,            (* where the holder of the mutex is                       *)
  cur,           (* the order it works on, 0 when there is none            *)
  takerRem,      (* MatchResult.TakerRemainingQuantity                     *)
  fills,         (* MatchResult.Fills                                      *)
  makerFill,     (* makerFilledByID: what fills takes from each maker      *)
  copy,          (* what Store.Cancel read as the order's remaining        *)
                 (* quantity, before its UPDATE                            *)
  outbox,        (* events this call still has to publish                  *)
  stream,        (* events the stream holds, oldest first                  *)
  acked,         (* orders whose POST was answered 201                     *)
  cancelAcked,   (* orders whose DELETE was answered 200                   *)
  doubted,       (* orders whose DELETE failed with the UPDATE on its way  *)
  faults         (* faults so far                                          *)

storeVars == <<rows, created, trades, late, lateCancels>>
bookVars  == <<bookRem, bookSeq, nextSeq>>
callVars  == <<cur, takerRem, fills, makerFill, copy>>
wireVars  == <<outbox, stream>>
ackVars   == <<acked, cancelAcked, doubted>>
vars == <<storeVars, bookVars, pc, callVars, wireVars, ackVars, faults>>

OrderId  == 1..MaxOrders
Sides    == {"buy", "sell"}
Statuses == {"open", "partially_filled", "filled", "cancelled"}

\* The statuses that may rest in the book and may be cancelled.
Restable == {"open", "partially_filled"}

Row   == [side : Sides, price : Nat, qty : Nat, rem : Nat,
          status : Statuses \cup {"none", "inFlight"}]
NoRow == [side |-> "buy", price |-> 0, qty |-> 0, rem |-> 0, status |-> "none"]

OrderEvents == [kind : {"order"}, id : OrderId, rem : Nat, status : Statuses]
TradeEvents == [kind : {"trade"}, taker : OrderId, maker : OrderId,
                price : Nat, qty : Nat]
Trades == [taker : OrderId, maker : OrderId, price : Nat, qty : Nat]
Fills  == [maker : OrderId, price : Nat, qty : Nat]

\* A transaction on its way: the rows it updated as it leaves them, and its trades.
Transactions == [taker : OrderId, trades : SUBSET Trades, rows : [OrderId -> Row]]

PCs == {"idle", "matching", "matched", "persisted", "checked", "cancelling",
        "cancelled", "recoverSubmit", "recoverCancel", "closed", "down"}

----------------------------------------------------------------------------
(* The store *)

Restorable == {o \in OrderId : rows[o].status \in Restable}

StatusAfterFill(rem) == IF rem = 0 THEN "filled" ELSE "partially_filled"

TakerStatus == IF fills = <<>> THEN "open" ELSE StatusAfterFill(takerRem)

\* What the transaction of PersistMatchResult leaves in the table: each maker
\* loses what was filled of it, the taker is set to the result.  A maker's
\* status is set from its remaining quantity alone.
MatchedRows ==
  [o \in OrderId |->
     IF o = cur
       THEN [rows[o] EXCEPT !.rem = takerRem, !.status = TakerStatus]
     ELSE IF makerFill[o] > 0
       THEN [rows[o] EXCEPT !.rem = rows[o].rem - makerFill[o],
                            !.status = StatusAfterFill(rows[o].rem - makerFill[o])]
     ELSE rows[o]]

\* No maker is asked for more than its row has left (nor for anything of a row
\* with nothing left, which does not parse).
DeltasFit == \A o \in OrderId : makerFill[o] <= rows[o].rem

TradeOf(f) == [taker |-> cur, maker |-> f.maker, price |-> f.price, qty |-> f.qty]

NewTrades == {TradeOf(fills[i]) : i \in DOMAIN fills}

\* What PersistMatchResult updates.
Touched == {cur} \cup {o \in OrderId : makerFill[o] > 0}

UpdatedRows == [o \in OrderId |-> IF o \in Touched THEN MatchedRows[o] ELSE NoRow]

\* A row that a transaction updated stays locked until it commits.
Updates(t, o) == t.rows[o] # NoRow

Locked(o) == \E t \in late : Updates(t, o)

\* A maker that has less left than was filled of it stops the loop over the makers,
\* which waits at each for its lock.
Misfit ==
  \E i \in DOMAIN fills :
    /\ makerFill[fills[i].maker] > rows[fills[i].maker].rem
    /\ \A j \in 1..i : ~ Locked(fills[j].maker)

----------------------------------------------------------------------------
(* Events *)

OrderEvent(r, o) == [kind |-> "order", id |-> o, rem |-> r[o].rem,
                     status |-> r[o].status]

TradeEvent(f) == [kind |-> "trade", taker |-> cur, maker |-> f.maker,
                  price |-> f.price, qty |-> f.qty]

\* Mutant of MatchEvents: only the taker's event and the trades are published.
EventsWithoutMakers ==
  <<OrderEvent(MatchedRows, cur)>> \o [i \in DOMAIN fills |-> TradeEvent(fills[i])]

\* Makers in the order they were hit, the taker, then one event per fill.
\* A match hits a maker at most once (a maker it leaves something of ends it), so
\* the de-duplication of makers in the code has nothing to do.
MatchEvents ==
  [i \in DOMAIN fills |-> OrderEvent(MatchedRows, fills[i].maker)]
    \o <<OrderEvent(MatchedRows, cur)>>
    \o [i \in DOMAIN fills |-> TradeEvent(fills[i])]

----------------------------------------------------------------------------
(* The book *)

InBook(o) == bookRem[o] > 0

Opposite(o) == {m \in OrderId : InBook(m) /\ rows[m].side # rows[o].side}

\* isCrossed, with the taker's side and price.
Crosses(taker, maker) ==
  IF rows[taker].side = "buy" THEN rows[maker].price <= rows[taker].price
                              ELSE rows[maker].price >= rows[taker].price

\* Mutant of BetterPrice: the buyers are sorted as the sellers are.
BetterWhenLower(m, n) == rows[m].price < rows[n].price

BetterPrice(m, n) ==
  IF rows[m].side = "sell" THEN rows[m].price < rows[n].price
                           ELSE rows[m].price > rows[n].price

\* m is reached before n when a side is walked: by price, then first come first
\* served inside a level.
Ahead(m, n) ==
  \/ BetterPrice(m, n)
  \/ rows[m].price = rows[n].price /\ bookSeq[m] < bookSeq[n]

\* The head of the best opposite level.
BestMaker(m) ==
  /\ m \in Opposite(cur)
  /\ \A n \in Opposite(cur) \ {m} : Ahead(m, n)

\* Mutant of RebuiltSeq: the rows are loaded newest first.
NewestFirst(o) == Cardinality({p \in Restorable : p >= o})

\* Sequence numbers a rebuild hands out: restorable rows in creation order.
RebuiltSeq(o) == Cardinality({p \in Restorable : p <= o})

\* Mutants of RebuiltBook: an order comes back with its original quantity; the
\* sequence starts again below the orders already in the book.
RebuiltWithFullQuantity ==
  /\ bookRem' = [o \in OrderId |-> IF o \in Restorable THEN rows[o].qty ELSE 0]
  /\ bookSeq' = [o \in OrderId |-> IF o \in Restorable THEN RebuiltSeq(o) ELSE 0]
  /\ nextSeq' = Cardinality(Restorable)

RebuiltWithStaleSequence ==
  /\ bookRem' = [o \in OrderId |-> IF o \in Restorable THEN rows[o].rem ELSE 0]
  /\ bookSeq' = [o \in OrderId |-> IF o \in Restorable THEN RebuiltSeq(o) ELSE 0]
  /\ nextSeq' = 0

\* The book RebuildOrderBookFromPersistedOrders makes of the rows.
RebuiltBook ==
  /\ bookRem' = [o \in OrderId |-> IF o \in Restorable THEN rows[o].rem ELSE 0]
  /\ bookSeq' = [o \in OrderId |-> IF o \in Restorable THEN RebuiltSeq(o) ELSE 0]
  /\ nextSeq' = Cardinality(Restorable)

\* A row whose remaining quantity is "0" does not parse, and the rebuild fails.
CanRebuild == \A o \in Restorable : rows[o].rem > 0

EmptyBook ==
  /\ bookRem' = [o \in OrderId |-> 0]
  /\ bookSeq' = [o \in OrderId |-> 0]
  /\ nextSeq' = 0

----------------------------------------------------------------------------
(* The actions *)

Fault(k) == /\ k \in FaultKinds
            /\ faults < MaxFaults
            /\ faults' = faults + 1

NoFault == UNCHANGED faults

\* The mutex is released.
Release == pc' = "idle" /\ cur' = 0 /\ copy' = 0

matchVars == <<takerRem, fills, makerFill>>

\* The MatchResult is used up.
DropMatch ==
  /\ takerRem' = 0
  /\ fills' = <<>>
  /\ makerFill' = [o \in OrderId |-> 0]

\* Store.Create: the row of a new order, with everything still to be filled.
Insert(o, s, p, q, status) ==
  /\ rows' = [rows EXCEPT ![o] = [side |-> s, price |-> p, qty |-> q,
                                  rem |-> q, status |-> status]]
  /\ created' = o
  /\ UNCHANGED <<trades, late, lateCancels>>

\* SubmitOrder up to the insert and the order.created event it queues.  When
\* Create returns an error although the INSERT was sent, the call ends: the row
\* may come, and is neither matched, nor rested, nor announced.
SubmitOrder(s, p, q) ==
  LET o == created + 1 IN
  /\ pc = "idle"
  /\ created < MaxOrders
  /\ \/ /\ Insert(o, s, p, q, "open")
        /\ NoFault
        /\ pc' = "matching"
        /\ cur' = o
        /\ takerRem' = q
        /\ outbox' = <<[kind |-> "order", id |-> o, rem |-> q, status |-> "open"]>>
        /\ UNCHANGED <<fills, makerFill, copy>>
     \/ /\ Insert(o, s, p, q, "inFlight")
        /\ Fault("createUnsure")
        /\ UNCHANGED <<pc, callVars, outbox>>
  /\ UNCHANGED <<bookVars, stream, ackVars>>

\* The INSERT takes effect after all: a row like any other, which no book has.
InsertLands(o) ==
  /\ rows[o].status = "inFlight"
  /\ rows' = [rows EXCEPT ![o].status = "open"]
  /\ UNCHANGED <<created, trades, late, lateCancels, bookVars, pc, callVars, wireVars, ackVars, faults>>

\* One event of the call is handed to the stream.  Publishing is best effort: a
\* failure is logged and the call goes on.
PublishEvent ==
  /\ outbox # <<>>
  /\ outbox' = Tail(outbox)
  /\ \/ stream' = Append(stream, Head(outbox)) /\ NoFault
     \/ UNCHANGED stream /\ Fault("publish")
  /\ UNCHANGED <<storeVars, bookVars, pc, callVars, ackVars>>

\* Mutant of FillQty: the maker is thought to have enough.
FillQtyOfTaker(m) == takerRem

\* minInt64 of what is left on both sides.
FillQty(m) == IF takerRem < bookRem[m] THEN takerRem ELSE bookRem[m]

\* One turn of the loop of ProcessNewOrder: the taker meets the head of the
\* best opposite level, at the maker's price.
MatchStep ==
  /\ pc = "matching"
  /\ outbox = <<>>
  /\ takerRem > 0
  /\ \E m \in OrderId :
       LET q == FillQty(m) IN
       /\ BestMaker(m)
       /\ Crosses(cur, m)
       /\ bookRem' = [bookRem EXCEPT ![m] = @ - q]
       /\ bookSeq' = [bookSeq EXCEPT ![m] = IF bookRem[m] = q THEN 0 ELSE @]
       /\ takerRem' = takerRem - q
       /\ fills' = Append(fills, [maker |-> m, price |-> rows[m].price, qty |-> q])
       /\ makerFill' = [makerFill EXCEPT ![m] = @ + q]
  /\ UNCHANGED <<storeVars, nextSeq, pc, cur, copy, wireVars, ackVars, faults>>

\* AppendRestingOrder: the order becomes the last of its level.
Rest(o, q) ==
  /\ bookRem' = [bookRem EXCEPT ![o] = q]
  /\ bookSeq' = [bookSeq EXCEPT ![o] = nextSeq + 1]
  /\ nextSeq' = nextSeq + 1

\* The loop ends, and what is left of the taker rests.  The code asks only the
\* head of the best level whether it crosses; when that does not, none does.
MatchDone ==
  /\ pc = "matching"
  /\ outbox = <<>>
  /\ takerRem = 0 \/ ~ \E m \in Opposite(cur) : Crosses(cur, m)
  /\ IF takerRem > 0 THEN Rest(cur, takerRem) ELSE UNCHANGED bookVars
  /\ pc' = "matched"
  /\ UNCHANGED <<storeVars, callVars, wireVars, ackVars, faults>>

\* The transaction of PersistMatchResult got all its locks and wrote its rows.
MatchIsWritten ==
  /\ pc = "matched"
  /\ DeltasFit
  /\ \A o \in Touched : ~ Locked(o)

PersistMatchResult ==
  /\ MatchIsWritten
  /\ rows' = MatchedRows
  /\ trades' = trades \cup NewTrades
  /\ \/ /\ NoFault
        /\ pc' = "persisted"
        /\ outbox' = MatchEvents
     \/ /\ Fault("commitUnsure")
        /\ pc' = "recoverSubmit"
        /\ UNCHANGED outbox
  /\ DropMatch
  /\ UNCHANGED <<created, late, lateCancels, bookVars, cur, copy, stream, ackVars>>

\* tx.Commit returned an error, and the database has the COMMIT still before it.
PersistLater ==
  /\ MatchIsWritten
  /\ Fault("commitLate")
  /\ late' = late \cup {[taker |-> cur, trades |-> NewTrades, rows |-> UpdatedRows]}
  /\ pc' = "recoverSubmit"
  /\ DropMatch
  /\ UNCHANGED <<rows, created, trades, lateCancels, bookVars, cur, copy, wireVars, ackVars>>

\* The server commits it, whatever the runtime does by now, or finds the connection
\* gone and rolls it back.
MatchLands(t) ==
  /\ \/ /\ rows' = [o \in OrderId |-> IF Updates(t, o) THEN t.rows[o] ELSE rows[o]]
        /\ trades' = trades \cup t.trades
     \/ UNCHANGED <<rows, trades>>
  /\ late' = late \ {t}
  /\ UNCHANGED <<created, lateCancels, bookVars, pc, callVars, wireVars, ackVars, faults>>

\* Mutants of PersistFails: the trades were inserted outside the transaction; the
\* events were queued before the commit.
PersistFailsKeepingTrades ==
  /\ pc = "matched"
  /\ Fault("commit")
  /\ trades' = trades \cup NewTrades
  /\ pc' = "recoverSubmit"
  /\ DropMatch
  /\ UNCHANGED <<rows, created, late, lateCancels, bookVars, cur, copy, wireVars, ackVars>>

PersistFailsPublishing ==
  /\ pc = "matched"
  /\ Fault("commit")
  /\ outbox' = MatchEvents
  /\ pc' = "recoverSubmit"
  /\ DropMatch
  /\ UNCHANGED <<storeVars, bookVars, cur, copy, stream, ackVars>>

\* It rolled back: a delta did not fit, or the database failed.
PersistFails ==
  /\ pc = "matched"
  /\ \/ Misfit /\ NoFault
     \/ Fault("commit")
  /\ pc' = "recoverSubmit"
  /\ DropMatch
  /\ UNCHANGED <<storeVars, bookVars, cur, copy, wireVars, ackVars>>

\* SubmitOrder returns, and the client is answered 201.
AnswerSubmit ==
  /\ pc = "persisted"
  /\ outbox = <<>>
  /\ acked' = acked \cup {cur}
  /\ Release
  /\ UNCHANGED <<storeVars, bookVars, matchVars, wireVars, cancelAcked, doubted, faults>>

\* CancelOrder up to the reading of the order, which is there and not terminal.
ReadForCancel(o) ==
  /\ pc = "idle"
  /\ rows[o].status \in Restable
  /\ pc' = "checked"
  /\ cur' = o
  /\ copy' = rows[o].rem
  /\ UNCHANGED <<storeVars, bookVars, matchVars, wireVars, ackVars, faults>>

\* Store.Cancel: the guarded UPDATE, which waits for the lock of the row.
CancelOrder ==
  /\ pc = "checked"
  /\ ~ Locked(cur)
  /\ rows[cur].status \in Restable
  /\ rows' = [rows EXCEPT ![cur].status = "cancelled"]
  /\ pc' = "cancelling"
  /\ UNCHANGED <<created, trades, late, lateCancels, bookVars, callVars, wireVars, ackVars, faults>>

\* It updated nothing, the order being terminal by then, or returned an error; the
\* UPDATE may be on its way.
CancelFails ==
  /\ pc = "checked"
  /\ \/ NoFault /\ UNCHANGED <<lateCancels, doubted>>
     \/ /\ Fault("cancelUnsure")
        /\ lateCancels' = lateCancels \cup {cur}
        /\ doubted' = doubted \cup {cur}
  /\ Release
  /\ UNCHANGED <<rows, created, trades, late, bookVars, matchVars, wireVars, acked, cancelAcked>>

\* The UPDATE takes effect after all, and leaves the order in the book.
CancelLands(o) ==
  /\ ~ Locked(o)
  /\ rows[o].status \in Restable
  /\ rows' = [rows EXCEPT ![o].status = "cancelled"]
  /\ lateCancels' = lateCancels \ {o}
  /\ UNCHANGED <<created, trades, late, bookVars, pc, callVars, wireVars, ackVars, faults>>

\* The event of the cancelled order: the copy that was read, with its new status.
CancelEvent == [OrderEvent(rows, cur) EXCEPT !.rem = copy]

\* Mutant of CancelInBook: the order stays in the book.
CancelInTableOnly ==
  /\ pc = "cancelling"
  /\ pc' = "cancelled"
  /\ outbox' = <<CancelEvent>>
  /\ UNCHANGED <<storeVars, bookVars, callVars, stream, ackVars, faults>>

\* The rest of CancelOrder: the order leaves the book; one that was not there
\* shows that book and table differ, and the book is rebuilt.
CancelInBook ==
  /\ pc = "cancelling"
  /\ IF InBook(cur)
       THEN /\ bookRem' = [bookRem EXCEPT ![cur] = 0]
            /\ bookSeq' = [bookSeq EXCEPT ![cur] = 0]
            /\ pc' = "cancelled"
            /\ outbox' = <<CancelEvent>>
       ELSE /\ pc' = "recoverCancel"
            /\ UNCHANGED <<bookRem, bookSeq, outbox>>
  /\ UNCHANGED <<storeVars, nextSeq, callVars, stream, ackVars, faults>>

\* CancelOrder returns, and the client is answered 200.
AnswerCancel ==
  /\ pc = "cancelled"
  /\ outbox = <<>>
  /\ cancelAcked' = cancelAcked \cup {cur}
  /\ Release
  /\ UNCHANGED <<storeVars, bookVars, matchVars, wireVars, acked, doubted, faults>>

\* Mutants of RecoverBook: a failed submit goes on with the book it has; a cancel
\* waits for a recovery that never comes.
RecoverNothing ==
  /\ pc = "recoverSubmit"
  /\ Release
  /\ UNCHANGED <<storeVars, bookVars, matchVars, wireVars, ackVars, faults>>

RecoverSubmitOnly ==
  /\ CanRebuild
  /\ RebuiltBook
  /\ pc = "recoverSubmit"
  /\ Release
  /\ UNCHANGED <<storeVars, matchVars, wireVars, ackVars, faults>>

\* recoverBookLocked succeeded.  The submit that failed is answered 500, the
\* cancel goes on.
RecoverBook ==
  /\ CanRebuild
  /\ RebuiltBook
  /\ \/ /\ pc = "recoverSubmit"
        /\ Release
        /\ UNCHANGED outbox
     \/ /\ pc = "recoverCancel"
        /\ pc' = "cancelled"
        /\ outbox' = <<CancelEvent>>
        /\ UNCHANGED <<cur, copy>>
  /\ UNCHANGED <<storeVars, matchVars, stream, ackVars, faults>>

\* failClosedLocked: the book stays as it is and every later call is refused
\* until the process is restarted.
FailClosed ==
  /\ pc \in {"recoverSubmit", "recoverCancel"}
  /\ \/ ~ CanRebuild /\ NoFault
     \/ Fault("rebuild")
  /\ pc' = "closed"
  /\ UNCHANGED <<storeVars, bookVars, callVars, wireVars, ackVars>>

\* The process stops: killed, or shut down with a call still running.
Crash ==
  /\ pc # "down"
  /\ Fault("crash")
  /\ pc' = "down"
  /\ EmptyBook
  /\ cur' = 0
  /\ copy' = 0
  /\ DropMatch
  /\ outbox' = <<>>
  /\ UNCHANGED <<storeVars, stream, ackVars>>

\* NewOrderRuntime.  main exits when the rebuild fails, and is started again.
Restart ==
  /\ pc = "down"
  /\ CanRebuild
  /\ RebuiltBook
  /\ pc' = "idle"
  /\ UNCHANGED <<storeVars, callVars, wireVars, ackVars, faults>>

----------------------------------------------------------------------------

Init ==
  /\ rows = [o \in OrderId |-> NoRow]
  /\ created = 0
  /\ trades = {}
  /\ late = {}
  /\ lateCancels = {}
  /\ bookRem = [o \in OrderId |-> 0]
  /\ bookSeq = [o \in OrderId |-> 0]
  /\ nextSeq = 0
  /\ pc = "idle"
  /\ cur = 0
  /\ takerRem = 0
  /\ fills = <<>>
  /\ makerFill = [o \in OrderId |-> 0]
  /\ copy = 0
  /\ outbox = <<>>
  /\ stream = <<>>
  /\ acked = {}
  /\ cancelAcked = {}
  /\ doubted = {}
  /\ faults = 0

\* What clients do.
Requests ==
  \/ \E s \in Sides, p \in Prices, q \in Quantities : SubmitOrder(s, p, q)
  \/ \E o \in OrderId : ReadForCancel(o)

\* What the holder of the mutex does next.
Work ==
  \/ PublishEvent
  \/ MatchStep
  \/ MatchDone
  \/ PersistMatchResult
  \/ PersistLater
  \/ PersistFails
  \/ AnswerSubmit
  \/ CancelOrder
  \/ CancelFails
  \/ CancelInBook
  \/ AnswerCancel
  \/ RecoverBook
  \/ FailClosed

\* What the database does behind a call that failed.
Landings ==
  \/ \E o \in OrderId : InsertLands(o)
  \/ \E o \in lateCancels : CancelLands(o)
  \/ \E t \in late : MatchLands(t)

Next == Requests \/ Work \/ Landings \/ Crash \/ Restart

Spec == Init /\ [][Next]_vars

(***************************************************************************)
(* The holder of the mutex goes on as long as the database answers, and a  *)
(* publish returns by itself after at most its timeout.  A process that    *)
(* exits is started again.  Clients owe nothing, and nobody restarts a     *)
(* runtime that failed closed: its liveness probe keeps answering 200.  A  *)
(* COMMIT on its way is executed some day, and its locks are free.         *)
(***************************************************************************)
FairSpec ==
  /\ Spec
  /\ WF_vars(Work)
  /\ WF_vars(Restart)
  /\ WF_vars(\E t \in late : MatchLands(t))

----------------------------------------------------------------------------
(* Properties *)

\* Type invariant.
TypeOK ==
  /\ rows \in [OrderId -> Row]
  /\ created \in 0..MaxOrders
  /\ trades \subseteq Trades
  /\ late \subseteq Transactions
  /\ lateCancels \subseteq OrderId
  /\ bookRem \in [OrderId -> Nat]
  /\ bookSeq \in [OrderId -> Nat]
  /\ nextSeq \in Nat
  /\ pc \in PCs
  /\ cur \in 0..created
  /\ takerRem \in Nat
  /\ fills \in Seq(Fills)
  /\ makerFill \in [OrderId -> Nat]
  /\ copy \in Nat
  /\ outbox \in Seq(OrderEvents \cup TradeEvents)
  /\ stream \in Seq(OrderEvents \cup TradeEvents)
  /\ acked \subseteq OrderId
  /\ cancelAcked \subseteq OrderId
  /\ doubted \subseteq OrderId
  /\ faults \in 0..MaxFaults

Orders == {o \in OrderId : rows[o].status \in Statuses}

\* An order row's status and its remaining quantity tell the same story through
\* every match, cancel, rollback and restart; in particular a restorable row
\* always has something left, so a start is never blocked by a row that does
\* not parse (store.go:412, rebuild.go:71).
StatusMatchesRemaining ==
  \A o \in Orders :
    /\ rows[o].rem <= rows[o].qty
    /\ rows[o].status = "filled" <=> rows[o].rem = 0
    /\ rows[o].status = "open" => rows[o].rem = rows[o].qty
    /\ rows[o].status = "partially_filled" => rows[o].rem < rows[o].qty

\* Whenever the mutex is free, the book is what a restart would rebuild from
\* the table: the same orders with the same remaining quantities, and inside a
\* price level the same queue (rebuild.go:33 against the live book).  A commit that
\* failed is no exception as long as it was executed, or never will be, by the time
\* its error came: the recovery then reads what it left (runtime.go:82).
BookAgreesWithStore ==
  pc = "idle" =>
    /\ \A o \in OrderId :
         bookRem[o] = IF o \in Restorable THEN rows[o].rem ELSE 0
    /\ \A o, p \in Restorable : o < p => bookSeq[o] < bookSeq[p]

\* Answered 201, or about to be.
Settled(o) == o \in acked \/ (pc = "persisted" /\ o = cur)

\* A match of the order was committed although its taker was answered with an error.
CommittedUnseen(o) ==
  /\ "commitLate" \in FaultKinds
  /\ \E t \in trades : o \in {t.taker, t.maker} /\ ~ Settled(t.taker)

\* A match the runtime computed fits the rows it is then written to: the maker update
\* meets no row with less left than the book had, except where a commit that failed
\* was executed after the recovery had read the rows (store.go:428, runtime.go:83).
MatchFitsRows ==
  pc = "matched" =>
    \A o \in OrderId : makerFill[o] > rows[o].rem => CommittedUnseen(o)

\* An order that such a commit may have put back to life: a cancel of it that failed
\* took effect before it was written, and a recovery did not see it in between.
Strayed(o) == o \in doubted /\ CommittedUnseen(o)

\* The live orders a client was promised.
Promised == {o \in acked \cap Restorable : ~ Strayed(o)}

\* Two orders whose clients were both answered 201 and that are both still live
\* never cross: whatever failed in between, one of them would have been matched
\* with the other.  An order whose POST failed may rest crossed: a taker whose
\* match rolled back is restored with its row (runtime.go:83).
AckedOrdersNeverCross ==
  \A b, s \in Promised :
    rows[b].side = "buy" /\ rows[s].side = "sell" => rows[b].price < rows[s].price

\* Once a cancel was answered 200, nothing touches the order any more: no match,
\* no recovery and no restart brings it back or trades it.
AckedCancelIsFinal ==
  [][\A o \in cancelAcked :
       /\ rows'[o] = rows[o]
       /\ \A t \in trades' \ trades : o \notin {t.maker, t.taker}]_vars

\* An order that is filled or cancelled stays so (model.go:28).
TerminalIsFinal ==
  [][\A o \in OrderId :
       rows[o].status \in {"filled", "cancelled"} =>
         rows'[o].status = rows[o].status]_vars

EarlierInQueue(o, p) ==
  \/ BetterPrice(o, p)
  \/ rows[o].price = rows[p].price /\ o < p

\* Price-time priority against the table, not against the book: a match never
\* passes over a live acknowledged order that was entitled to be hit first,
\* across recoveries and restarts too.
NoTradeThrough ==
  [][\A t \in trades' \ trades : \A o \in Promised :
       /\ rows[o].side = rows[t.maker].side
       /\ EarlierInQueue(o, t.maker)
       => rows'[o].rem = 0]_vars

IsEventOf(e, o) == e.kind = "order" /\ e.id = o

\* The stream tells an order's life in order, with holes but never backwards:
\* what is left of it does not grow and nothing follows its terminal event.
StreamNeverGoesBack ==
  \A j \in DOMAIN stream : stream[j].kind = "order" =>
    \A i \in 1..(j - 1) :
      IsEventOf(stream[i], stream[j].id) =>
        /\ stream[j].rem <= stream[i].rem
        /\ stream[i].status \notin {"filled", "cancelled"}

\* When nothing failed and the mutex is free, the stream is complete: its last
\* event of every order is the order's row, and its trades are the trades.
StreamIsComplete ==
  pc = "idle" /\ faults = 0 =>
    /\ \A o \in Orders : \E i \in DOMAIN stream :
         /\ stream[i] = OrderEvent(rows, o)
         /\ \A j \in (i + 1)..Len(stream) : ~ IsEventOf(stream[j], o)
    /\ trades = {[taker |-> stream[i].taker, maker |-> stream[i].maker,
                  price |-> stream[i].price, qty |-> stream[i].qty] :
                    i \in {j \in DOMAIN stream : stream[j].kind = "trade"}}

\* Every call that takes the mutex gives it back, if only by failing closed.
MutexIsReleased == pc \notin {"idle", "closed"} ~> pc \in {"idle", "closed"}

(***************************************************************************)
(* The inductive invariant behind the theorems, in named parts.            *)
(***************************************************************************)
MatchRunning == pc \in {"matching", "matched"}

\* The book is in use: it is the book that later matches will read.
BookIsLive == pc \notin {"recoverSubmit", "closed", "down"}

RowsInv ==
  /\ \A o \in OrderId :
       IF o > created THEN rows[o] = NoRow
       ELSE /\ rows[o].status # "none"
            /\ rows[o].qty > 0
            /\ rows[o].rem <= rows[o].qty
            /\ rows[o].status = "filled" <=> rows[o].rem = 0
            /\ rows[o].status \in {"open", "inFlight"} => rows[o].rem = rows[o].qty
            /\ rows[o].status = "partially_filled" => rows[o].rem < rows[o].qty
  /\ \A t \in trades : t.taker <= created

CallInv ==
  /\ ~ MatchRunning =>
       takerRem = 0 /\ fills = <<>> /\ \A o \in OrderId : makerFill[o] = 0
  /\ MatchRunning =>
       /\ cur \in OrderId \ (acked \cup cancelAcked)
       /\ rows[cur].status = "open"
       /\ makerFill[cur] = 0
       /\ takerRem <= rows[cur].qty
       /\ fills = <<>> <=> takerRem = rows[cur].qty
       /\ bookRem[cur] = IF pc = "matched" THEN takerRem ELSE 0
       /\ \A i \in DOMAIN fills : makerFill[fills[i].maker] > 0
       /\ \A o \in OrderId : makerFill[o] > 0 => \E i \in DOMAIN fills : fills[i].maker = o
       /\ cur \notin lateCancels
       /\ \A t \in trades : t.taker # cur
  /\ pc = "persisted" => cur \in OrderId
  /\ pc = "checked" => cur \in Orders
  /\ pc \in {"cancelling", "recoverCancel", "cancelled"} =>
       cur \in OrderId /\ rows[cur].status = "cancelled"
  /\ pc = "cancelled" => bookRem[cur] = 0

\* What the book holds of an order plus what the running match took from it.
InPlayQty(o) == bookRem[o] + makerFill[o]

\* That is what the row says; after a commit nobody saw it is more.
InPlayRight(o) ==
  \/ InPlayQty(o) = rows[o].rem
  \/ InPlayQty(o) > rows[o].rem /\ CommittedUnseen(o)

\* The book agrees with the row on every order it holds, and holds every live
\* order that was or is about to be acknowledged.
BookInv ==
  BookIsLive =>
    \A o \in OrderId :
      (MatchRunning => o # cur) =>
        /\ InPlayQty(o) > 0 =>
             /\ o <= created /\ rows[o].status # "inFlight" /\ InPlayRight(o)
             /\ rows[o].status = "cancelled" =>
                  o \in doubted \/ (pc = "cancelling" /\ o = cur)
        /\ Settled(o) /\ o \in Restorable /\ ~ Strayed(o) => InPlayRight(o)

AckInv ==
  /\ acked \subseteq 1..created
  /\ \A o \in OrderId : Settled(o) => rows[o].status # "inFlight"
  /\ \A o \in cancelAcked :
       rows[o].status = "cancelled" /\ bookRem[o] = 0 /\ makerFill[o] = 0

InPlay(o) ==
  /\ ~ Strayed(o)
  /\ o \in Restorable \/ (BookIsLive /\ InPlayQty(o) > 0)

CrossInv ==
  /\ pc = "matched" /\ takerRem > 0 =>
       \A m \in Opposite(cur) : ~ Crosses(cur, m)
  /\ \A b, s \in OrderId :
       /\ Settled(b) /\ InPlay(b) /\ rows[b].side = "buy"
       /\ Settled(s) /\ InPlay(s) /\ rows[s].side = "sell"
       => rows[b].price < rows[s].price

\* What a transaction on its way makes of a row: nothing, or a fill of one of its
\* trades, also of an order that was cancelled while it was matched.
LateRow(t, o) ==
  /\ \/ rows[o].status \in Restable
     \/ rows[o].status = "cancelled" /\ o \in doubted
  /\ t.rows[o].side = rows[o].side
  /\ t.rows[o].price = rows[o].price
  /\ t.rows[o].qty = rows[o].qty
  /\ \/ t.rows[o].rem = rows[o].rem /\ t.rows[o].status = rows[o].status
     \/ /\ t.rows[o].rem < rows[o].rem
        /\ t.rows[o].status = StatusAfterFill(t.rows[o].rem)
        /\ \E u \in t.trades : o \in {u.taker, u.maker}

\* Its taker is nobody's acknowledged order, and is in every book that is read
\* meanwhile; what it locks, nobody else changes.
LateInv ==
  /\ lateCancels \subseteq doubted \cap Orders
  /\ \A t \in late :
       /\ "commitLate" \in FaultKinds
       /\ Updates(t, t.taker)
       /\ rows[t.taker].status = "open"
       /\ ~ Settled(t.taker)
       /\ BookIsLive => InPlayQty(t.taker) >= rows[t.taker].rem
       /\ \A u \in t.trades : u.taker = t.taker /\ Updates(t, u.maker)
       /\ \A o \in OrderId : Updates(t, o) =>
            /\ o <= created
            /\ o \notin cancelAcked
            /\ o = cur => pc \in {"recoverSubmit", "closed", "checked"}
            /\ LateRow(t, o)
  /\ \A o \in OrderId : \A t, u \in late : Updates(t, o) /\ Updates(u, o) => t = u

RuntimeInv ==
  TypeOK /\ RowsInv /\ CallInv /\ BookInv /\ AckInv /\ CrossInv /\ LateInv

=============================================================================
