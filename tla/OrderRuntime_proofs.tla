------------------------- MODULE OrderRuntime_proofs -------------------------
(***************************************************************************)
(* Theorems about OrderRuntime for any number of orders, any prices and    *)
(* quantities, and any set and number of faults: about the table and the   *)
(* book, about the stream of events that is told of them, and, at the end, *)
(* that OrderRuntime implements Exchange and fills what it says it fills.  *)
(*                                                                         *)
(* For the last, FillInv adds up the trades table; MatchInv adds up the    *)
(* running match.  At the commit the book's greedy walk has to be what the *)
(* exchange owes each maker by arithmetic: what is left of the taker after *)
(* all that is ahead of the maker in the table.  QueueInv and ExactInv     *)
(* give it: whoever is ahead of a maker that was hit was used up, and what *)
(* the book held of it was the row's.                                      *)
(***************************************************************************)
EXTENDS MCOrderRuntime, DataLemmas, FiniteSetTheorems, SequenceTheorems, TLAPS

----------------------------------------------------------------------------
(* Type correctness *)

LEMMA SingletonIsSeq ==
  ASSUME NEW S, NEW T, NEW e \in S
  PROVE  <<e>> \in Seq(S \cup T)
OBVIOUS

\* A book made from the table is well typed: the sequence numbers handed out are
\* counts of finite sets of orders.
LEMMA RebuiltBookType ==
  ASSUME TypeOK, RebuiltBook
  PROVE  /\ bookRem' \in [OrderId -> Nat]
         /\ bookSeq' \in [OrderId -> Nat]
         /\ nextSeq' \in Nat
<1>1. IsFiniteSet(OrderId)
  BY RuntimeAssumption, FS_Interval DEF OrderId
<1>2. Cardinality(Restorable) \in Nat
  BY <1>1, FS_Subset, FS_CardinalityType DEF Restorable
<1>3. ASSUME NEW o \in OrderId PROVE RebuiltSeq(o) \in Nat
  <2>1. {p \in Restorable : p <= o} \subseteq OrderId
    BY DEF Restorable
  <2> QED
    BY <1>1, <2>1, FS_Subset, FS_CardinalityType DEF RebuiltSeq
<1> QED
  BY <1>2, <1>3 DEF TypeOK, RebuiltBook, Row, Restorable

\* What PersistMatchResult leaves in the table is a table, and no row it touches
\* lacks a status.
LEMMA MatchedRowsType ==
  ASSUME TypeOK, DeltasFit
  PROVE  /\ MatchedRows \in [OrderId -> Row]
         /\ \A o \in OrderId : o = cur \/ makerFill[o] > 0 =>
              MatchedRows[o].status \in Statuses
<1> USE DEF StatusAfterFill, Statuses
<1>1. TakerStatus \in Statuses
  BY DEF TakerStatus
<1>2. ASSUME NEW o \in OrderId
      PROVE  /\ MatchedRows[o] \in Row
             /\ o = cur \/ makerFill[o] > 0 => MatchedRows[o].status \in Statuses
  <2>1. rows[o] \in Row /\ rows[o].rem \in Nat /\ makerFill[o] \in Nat /\ takerRem \in Nat
        /\ makerFill[o] <= rows[o].rem
    BY DEF TypeOK, Row, DeltasFit
  <2>2. CASE o = cur
    <3>1. MatchedRows[o] = [rows[o] EXCEPT !.rem = takerRem, !.status = TakerStatus]
      BY <2>2 DEF MatchedRows
    <3> QED
      BY <1>1, <2>1, <2>2, <3>1 DEF Row
  <2>3. CASE o # cur /\ makerFill[o] > 0
    <3> DEFINE left == rows[o].rem - makerFill[o]
    <3>1. MatchedRows[o] = [rows[o] EXCEPT !.rem = left, !.status = StatusAfterFill(left)]
      BY <2>3 DEF MatchedRows
    <3>2. left \in Nat
      BY <2>1
    <3> QED
      BY <2>1, <2>3, <3>1, <3>2 DEF Row
  <2>4. CASE o # cur /\ ~ makerFill[o] > 0
    BY <2>1, <2>4 DEF MatchedRows
  <2> QED
    BY <2>2, <2>3, <2>4
<1>3. MatchedRows = [o \in OrderId |-> MatchedRows[o]]
  BY DEF MatchedRows
<1> QED
  BY <1>2, <1>3

\* The events of a match are events: makers first, then the taker, then trades.
LEMMA MatchEventsType ==
  ASSUME TypeOK, DeltasFit, CallInv, pc = "matched"
  PROVE  MatchEvents \in Seq(OrderEvents \cup TradeEvents)
<1> DEFINE Events == OrderEvents \cup TradeEvents
           M == [i \in DOMAIN fills |-> OrderEvent(MatchedRows, fills[i].maker)]
           T == <<OrderEvent(MatchedRows, cur)>>
           D == [i \in DOMAIN fills |-> TradeEvent(fills[i])]
<1>1. /\ DOMAIN fills = 1..Len(fills)
      /\ Len(fills) \in Nat
      /\ \A i \in DOMAIN fills : fills[i] \in Fills
  BY DEF TypeOK
<1>2. cur \in OrderId /\ \A i \in DOMAIN fills : makerFill[fills[i].maker] > 0
  BY DEF CallInv, MatchRunning
<1>3. ASSUME NEW o \in OrderId, o = cur \/ makerFill[o] > 0
      PROVE  OrderEvent(MatchedRows, o) \in Events
  BY <1>3, MatchedRowsType DEF OrderEvent, OrderEvents, Row
<1>4. M \in Seq(Events)
  BY <1>1, <1>2, <1>3 DEF Fills
<1>5. T \in Seq(Events)
  BY <1>2, <1>3
<1>6. D \in Seq(Events)
  BY <1>1, <1>2 DEF TradeEvent, TradeEvents, Fills
<1>7. MatchEvents = M \o T \o D
  BY DEF MatchEvents
<1>8. M \o T \in Seq(Events)
  BY <1>4, <1>5
<1> QED
  BY <1>6, <1>7, <1>8

----------------------------------------------------------------------------
(* Every action keeps the inductive invariant *)

LEMMA InitEstablishes == Init => RuntimeInv
<1> SUFFICES ASSUME Init PROVE RuntimeInv
  OBVIOUS
<1> USE RuntimeAssumption DEF Init, NoRow
<1>1. TypeOK
  BY DEF TypeOK, Row, Sides, Statuses, PCs, OrderId, Trades
<1>2. RowsInv
  BY DEF RowsInv, OrderId
<1>3. CallInv
  BY DEF CallInv, MatchRunning
<1>4. BookInv
  BY DEF BookInv, InPlayQty, Settled
<1>5. AckInv
  BY DEF AckInv, Settled
<1>6. CrossInv
  BY DEF CrossInv, Settled
<1>7. LateInv
  BY DEF LateInv
<1> QED
  BY <1>1, <1>2, <1>3, <1>4, <1>5, <1>6, <1>7 DEF RuntimeInv

\* What was committed unseen stays so: its taker is never acknowledged later.
LEMMA UnseenStays ==
  ASSUME trades \subseteq trades',
         \A t \in trades : Settled(t.taker)' => Settled(t.taker),
         NEW o
  PROVE  /\ CommittedUnseen(o) => CommittedUnseen(o)'
         /\ doubted \subseteq doubted' => (Strayed(o) => Strayed(o)')
<1>1. CommittedUnseen(o) => CommittedUnseen(o)'
  <2> SUFFICES ASSUME CommittedUnseen(o) PROVE CommittedUnseen(o)'
    OBVIOUS
  <2>1. "commitLate" \in FaultKinds
    BY DEF CommittedUnseen
  <2>2. PICK t \in trades : o \in {t.taker, t.maker} /\ ~ Settled(t.taker)
    BY DEF CommittedUnseen
  <2>3. t \in trades' /\ ~ Settled(t.taker)'
    BY <2>2
  <2> QED
    BY <2>1, <2>2, <2>3 DEF CommittedUnseen
<1> QED
  BY <1>1 DEF Strayed

LEMMA UnseenSame ==
  ASSUME TypeOK, trades' = trades, doubted \subseteq doubted',
         \A o \in OrderId : Settled(o)' => Settled(o)
  PROVE  \A o \in OrderId :
           /\ CommittedUnseen(o) => CommittedUnseen(o)'
           /\ Strayed(o) => Strayed(o)'
<1>1. \A t \in trades : t.taker \in OrderId
  BY DEF TypeOK, Trades
<1> QED
  BY <1>1, UnseenStays

\* What is known of a row that a transaction on its way has locked.
LEMMA LockedFacts ==
  ASSUME RuntimeInv, NEW t \in late, NEW o \in OrderId, Updates(t, o)
  PROVE  /\ o <= created /\ o \notin cancelAcked
         /\ o = cur => pc \in {"recoverSubmit", "closed", "checked"}
         /\ LateRow(t, o)
BY DEF RuntimeInv, LateInv

\* The transactions on their way do not mind a step that leaves their rows alone.
LEMMA LateKept ==
  ASSUME RuntimeInv, created' \in Nat, created <= created', late' \subseteq late,
         lateCancels' \subseteq (doubted \cap Orders)', doubted \subseteq doubted',
         \A t \in late' : \A o \in OrderId : Updates(t, o) =>
           /\ rows'[o] = rows[o]
           /\ o \notin cancelAcked'
           /\ o = cur' => pc' \in {"recoverSubmit", "closed", "checked"},
         \A t \in late' :
           /\ ~ Settled(t.taker)'
           /\ BookIsLive' => InPlayQty(t.taker)' >= rows[t.taker].rem
  PROVE  LateInv'
<1>2. ASSUME NEW t \in late'
      PROVE  /\ "commitLate" \in FaultKinds
             /\ Updates(t, t.taker)'
             /\ rows'[t.taker].status = "open"
             /\ ~ Settled(t.taker)'
             /\ BookIsLive' => InPlayQty(t.taker)' >= rows'[t.taker].rem
             /\ \A u \in t.trades : u.taker = t.taker /\ Updates(t, u.maker)'
             /\ \A o \in OrderId : Updates(t, o)' =>
                  /\ o <= created'
                  /\ o \notin cancelAcked'
                  /\ o = cur' => pc' \in {"recoverSubmit", "closed", "checked"}
                  /\ LateRow(t, o)'
  <2>1. /\ t \in late /\ t.taker \in OrderId /\ created \in Nat
        /\ "commitLate" \in FaultKinds
        /\ Updates(t, t.taker) /\ rows[t.taker].status = "open"
        /\ \A u \in t.trades : u.taker = t.taker /\ Updates(t, u.maker)
    BY <1>2 DEF RuntimeInv, LateInv, TypeOK, Transactions
  <2>2. ASSUME NEW o \in OrderId, Updates(t, o)
        PROVE  o <= created' /\ LateRow(t, o)'
    <3>1. o <= created /\ LateRow(t, o)
      BY <2>1, <2>2, LockedFacts
    <3>2. rows'[o] = rows[o]
      BY <2>2
    <3> QED
      BY <2>1, <3>1, <3>2 DEF LateRow, OrderId
  <2> QED
    BY <2>1, <2>2 DEF Updates
<1>3. \A o \in OrderId : \A t, u \in late' : Updates(t, o)' /\ Updates(u, o)' => t = u
  BY DEF RuntimeInv, LateInv, Updates
<1> QED
  BY <1>2, <1>3 DEF LateInv

\* Nor a step that leaves the store alone.
LEMMA LateSame ==
  ASSUME RuntimeInv, rows' = rows, created' = created, late' = late,
         lateCancels' \subseteq doubted' \cap Orders, doubted \subseteq doubted',
         \A o \in OrderId : Settled(o)' => Settled(o),
         \A o \in OrderId : Locked(o) =>
           /\ o \notin cancelAcked'
           /\ o = cur' => pc' \in {"recoverSubmit", "closed", "checked"},
         BookIsLive' => \A t \in late : InPlayQty(t.taker)' >= rows[t.taker].rem
  PROVE  LateInv'
<1>1. lateCancels' \subseteq (doubted \cap Orders)'
  BY DEF Orders
<1>2. ASSUME NEW t \in late', NEW o \in OrderId, Updates(t, o)
      PROVE  /\ rows'[o] = rows[o]
             /\ o \notin cancelAcked'
             /\ o = cur' => pc' \in {"recoverSubmit", "closed", "checked"}
  BY <1>2 DEF Locked
<1>3. ASSUME NEW t \in late'
      PROVE  /\ ~ Settled(t.taker)'
             /\ BookIsLive' => InPlayQty(t.taker)' >= rows[t.taker].rem
  BY <1>3 DEF RuntimeInv, LateInv, TypeOK, Transactions
<1>4. created \in Nat
  BY DEF RuntimeInv, TypeOK
<1> QED
  BY <1>1, <1>2, <1>3, <1>4, LateKept

LEMMA SubmitOrderKeeps ==
  ASSUME RuntimeInv, NEW s \in Sides, NEW p \in Prices, NEW q \in Quantities,
         SubmitOrder(s, p, q)
  PROVE  RuntimeInv'
<1> USE RuntimeAssumption DEF RuntimeInv
<1>0. PICK o \in OrderId : o = created + 1
  BY DEF SubmitOrder, TypeOK, OrderId
<1>a. PICK st \in {"open", "inFlight"} :
        /\ rows' = [rows EXCEPT ![o] = [side |-> s, price |-> p, qty |-> q,
                                        rem |-> q, status |-> st]]
        /\ st = "inFlight" => pc' = pc
  BY <1>0 DEF SubmitOrder, Insert
<1> DEFINE new == [side |-> s, price |-> p, qty |-> q, rem |-> q, status |-> st]
           ev == [kind |-> "order", id |-> o, rem |-> q, status |-> "open"]
<1>1. /\ pc = "idle" /\ created' = o
      /\ rows' = [rows EXCEPT ![o] = new]
      /\ trades' = trades /\ late' = late /\ lateCancels' = lateCancels
      /\ bookRem' = bookRem /\ bookSeq' = bookSeq
      /\ nextSeq' = nextSeq /\ fills' = fills /\ makerFill' = makerFill
      /\ stream' = stream /\ acked' = acked /\ cancelAcked' = cancelAcked
      /\ doubted' = doubted /\ copy' = copy
  BY <1>0, <1>a DEF SubmitOrder, Insert, bookVars, callVars, ackVars
<1>2. \/ /\ pc' = "matching" /\ cur' = o /\ takerRem' = q
         /\ outbox' = <<ev>> /\ faults' = faults
      \/ /\ pc' = pc /\ cur' = cur /\ takerRem' = takerRem
         /\ outbox' = outbox /\ faults' \in 0..MaxFaults
  BY <1>0 DEF SubmitOrder, NoFault, Fault, callVars, TypeOK
<1>3. /\ p \in Nat /\ q \in Nat /\ q > 0 /\ o \in Nat /\ created \in Nat
      /\ new \in Row /\ ev \in OrderEvents
      /\ rows'[o] = new
      /\ \A x \in OrderId \ {o} : rows'[x] = rows[x]
      /\ new.status = st /\ new.qty = q /\ new.rem = q
  <2>1. new \in Row
    BY <1>a DEF Row, Statuses
  <2> QED
    BY <1>0, <1>1, <2>1 DEF TypeOK, OrderId, Statuses, OrderEvents
<1>e. pc' = "matching" => new.status = "open"
  BY <1>1, <1>a, <1>3
<1> HIDE DEF new, ev
<1>4. rows[o] = NoRow
  BY <1>0, <1>3 DEF RowsInv
<1>5. \A x \in OrderId : makerFill[x] = 0
  BY <1>1 DEF CallInv, MatchRunning
<1>6. bookRem[o] = 0
  BY <1>0, <1>1, <1>3, <1>5 DEF BookInv, BookIsLive, InPlayQty, MatchRunning, TypeOK
<1>7. /\ o \notin acked \cup cancelAcked /\ o \notin lateCancels
      /\ \A t \in trades : t.taker # o /\ t.taker \in OrderId
  <2>1. o \notin lateCancels
    BY <1>4 DEF LateInv, Orders, NoRow, Statuses
  <2>2. \A t \in trades : t.taker <= created /\ t.taker \in OrderId
    BY DEF RowsInv, TypeOK, Trades
  <2> QED
    BY <1>0, <1>3, <1>4, <2>1, <2>2 DEF AckInv, NoRow, OrderId
<1>b. \A x \in OrderId : Settled(x)' <=> Settled(x)
  BY <1>1, <1>2, <1>7 DEF Settled
<1>c. \A x \in OrderId :
        (CommittedUnseen(x) => CommittedUnseen(x)') /\ (Strayed(x) => Strayed(x)')
  BY <1>1, <1>b, UnseenSame
<1>8. TypeOK'
  <2>1. outbox' \in Seq(OrderEvents \cup TradeEvents)
    <3>1. <<ev>> \in Seq(OrderEvents \cup TradeEvents)
      BY <1>3, SingletonIsSeq
    <3> QED
      BY <1>2, <3>1 DEF TypeOK
  <2>2. rows' \in [OrderId -> Row]
    BY <1>1, <1>3 DEF TypeOK
  <2>3. created' \in 0..MaxOrders /\ cur' \in 0..created'
    <3>1. created' = o /\ (cur' = o \/ cur' = cur)
      BY <1>1, <1>2
    <3> QED
      BY <1>0, <3>1, SMTT(30) DEF TypeOK, OrderId
  <2>4. pc' \in PCs /\ takerRem' \in Nat /\ faults' \in 0..MaxFaults
    BY <1>2, <1>3 DEF TypeOK, PCs
  <2> QED
    BY <1>1, <2>1, <2>2, <2>3, <2>4 DEF TypeOK
<1>9. RowsInv'
  <2>1. \A x \in OrderId : x > created' => x # o /\ x > created
    BY <1>0, <1>1, <1>3 DEF OrderId
  <2>2. \A x \in OrderId \ {o} : ~ x > created' => ~ x > created
    BY <1>0, <1>1, <1>3 DEF OrderId
  <2>3. \A t \in trades' : t.taker <= created'
    BY <1>0, <1>1, <1>3, <1>7 DEF RowsInv, OrderId
  <2> QED
    BY <1>0, <1>1, <1>3, <1>a, <2>1, <2>2, <2>3 DEF RowsInv
<1>10. CallInv'
  BY <1>1, <1>2, <1>3, <1>e, <1>5, <1>6, <1>7 DEF CallInv, MatchRunning
<1>11. BookInv'
  <2> SUFFICES ASSUME NEW x \in OrderId, x # o
               PROVE  /\ InPlayQty(x)' > 0 =>
                           /\ x <= created' /\ rows'[x].status # "inFlight" /\ InPlayRight(x)'
                           /\ rows'[x].status = "cancelled" =>
                                x \in doubted' \/ (pc' = "cancelling" /\ x = cur')
                      /\ Settled(x)' /\ x \in Restorable' /\ ~ Strayed(x)' =>
                           InPlayRight(x)'
    BY <1>1, <1>2, <1>5, <1>6, <1>7 DEF BookInv, MatchRunning, InPlayQty, TypeOK, Settled
  <2>1. /\ InPlayQty(x) > 0 =>
             /\ x <= created /\ rows[x].status # "inFlight" /\ InPlayRight(x)
             /\ rows[x].status = "cancelled" => x \in doubted
        /\ Settled(x) /\ x \in Restorable /\ ~ Strayed(x) => InPlayRight(x)
    BY <1>1 DEF BookInv, BookIsLive, MatchRunning
  <2>2. InPlayQty(x)' = InPlayQty(x) /\ rows'[x] = rows[x]
    BY <1>1, <1>3 DEF InPlayQty
  <2>3. InPlayRight(x) => InPlayRight(x)'
    BY <1>c, <2>2 DEF InPlayRight
  <2>4. x <= created => x <= created'
    BY <1>0, <1>1, <1>3 DEF OrderId
  <2> QED
    BY <1>1, <1>b, <1>c, <2>1, <2>2, <2>3, <2>4 DEF Restorable
<1>12. AckInv'
  <2>1. acked' \subseteq 1..created'
    BY <1>0, <1>1, <1>3 DEF AckInv
  <2>2. \A x \in cancelAcked : x \in OrderId \ {o}
    BY <1>7 DEF TypeOK
  <2>3. \A x \in OrderId : Settled(x)' => rows'[x].status # "inFlight"
    <3>1. ~ Settled(o)
      BY <1>1, <1>7 DEF Settled
    <3> QED
      BY <1>3, <1>b, <3>1 DEF AckInv
  <2> QED
    BY <1>1, <1>3, <2>1, <2>2, <2>3 DEF AckInv
<1>13. CrossInv'
  <2>1. \A x \in OrderId \ {o} : Settled(x)' /\ InPlay(x)' => Settled(x) /\ InPlay(x)
    BY <1>1, <1>2, <1>3, <1>b, <1>c DEF InPlay, InPlayQty, BookIsLive, Restorable
  <2>2. ~ Settled(o)' /\ pc' # "matched"
    BY <1>1, <1>2, <1>7 DEF Settled
  <2> QED
    BY <1>3, <2>1, <2>2 DEF CrossInv
<1>14. LateInv'
  <2>1. lateCancels' \subseteq (doubted \cap Orders)'
    <3>1. \A x \in lateCancels : x \in doubted /\ x \in Orders /\ x # o
      BY <1>7 DEF LateInv
    <3> QED
      BY <1>1, <1>3, <3>1 DEF Orders
  <2>2. ASSUME NEW t \in late', NEW x \in OrderId, Updates(t, x)
        PROVE  /\ rows'[x] = rows[x]
               /\ x \notin cancelAcked'
               /\ x = cur' => pc' \in {"recoverSubmit", "closed", "checked"}
    <3>1. /\ x <= created /\ x \notin cancelAcked
          /\ x = cur => pc \in {"recoverSubmit", "closed", "checked"}
      BY <1>1, <2>2, LockedFacts
    <3>2. x # o
      BY <1>0, <1>3, <3>1 DEF OrderId
    <3> QED
      BY <1>1, <1>2, <1>3, <3>1, <3>2
  <2>3. ASSUME NEW t \in late'
        PROVE  /\ ~ Settled(t.taker)'
               /\ BookIsLive' => InPlayQty(t.taker)' >= rows[t.taker].rem
    <3>1. /\ t.taker \in OrderId /\ ~ Settled(t.taker)
          /\ InPlayQty(t.taker) >= rows[t.taker].rem
      BY <1>1, <2>3 DEF LateInv, TypeOK, Transactions, BookIsLive
    <3> QED
      BY <1>1, <1>b, <3>1 DEF InPlayQty
  <2>4. created' \in Nat /\ created <= created'
    BY <1>0, <1>1, <1>3
  <2> QED
    BY <1>1, <2>1, <2>2, <2>3, <2>4, LateKept
<1> QED
  BY <1>8, <1>9, <1>10, <1>11, <1>12, <1>13, <1>14

\* Nothing but the type invariant speaks of the events, the sequence numbers, the
\* copy a cancel read or the faults.
LEMMA InvUnchanged ==
  ASSUME RuntimeInv, TypeOK',
         rows' = rows, created' = created, trades' = trades, late' = late,
         lateCancels' = lateCancels, bookRem' = bookRem, pc' = pc, cur' = cur,
         takerRem' = takerRem, fills' = fills, makerFill' = makerFill,
         acked' = acked, cancelAcked' = cancelAcked, doubted' = doubted
  PROVE  RuntimeInv'
<1> USE DEF RuntimeInv
<1>1. RowsInv'
  BY DEF RowsInv
<1>2. CallInv'
  BY DEF CallInv, MatchRunning, Orders
<1>3. BookInv'
  BY DEF BookInv, BookIsLive, MatchRunning, InPlayQty, InPlayRight, Restorable, Settled,
         Strayed, CommittedUnseen
<1>4. AckInv'
  BY DEF AckInv, Settled
<1>5. CrossInv'
  BY DEF CrossInv, Opposite, InBook, Crosses, Settled, InPlay, Restorable, BookIsLive,
         InPlayQty, Strayed, CommittedUnseen
<1>6. LateInv'
  <2>1. lateCancels \subseteq doubted \cap Orders
    BY DEF LateInv
  <2>2. \A o \in OrderId : Locked(o) =>
          o \notin cancelAcked /\ (o = cur => pc \in {"recoverSubmit", "closed", "checked"})
    BY LockedFacts DEF Locked
  <2>3. BookIsLive => \A t \in late : InPlayQty(t.taker) >= rows[t.taker].rem
    BY DEF LateInv
  <2> QED
    BY <2>1, <2>2, <2>3, LateSame DEF Settled, BookIsLive, InPlayQty
<1> QED
  BY <1>1, <1>2, <1>3, <1>4, <1>5, <1>6

LEMMA StutterKeeps == ASSUME RuntimeInv, UNCHANGED vars PROVE RuntimeInv'
<1>1. /\ rows' = rows /\ created' = created /\ trades' = trades
      /\ late' = late /\ lateCancels' = lateCancels
      /\ bookRem' = bookRem /\ bookSeq' = bookSeq /\ nextSeq' = nextSeq
      /\ pc' = pc /\ cur' = cur /\ copy' = copy /\ takerRem' = takerRem /\ fills' = fills
      /\ makerFill' = makerFill /\ outbox' = outbox /\ stream' = stream
      /\ acked' = acked /\ cancelAcked' = cancelAcked /\ doubted' = doubted /\ faults' = faults
  BY DEF vars, storeVars, bookVars, callVars, wireVars, ackVars
<1>2. TypeOK'
  BY <1>1 DEF RuntimeInv, TypeOK
<1> QED
  BY <1>1, <1>2, InvUnchanged

LEMMA PublishEventKeeps == ASSUME RuntimeInv, PublishEvent PROVE RuntimeInv'
<1>1. /\ rows' = rows /\ created' = created /\ trades' = trades
      /\ late' = late /\ lateCancels' = lateCancels
      /\ bookRem' = bookRem /\ bookSeq' = bookSeq /\ nextSeq' = nextSeq
      /\ pc' = pc /\ cur' = cur /\ copy' = copy /\ takerRem' = takerRem /\ fills' = fills
      /\ makerFill' = makerFill /\ acked' = acked /\ cancelAcked' = cancelAcked /\ doubted' = doubted
      /\ outbox # <<>> /\ outbox' = Tail(outbox)
  BY DEF PublishEvent, storeVars, bookVars, callVars, ackVars
<1>2. \/ stream' = Append(stream, Head(outbox)) /\ faults' = faults
      \/ stream' = stream /\ faults' \in 0..MaxFaults
  BY RuntimeAssumption DEF PublishEvent, NoFault, Fault, RuntimeInv, TypeOK
<1>3. TypeOK'
  <2> DEFINE Events == OrderEvents \cup TradeEvents
  <2>1. outbox \in Seq(Events) /\ stream \in Seq(Events)
    BY DEF RuntimeInv, TypeOK
  <2> HIDE DEF Events
  <2>2. Head(outbox) \in Events /\ Tail(outbox) \in Seq(Events)
    BY <1>1, <2>1, HeadTailProperties
  <2>3. outbox' \in Seq(Events) /\ stream' \in Seq(Events)
    BY <1>1, <1>2, <2>1, <2>2, AppendProperties, SMTT(30)
  <2> QED
    BY <1>1, <1>2, <2>3 DEF RuntimeInv, TypeOK, Events
<1> QED
  BY <1>1, <1>3, InvUnchanged

\* An action that only moves pc between places where no match is running, and
\* keeps the tables, the book and the answers.
LEMMA MoveKeeps ==
  ASSUME RuntimeInv, ~ MatchRunning, ~ MatchRunning', pc # "cancelling",
         rows' = rows, created' = created, trades' = trades, late' = late,
         lateCancels' \subseteq doubted' \cap Orders, doubted \subseteq doubted',
         bookRem' = bookRem, bookSeq' = bookSeq, nextSeq' = nextSeq,
         takerRem' = takerRem, fills' = fills, makerFill' = makerFill,
         stream' = stream, cancelAcked' = cancelAcked,
         cur' = 0 \/ pc' \in {"recoverSubmit", "closed", "checked"},
         \A o \in OrderId : Settled(o)' => Settled(o),
         BookIsLive' => BookIsLive,
         acked' \subseteq 1..created
  PROVE  RowsInv' /\ BookInv' /\ CrossInv' /\ AckInv' /\ LateInv'
<1> USE DEF RuntimeInv
<1>1. RowsInv'
  BY DEF RowsInv
<1>0. \A o \in OrderId :
        (CommittedUnseen(o) => CommittedUnseen(o)') /\ (Strayed(o) => Strayed(o)')
  BY UnseenSame
<1>2. BookInv'
  <2> SUFFICES ASSUME BookIsLive', NEW o \in OrderId
               PROVE  /\ InPlayQty(o)' > 0 =>
                           /\ o <= created' /\ rows'[o].status # "inFlight" /\ InPlayRight(o)'
                           /\ rows'[o].status = "cancelled" => o \in doubted'
                      /\ Settled(o)' /\ o \in Restorable' /\ ~ Strayed(o)' =>
                           InPlayRight(o)'
    BY DEF BookInv
  <2>1. /\ InPlayQty(o) > 0 =>
             /\ o <= created /\ rows[o].status # "inFlight" /\ InPlayRight(o)
             /\ rows[o].status = "cancelled" => o \in doubted
        /\ Settled(o) /\ o \in Restorable /\ ~ Strayed(o) => InPlayRight(o)
    BY DEF BookInv
  <2>2. InPlayQty(o)' = InPlayQty(o)
    BY DEF InPlayQty
  <2>3. InPlayRight(o) => InPlayRight(o)'
    BY <1>0, <2>2 DEF InPlayRight
  <2> QED
    BY <1>0, <2>1, <2>2, <2>3 DEF Restorable
<1>3. AckInv'
  BY DEF AckInv
<1>4. CrossInv'
  <2>1. \A o \in OrderId : InPlay(o)' => InPlay(o)
    BY <1>0 DEF InPlay, InPlayQty, Restorable
  <2>2. pc' # "matched"
    BY DEF MatchRunning
  <2> QED
    BY <2>1, <2>2 DEF CrossInv
<1>5. LateInv'
  <2>1. \A o \in OrderId : Locked(o) =>
          /\ o \notin cancelAcked'
          /\ o = cur' => pc' \in {"recoverSubmit", "closed", "checked"}
    BY LockedFacts DEF Locked, OrderId
  <2>2. BookIsLive' => \A t \in late : InPlayQty(t.taker)' >= rows[t.taker].rem
    BY DEF LateInv, InPlayQty
  <2> QED
    BY <2>1, <2>2, LateSame
<1> QED
  BY <1>1, <1>2, <1>3, <1>4, <1>5

LEMMA AnswerSubmitKeeps == ASSUME RuntimeInv, AnswerSubmit PROVE RuntimeInv'
<1> USE DEF RuntimeInv
<1>1. /\ rows' = rows /\ created' = created /\ trades' = trades
      /\ late' = late /\ lateCancels' = lateCancels
      /\ bookRem' = bookRem /\ bookSeq' = bookSeq /\ nextSeq' = nextSeq
      /\ takerRem' = takerRem /\ fills' = fills /\ makerFill' = makerFill
      /\ outbox' = outbox /\ stream' = stream /\ cancelAcked' = cancelAcked /\ doubted' = doubted
      /\ faults' = faults
      /\ pc = "persisted" /\ pc' = "idle" /\ cur' = 0
      /\ acked' = acked \cup {cur} /\ copy' = 0
  BY DEF AnswerSubmit, Release, storeVars, bookVars, matchVars, wireVars
<1>2. /\ cur \in OrderId /\ cur <= created /\ created \in Nat
      /\ ~ MatchRunning /\ ~ MatchRunning' /\ BookIsLive /\ BookIsLive'
  BY <1>1 DEF CallInv, TypeOK, MatchRunning, BookIsLive
<1>3. TypeOK'
  BY <1>1, <1>2, SMTT(30) DEF TypeOK, PCs
<1>4. CallInv'
  BY <1>1, <1>2 DEF CallInv, MatchRunning
<1>5. acked' \subseteq 1..created /\ lateCancels \subseteq doubted \cap Orders
  <2>1. cur \in 1..created
    BY <1>2 DEF OrderId
  <2> QED
    BY <1>1, <2>1 DEF AckInv, LateInv
<1>6. \A o \in OrderId : Settled(o)' => Settled(o)
  BY <1>1 DEF Settled
<1> QED
  BY <1>1, <1>2, <1>3, <1>4, <1>5, <1>6, MoveKeeps

LEMMA AnswerCancelKeeps == ASSUME RuntimeInv, AnswerCancel PROVE RuntimeInv'
<1> USE DEF RuntimeInv
<1>1. /\ rows' = rows /\ created' = created /\ trades' = trades
      /\ late' = late /\ lateCancels' = lateCancels
      /\ bookRem' = bookRem /\ bookSeq' = bookSeq /\ nextSeq' = nextSeq
      /\ takerRem' = takerRem /\ fills' = fills /\ makerFill' = makerFill
      /\ outbox' = outbox /\ stream' = stream /\ acked' = acked
      /\ faults' = faults
      /\ pc = "cancelled" /\ pc' = "idle" /\ cur' = 0 /\ copy' = 0
      /\ cancelAcked' = cancelAcked \cup {cur} /\ doubted' = doubted
  BY DEF AnswerCancel, Release, storeVars, bookVars, matchVars, wireVars
<1>2. /\ cur \in OrderId /\ rows[cur].status = "cancelled"
      /\ bookRem[cur] = 0 /\ makerFill[cur] = 0
  BY <1>1 DEF CallInv, MatchRunning
<1>3. TypeOK'
  BY <1>1, <1>2 DEF TypeOK, PCs
<1>5. CallInv'
  BY <1>1 DEF CallInv, MatchRunning
<1>6. BookInv'
  BY <1>1 DEF BookInv, BookIsLive, MatchRunning, InPlayQty, InPlayRight, Restorable, Settled,
              Strayed, CommittedUnseen
<1>7. AckInv'
  BY <1>1, <1>2 DEF AckInv, Settled
<1>8. CrossInv'
  BY <1>1 DEF CrossInv, Settled, InPlay, InPlayQty, BookIsLive, Restorable, Strayed,
              CommittedUnseen
<1>9. LateInv'
  <2>1. lateCancels \subseteq doubted \cap Orders
    BY DEF LateInv
  <2>2. \A o \in OrderId : Locked(o) =>
          o \notin cancelAcked' /\ (o = cur' => pc' \in {"recoverSubmit", "closed", "checked"})
    <3>1. \A o \in OrderId : Locked(o) =>
            o \notin cancelAcked /\ (o = cur => pc \in {"recoverSubmit", "closed", "checked"})
      BY LockedFacts DEF Locked
    <3> QED
      BY <1>1, <3>1 DEF OrderId
  <2>3. BookIsLive' => \A t \in late : InPlayQty(t.taker)' >= rows[t.taker].rem
    BY <1>1 DEF LateInv, BookIsLive, InPlayQty
  <2> QED
    BY <1>1, <2>1, <2>2, <2>3, LateSame DEF Settled
<1>10. RowsInv'
  BY <1>1 DEF RowsInv
<1> QED
  BY <1>3, <1>5, <1>6, <1>7, <1>8, <1>9, <1>10

LEMMA ReadForCancelKeeps ==
  ASSUME RuntimeInv, NEW o \in OrderId, ReadForCancel(o)
  PROVE  RuntimeInv'
<1> USE RuntimeAssumption DEF RuntimeInv
<1>1. /\ rows' = rows /\ created' = created /\ trades' = trades
      /\ late' = late /\ lateCancels' = lateCancels
      /\ bookRem' = bookRem /\ bookSeq' = bookSeq /\ nextSeq' = nextSeq
      /\ takerRem' = takerRem /\ fills' = fills /\ makerFill' = makerFill
      /\ outbox' = outbox /\ stream' = stream /\ acked' = acked
      /\ cancelAcked' = cancelAcked /\ doubted' = doubted /\ faults' = faults
      /\ pc = "idle" /\ rows[o].status \in Restable
      /\ pc' = "checked" /\ cur' = o /\ copy' = rows[o].rem
  BY DEF ReadForCancel, storeVars, bookVars, matchVars, wireVars, ackVars
<1>2. o <= created /\ o \in Orders
  BY <1>1 DEF RowsInv, NoRow, Restable, TypeOK, OrderId, Orders, Statuses
<1>3. TypeOK'
  <2>1. rows[o].rem \in Nat
    BY DEF TypeOK, Row
  <2>2. o \in 0..created
    BY <1>2 DEF TypeOK, OrderId
  <2> QED
    BY <1>1, <2>1, <2>2 DEF TypeOK, PCs
<1>4. CallInv'
  BY <1>1, <1>2 DEF CallInv, MatchRunning, Orders
<1>5. /\ ~ MatchRunning /\ ~ MatchRunning' /\ BookIsLive /\ acked \subseteq 1..created
      /\ lateCancels \subseteq doubted \cap Orders
  BY <1>1 DEF MatchRunning, BookIsLive, AckInv, LateInv
<1>6. \A x \in OrderId : Settled(x)' => Settled(x)
  BY <1>1 DEF Settled
<1> QED
  BY <1>1, <1>3, <1>4, <1>5, <1>6, MoveKeeps

LEMMA CancelFailsKeeps ==
  ASSUME RuntimeInv, CancelFails
  PROVE  RuntimeInv'
<1> USE RuntimeAssumption DEF RuntimeInv
<1>1. /\ rows' = rows /\ created' = created /\ trades' = trades
      /\ late' = late
      /\ bookRem' = bookRem /\ bookSeq' = bookSeq /\ nextSeq' = nextSeq
      /\ takerRem' = takerRem /\ fills' = fills /\ makerFill' = makerFill
      /\ outbox' = outbox /\ stream' = stream /\ acked' = acked
      /\ cancelAcked' = cancelAcked /\ faults' \in 0..MaxFaults
      /\ pc = "checked" /\ pc' = "idle" /\ cur' = 0 /\ copy' = 0
  BY DEF CancelFails, NoFault, Fault, Release, TypeOK, bookVars, matchVars, wireVars
<1>2. \/ lateCancels' = lateCancels /\ doubted' = doubted
      \/ lateCancels' = lateCancels \cup {cur} /\ doubted' = doubted \cup {cur}
  BY DEF CancelFails
<1>3. /\ cur \in Orders /\ Orders \subseteq OrderId
      /\ lateCancels \subseteq doubted \cap Orders
  BY <1>1 DEF CallInv, LateInv, Orders
<1>4. lateCancels' \subseteq doubted' \cap Orders /\ doubted \subseteq doubted'
  BY <1>2, <1>3
<1>5. TypeOK'
  <2>1. lateCancels' \subseteq OrderId /\ doubted' \subseteq OrderId
    BY <1>2, <1>3 DEF TypeOK
  <2> QED
    BY <1>1, <2>1 DEF TypeOK, PCs
<1>6. CallInv'
  BY <1>1 DEF CallInv, MatchRunning
<1>7. ~ MatchRunning /\ ~ MatchRunning' /\ BookIsLive /\ acked \subseteq 1..created
  BY <1>1 DEF MatchRunning, BookIsLive, AckInv
<1>8. \A x \in OrderId : Settled(x)' => Settled(x)
  BY <1>1 DEF Settled
<1> QED
  BY <1>1, <1>4, <1>5, <1>6, <1>7, <1>8, MoveKeeps

\* An order that is cancelled in the table: in the call that holds the mutex, or
\* behind one that failed.
LEMMA CancelledRow ==
  ASSUME RuntimeInv, NEW o \in OrderId, rows[o].status \in Restable, ~ Locked(o),
         rows' = [rows EXCEPT ![o].status = "cancelled"],
         created' = created, trades' = trades, late' = late,
         lateCancels' \subseteq lateCancels, bookRem' = bookRem, cur' = cur,
         takerRem' = takerRem, fills' = fills, makerFill' = makerFill,
         acked' = acked, cancelAcked' = cancelAcked, doubted' = doubted,
         \/ pc = "checked" /\ pc' = "cancelling" /\ o = cur
         \/ pc' = pc /\ o \in lateCancels
  PROVE  /\ rows' \in [OrderId -> Row]
         /\ RowsInv' /\ CallInv' /\ BookInv' /\ AckInv' /\ CrossInv' /\ LateInv'
<1> USE DEF RuntimeInv
<1>1. /\ rows[o] \in Row
      /\ rows'[o] = [rows[o] EXCEPT !.status = "cancelled"]
      /\ \A x \in OrderId \ {o} : rows'[x] = rows[x]
  BY DEF TypeOK
<1>2. /\ rows'[o] \in Row /\ rows'[o].status = "cancelled"
      /\ rows'[o].qty = rows[o].qty /\ rows'[o].rem = rows[o].rem
      /\ rows'[o].side = rows[o].side /\ rows'[o].price = rows[o].price
  BY <1>1 DEF Row, Statuses
<1>3. /\ ~ o > created /\ rows[o].rem # 0
      /\ MatchRunning => o # cur
      /\ o \in lateCancels => o \in doubted
  BY DEF RowsInv, NoRow, Restable, CallInv, LateInv, MatchRunning
<1>4. rows' \in [OrderId -> Row]
  BY <1>2 DEF TypeOK
<1>5. RowsInv'
  <2>1. /\ rows'[o].status # "none" /\ rows'[o].qty > 0 /\ rows'[o].rem <= rows'[o].qty
        /\ rows'[o].status = "filled" <=> rows'[o].rem = 0
    BY <1>2, <1>3 DEF RowsInv
  <2> QED
    BY <1>1, <1>2, <1>3, <2>1 DEF RowsInv
<1>6. CallInv'
  <2>1. \A x \in Orders : x \in Orders'
    BY <1>1, <1>2 DEF Orders, Statuses
  <2>2. MatchRunning => rows'[cur] = rows[cur] /\ cur \in OrderId
    BY <1>1, <1>3 DEF CallInv
  <2>3. pc \in {"cancelling", "recoverCancel", "cancelled"} => rows'[cur].status = "cancelled"
    BY <1>1, <1>2 DEF CallInv
  <2> QED
    BY <1>2, <2>1, <2>2, <2>3 DEF CallInv, MatchRunning
<1>7. \A x \in OrderId : Settled(x)' <=> Settled(x)
  BY DEF Settled
<1>8. \A x \in OrderId :
        (CommittedUnseen(x) => CommittedUnseen(x)') /\ (Strayed(x) => Strayed(x)')
  BY <1>7, UnseenSame
<1>9. \A x \in OrderId : x \in Restorable' => x \in Restorable /\ x # o
  BY <1>1, <1>2 DEF Restorable, Restable
<1>10. BookInv'
  <2> SUFFICES ASSUME BookIsLive', NEW x \in OrderId, MatchRunning' => x # cur
               PROVE  /\ InPlayQty(x)' > 0 =>
                           /\ x <= created' /\ rows'[x].status # "inFlight" /\ InPlayRight(x)'
                           /\ rows'[x].status = "cancelled" =>
                                x \in doubted' \/ (pc' = "cancelling" /\ x = cur')
                      /\ Settled(x)' /\ x \in Restorable' /\ ~ Strayed(x)' =>
                           InPlayRight(x)'
    BY DEF BookInv
  <2>1. /\ InPlayQty(x) > 0 =>
             /\ x <= created /\ rows[x].status # "inFlight" /\ InPlayRight(x)
             /\ rows[x].status = "cancelled" =>
                  x \in doubted \/ (pc = "cancelling" /\ x = cur)
        /\ Settled(x) /\ x \in Restorable /\ ~ Strayed(x) => InPlayRight(x)
    BY DEF BookInv, BookIsLive, MatchRunning
  <2>2. InPlayQty(x)' = InPlayQty(x) /\ rows'[x].rem = rows[x].rem
    BY <1>1, <1>2 DEF InPlayQty
  <2>3. InPlayRight(x) => InPlayRight(x)'
    BY <1>8, <2>2 DEF InPlayRight
  <2>4. x # o => rows'[x].status = rows[x].status
    BY <1>1
  <2> QED
    BY <1>3, <1>7, <1>8, <1>9, <2>1, <2>2, <2>3, <2>4
<1>11. AckInv'
  <2>1. cancelAcked \subseteq OrderId
    BY DEF TypeOK
  <2> QED
    BY <1>1, <1>2, <1>7, <2>1 DEF AckInv
<1>12. CrossInv'
  <2>1. \A x \in OrderId : InPlay(x)' => InPlay(x)
    BY <1>8, <1>9 DEF InPlay, InPlayQty, BookIsLive
  <2>2. \A x \in OrderId : rows'[x].side = rows[x].side /\ rows'[x].price = rows[x].price
    BY <1>1, <1>2
  <2>3. pc' = "matched" => pc = "matched" /\ cur \in OrderId
    BY DEF CallInv, MatchRunning
  <2>4. pc' = "matched" =>
          \A m \in OrderId :
            /\ m \in Opposite(cur)' => m \in Opposite(cur)
            /\ Crosses(cur, m)' => Crosses(cur, m)
    BY <2>2, <2>3 DEF Opposite, InBook, Crosses
  <2>5. pc' = "matched" /\ takerRem' > 0 => \A m \in Opposite(cur)' : ~ Crosses(cur, m)'
    BY <2>3, <2>4 DEF CrossInv, Opposite
  <2> QED
    BY <1>7, <2>1, <2>2, <2>5 DEF CrossInv
<1>13. LateInv'
  <2>1. lateCancels' \subseteq (doubted \cap Orders)'
    BY <1>1, <1>2 DEF LateInv, Orders, Statuses
  <2>2. ASSUME NEW t \in late', NEW x \in OrderId, Updates(t, x)
        PROVE  /\ rows'[x] = rows[x]
               /\ x \notin cancelAcked'
               /\ x = cur' => pc' \in {"recoverSubmit", "closed", "checked"}
    <3>1. x # o
      BY <2>2 DEF Locked
    <3> QED
      BY <1>1, <2>2, <3>1, LockedFacts
  <2>3. ASSUME NEW t \in late'
        PROVE  /\ ~ Settled(t.taker)'
               /\ BookIsLive' => InPlayQty(t.taker)' >= rows[t.taker].rem
    BY <1>7, <2>3 DEF LateInv, TypeOK, Transactions, BookIsLive, InPlayQty
  <2>4. created' \in Nat /\ created <= created'
    BY DEF TypeOK
  <2> QED
    BY <2>1, <2>2, <2>3, <2>4, LateKept
<1> QED
  BY <1>4, <1>5, <1>6, <1>10, <1>11, <1>12, <1>13

LEMMA CancelOrderKeeps == ASSUME RuntimeInv, CancelOrder PROVE RuntimeInv'
<1>1. /\ created' = created /\ trades' = trades
      /\ late' = late /\ lateCancels' = lateCancels
      /\ bookRem' = bookRem /\ bookSeq' = bookSeq /\ nextSeq' = nextSeq
      /\ takerRem' = takerRem /\ fills' = fills /\ makerFill' = makerFill
      /\ cur' = cur /\ copy' = copy
      /\ outbox' = outbox /\ stream' = stream /\ acked' = acked
      /\ cancelAcked' = cancelAcked /\ doubted' = doubted /\ faults' = faults
      /\ pc = "checked" /\ pc' = "cancelling"
      /\ rows[cur].status \in Restable /\ ~ Locked(cur)
      /\ rows' = [rows EXCEPT ![cur].status = "cancelled"]
  BY DEF CancelOrder, bookVars, callVars, wireVars, ackVars
<1>2. cur \in OrderId
  BY <1>1 DEF RuntimeInv, CallInv, Orders
<1>3. /\ rows' \in [OrderId -> Row]
      /\ RowsInv' /\ CallInv' /\ BookInv' /\ AckInv' /\ CrossInv' /\ LateInv'
  BY <1>1, <1>2, CancelledRow
<1>4. TypeOK'
  BY <1>1, <1>3 DEF RuntimeInv, TypeOK, PCs
<1> QED
  BY <1>3, <1>4 DEF RuntimeInv

LEMMA CancelLandsKeeps ==
  ASSUME RuntimeInv, NEW o \in lateCancels, CancelLands(o) PROVE RuntimeInv'
<1>1. /\ created' = created /\ trades' = trades
      /\ late' = late /\ lateCancels' = lateCancels \ {o}
      /\ bookRem' = bookRem /\ bookSeq' = bookSeq /\ nextSeq' = nextSeq
      /\ takerRem' = takerRem /\ fills' = fills /\ makerFill' = makerFill
      /\ cur' = cur /\ copy' = copy /\ pc' = pc
      /\ outbox' = outbox /\ stream' = stream /\ acked' = acked
      /\ cancelAcked' = cancelAcked /\ doubted' = doubted /\ faults' = faults
      /\ rows[o].status \in Restable /\ ~ Locked(o)
      /\ rows' = [rows EXCEPT ![o].status = "cancelled"]
  BY DEF CancelLands, bookVars, callVars, wireVars, ackVars
<1>2. o \in OrderId /\ lateCancels' \subseteq lateCancels
  BY <1>1 DEF RuntimeInv, TypeOK
<1>3. /\ rows' \in [OrderId -> Row]
      /\ RowsInv' /\ CallInv' /\ BookInv' /\ AckInv' /\ CrossInv' /\ LateInv'
  BY <1>1, <1>2, CancelledRow
<1>4. TypeOK'
  BY <1>1, <1>2, <1>3 DEF RuntimeInv, TypeOK
<1> QED
  BY <1>3, <1>4 DEF RuntimeInv

LEMMA InsertLandsKeeps ==
  ASSUME RuntimeInv, NEW o \in OrderId, InsertLands(o) PROVE RuntimeInv'
<1> USE DEF RuntimeInv
<1>1. /\ created' = created /\ trades' = trades
      /\ late' = late /\ lateCancels' = lateCancels
      /\ bookRem' = bookRem /\ bookSeq' = bookSeq /\ nextSeq' = nextSeq
      /\ takerRem' = takerRem /\ fills' = fills /\ makerFill' = makerFill
      /\ cur' = cur /\ copy' = copy /\ pc' = pc
      /\ outbox' = outbox /\ stream' = stream /\ acked' = acked
      /\ cancelAcked' = cancelAcked /\ doubted' = doubted /\ faults' = faults
      /\ rows[o].status = "inFlight"
      /\ rows' = [rows EXCEPT ![o].status = "open"]
  BY DEF InsertLands, bookVars, callVars, wireVars, ackVars
<1>2. /\ rows[o] \in Row
      /\ rows'[o] = [rows[o] EXCEPT !.status = "open"]
      /\ \A x \in OrderId \ {o} : rows'[x] = rows[x]
  BY <1>1 DEF TypeOK
<1>3. /\ rows'[o] \in Row /\ rows'[o].status = "open"
      /\ rows'[o].qty = rows[o].qty /\ rows'[o].rem = rows[o].rem
      /\ rows'[o].side = rows[o].side /\ rows'[o].price = rows[o].price
  BY <1>2 DEF Row, Statuses
<1>4. /\ ~ o > created
      /\ MatchRunning => o # cur
      /\ ~ Settled(o) /\ o \notin cancelAcked
      /\ pc \in {"checked", "cancelling", "recoverCancel", "cancelled"} => o # cur
  BY <1>1 DEF RowsInv, NoRow, CallInv, AckInv, Orders, Statuses
<1>5. TypeOK'
  BY <1>1, <1>3 DEF TypeOK
<1>6. RowsInv'
  <2>1. /\ rows'[o].status # "none" /\ rows'[o].qty > 0 /\ rows'[o].rem <= rows'[o].qty
        /\ rows'[o].rem # 0 /\ rows'[o].rem = rows'[o].qty
    BY <1>1, <1>3, <1>4 DEF RowsInv
  <2> QED
    BY <1>1, <1>2, <1>3, <1>4, <2>1 DEF RowsInv
<1>7. CallInv'
  <2>1. \A x \in Orders : x \in Orders'
    BY <1>2, <1>3 DEF Orders, Statuses
  <2>2. MatchRunning => rows'[cur] = rows[cur] /\ cur \in OrderId
    BY <1>2, <1>4 DEF CallInv
  <2>3. pc \in {"cancelling", "recoverCancel", "cancelled"} =>
          rows'[cur] = rows[cur] /\ cur \in OrderId
    BY <1>2, <1>4 DEF CallInv
  <2> QED
    BY <1>1, <2>1, <2>2, <2>3 DEF CallInv, MatchRunning
<1>8. \A x \in OrderId : Settled(x)' <=> Settled(x)
  BY <1>1 DEF Settled
<1>9. \A x \in OrderId :
        (CommittedUnseen(x) => CommittedUnseen(x)') /\ (Strayed(x) => Strayed(x)')
  BY <1>1, <1>8, UnseenSame
<1>10. \A x \in OrderId \ {o} : x \in Restorable' <=> x \in Restorable
  BY <1>2 DEF Restorable
<1>11. BookInv'
  <2> SUFFICES ASSUME BookIsLive', NEW x \in OrderId, MatchRunning' => x # cur'
               PROVE  /\ InPlayQty(x)' > 0 =>
                           /\ x <= created' /\ rows'[x].status # "inFlight" /\ InPlayRight(x)'
                           /\ rows'[x].status = "cancelled" =>
                                x \in doubted' \/ (pc' = "cancelling" /\ x = cur')
                      /\ Settled(x)' /\ x \in Restorable' /\ ~ Strayed(x)' =>
                           InPlayRight(x)'
    BY DEF BookInv
  <2>1. /\ InPlayQty(x) > 0 =>
             /\ x <= created /\ rows[x].status # "inFlight" /\ InPlayRight(x)
             /\ rows[x].status = "cancelled" =>
                  x \in doubted \/ (pc = "cancelling" /\ x = cur)
        /\ Settled(x) /\ x \in Restorable /\ ~ Strayed(x) => InPlayRight(x)
    BY <1>1 DEF BookInv, BookIsLive, MatchRunning
  <2>2. InPlayQty(x)' = InPlayQty(x) /\ rows'[x].rem = rows[x].rem
    BY <1>1, <1>2, <1>3 DEF InPlayQty
  <2>3. InPlayRight(x) => InPlayRight(x)'
    BY <1>9, <2>2 DEF InPlayRight
  <2>4. rows'[x].status = "cancelled" => rows[x].status = "cancelled"
    BY <1>2, <1>3
  <2> QED
    BY <1>1, <1>4, <1>8, <1>9, <1>10, <2>1, <2>2, <2>3, <2>4
<1>12. AckInv'
  <2>1. cancelAcked \subseteq OrderId
    BY DEF TypeOK
  <2> QED
    BY <1>1, <1>2, <1>3, <1>4, <1>8, <2>1 DEF AckInv
<1>13. CrossInv'
  <2>1. \A x \in OrderId \ {o} : InPlay(x)' => InPlay(x)
    BY <1>1, <1>9, <1>10 DEF InPlay, InPlayQty, BookIsLive
  <2>2. \A x \in OrderId : rows'[x].side = rows[x].side /\ rows'[x].price = rows[x].price
    BY <1>2, <1>3
  <2>3. pc' = "matched" => pc = "matched" /\ cur \in OrderId
    BY <1>1 DEF CallInv, MatchRunning
  <2>4. pc' = "matched" =>
          \A m \in OrderId :
            /\ m \in Opposite(cur)' => m \in Opposite(cur)
            /\ Crosses(cur, m)' => Crosses(cur, m)
    BY <1>1, <2>2, <2>3 DEF Opposite, InBook, Crosses
  <2>5. pc' = "matched" /\ takerRem' > 0 => \A m \in Opposite(cur)' : ~ Crosses(cur, m)'
    BY <1>1, <2>3, <2>4 DEF CrossInv, Opposite
  <2> QED
    BY <1>1, <1>4, <1>8, <2>1, <2>2, <2>5 DEF CrossInv
<1>14. LateInv'
  <2>1. lateCancels' \subseteq (doubted \cap Orders)'
    BY <1>1, <1>2, <1>3 DEF LateInv, Orders, Statuses
  <2>2. ASSUME NEW t \in late', NEW x \in OrderId, Updates(t, x)
        PROVE  /\ rows'[x] = rows[x]
               /\ x \notin cancelAcked'
               /\ x = cur' => pc' \in {"recoverSubmit", "closed", "checked"}
    <3>1. /\ LateRow(t, x) /\ x \notin cancelAcked
          /\ x = cur => pc \in {"recoverSubmit", "closed", "checked"}
      BY <1>1, <2>2, LockedFacts
    <3>2. x # o
      BY <1>1, <3>1 DEF LateRow, Restable
    <3> QED
      BY <1>1, <1>2, <3>1, <3>2
  <2>3. ASSUME NEW t \in late'
        PROVE  /\ ~ Settled(t.taker)'
               /\ BookIsLive' => InPlayQty(t.taker)' >= rows[t.taker].rem
    BY <1>1, <1>8, <2>3 DEF LateInv, TypeOK, Transactions, BookIsLive, InPlayQty
  <2>4. created' \in Nat /\ created <= created'
    BY <1>1 DEF TypeOK
  <2> QED
    BY <1>1, <2>1, <2>2, <2>3, <2>4, LateKept
<1> QED
  BY <1>5, <1>6, <1>7, <1>11, <1>12, <1>13, <1>14

\* The event of a cancelled order is a sequence of events.
LEMMA CancelEventType ==
  ASSUME TypeOK, cur \in OrderId, rows[cur].status \in Statuses
  PROVE  /\ CancelEvent \in OrderEvents
         /\ <<CancelEvent>> \in Seq(OrderEvents \cup TradeEvents)
<1>1. CancelEvent \in OrderEvents
  BY DEF TypeOK, Row, OrderEvent, OrderEvents, CancelEvent
<1> QED
  BY <1>1, SingletonIsSeq

LEMMA CancelInBookKeeps == ASSUME RuntimeInv, CancelInBook PROVE RuntimeInv'
<1> USE DEF RuntimeInv
<1>1. /\ rows' = rows /\ created' = created /\ trades' = trades
      /\ late' = late /\ lateCancels' = lateCancels
      /\ nextSeq' = nextSeq /\ cur' = cur /\ copy' = copy
      /\ takerRem' = takerRem /\ fills' = fills /\ makerFill' = makerFill
      /\ stream' = stream /\ acked' = acked /\ cancelAcked' = cancelAcked /\ doubted' = doubted
      /\ faults' = faults /\ pc = "cancelling"
  BY DEF CancelInBook, storeVars, callVars, ackVars
<1>2. \/ /\ bookRem' = [bookRem EXCEPT ![cur] = 0]
         /\ bookSeq' = [bookSeq EXCEPT ![cur] = 0]
         /\ pc' = "cancelled"
         /\ outbox' = <<CancelEvent>>
      \/ bookRem' = bookRem /\ bookSeq' = bookSeq /\ pc' = "recoverCancel"
         /\ outbox' = outbox /\ ~ InBook(cur)
  BY DEF CancelInBook
<1>3. /\ cur \in OrderId /\ rows[cur].status = "cancelled"
      /\ \A x \in OrderId : makerFill[x] = 0
  BY <1>1 DEF CallInv, MatchRunning
<1>4. TypeOK'
  <2>1. outbox' \in Seq(OrderEvents \cup TradeEvents)
    BY <1>2, <1>3, CancelEventType DEF TypeOK, Statuses
  <2>2. bookRem' \in [OrderId -> Nat] /\ bookSeq' \in [OrderId -> Nat] /\ pc' \in PCs
    BY <1>2, <1>3 DEF TypeOK, PCs
  <2> QED
    BY <1>1, <2>1, <2>2 DEF TypeOK
<1>5. /\ \A x \in OrderId : bookRem'[x] = bookRem[x] \/ (x = cur /\ bookRem'[x] = 0)
      /\ bookRem'[cur] = 0
  BY <1>2, <1>3 DEF TypeOK, InBook
<1>6. RowsInv'
  BY <1>1 DEF RowsInv
<1>7. CallInv'
  BY <1>1, <1>2, <1>3, <1>5 DEF CallInv, MatchRunning
<1>a. \A x \in OrderId : Settled(x)' <=> Settled(x)
  BY <1>1, <1>2 DEF Settled
<1>b. \A x \in OrderId :
        (CommittedUnseen(x) => CommittedUnseen(x)') /\ (Strayed(x) => Strayed(x)')
  BY <1>1, <1>a, UnseenSame
<1>8. BookInv'
  <2> SUFFICES ASSUME BookIsLive', NEW x \in OrderId
               PROVE  /\ InPlayQty(x)' > 0 =>
                           /\ x <= created' /\ rows'[x].status # "inFlight" /\ InPlayRight(x)'
                           /\ rows'[x].status = "cancelled" => x \in doubted'
                      /\ Settled(x)' /\ x \in Restorable' /\ ~ Strayed(x)' =>
                           InPlayRight(x)'
    BY DEF BookInv
  <2>1. /\ InPlayQty(x) > 0 =>
             /\ x <= created /\ rows[x].status # "inFlight" /\ InPlayRight(x)
             /\ rows[x].status = "cancelled" => x \in doubted \/ x = cur
        /\ Settled(x) /\ x \in Restorable /\ ~ Strayed(x) => InPlayRight(x)
    BY <1>1 DEF BookInv, BookIsLive, MatchRunning
  <2>2. CASE x = cur
    BY <1>1, <1>3, <1>5, <2>2 DEF InPlayQty, Restorable, Restable
  <2>3. CASE x # cur
    <3>1. InPlayQty(x)' = InPlayQty(x)
      BY <1>1, <1>5, <2>3 DEF InPlayQty
    <3>2. InPlayRight(x) => InPlayRight(x)'
      BY <1>1, <1>b, <3>1 DEF InPlayRight
    <3> QED
      BY <1>1, <1>a, <1>b, <2>1, <2>3, <3>1, <3>2 DEF Restorable
  <2> QED
    BY <2>2, <2>3
<1>9. AckInv'
  BY <1>1, <1>5, <1>a DEF AckInv, TypeOK
<1>10. CrossInv'
  <2>1. \A x \in OrderId : InPlay(x)' => InPlay(x)
    BY <1>1, <1>3, <1>5, <1>b DEF InPlay, InPlayQty, BookIsLive, Restorable
  <2>2. pc' # "matched"
    BY <1>2
  <2> QED
    BY <1>1, <1>a, <2>1, <2>2 DEF CrossInv
<1>11. LateInv'
  <2>1. lateCancels \subseteq doubted \cap Orders
    BY DEF LateInv
  <2>2. \A x \in OrderId : Locked(x) =>
          x \notin cancelAcked' /\ (x = cur' => pc' \in {"recoverSubmit", "closed", "checked"})
    BY <1>1, LockedFacts DEF Locked
  <2>3. BookIsLive' => \A t \in late : InPlayQty(t.taker)' >= rows[t.taker].rem
    <3> SUFFICES ASSUME NEW t \in late PROVE InPlayQty(t.taker)' >= rows[t.taker].rem
      OBVIOUS
    <3>1. /\ t.taker \in OrderId /\ Updates(t, t.taker)
          /\ InPlayQty(t.taker) >= rows[t.taker].rem
      BY <1>1 DEF LateInv, TypeOK, Transactions, BookIsLive
    <3>2. t.taker # cur
      BY <1>1, <3>1, LockedFacts
    <3> QED
      BY <1>1, <1>5, <3>1, <3>2 DEF InPlayQty
  <2> QED
    BY <1>1, <1>a, <2>1, <2>2, <2>3, LateSame
<1> QED
  BY <1>4, <1>6, <1>7, <1>8, <1>9, <1>10, <1>11

LEMMA FailClosedKeeps == ASSUME RuntimeInv, FailClosed PROVE RuntimeInv'
<1> USE RuntimeAssumption DEF RuntimeInv
<1>1. /\ rows' = rows /\ created' = created /\ trades' = trades
      /\ late' = late /\ lateCancels' = lateCancels
      /\ bookRem' = bookRem /\ bookSeq' = bookSeq /\ nextSeq' = nextSeq
      /\ cur' = cur /\ copy' = copy
      /\ takerRem' = takerRem /\ fills' = fills /\ makerFill' = makerFill
      /\ outbox' = outbox /\ stream' = stream /\ acked' = acked
      /\ cancelAcked' = cancelAcked /\ doubted' = doubted
      /\ pc \in {"recoverSubmit", "recoverCancel"} /\ pc' = "closed"
      /\ faults' \in 0..MaxFaults
  BY DEF FailClosed, Fault, NoFault, storeVars, bookVars, callVars, wireVars, ackVars, TypeOK
<1>2. TypeOK'
  BY <1>1 DEF TypeOK, PCs
<1>3. CallInv'
  BY <1>1 DEF CallInv, MatchRunning
<1>4. /\ ~ MatchRunning /\ ~ MatchRunning' /\ ~ BookIsLive' /\ acked \subseteq 1..created
      /\ lateCancels \subseteq doubted \cap Orders
  BY <1>1 DEF MatchRunning, BookIsLive, AckInv, LateInv
<1>5. \A o \in OrderId : Settled(o)' => Settled(o)
  BY <1>1 DEF Settled
<1> QED
  BY <1>1, <1>2, <1>3, <1>4, <1>5, MoveKeeps

LEMMA DropMatchType ==
  ASSUME DropMatch
  PROVE  /\ takerRem' = 0 /\ fills' = <<>> /\ fills' \in Seq(Fills)
         /\ makerFill' \in [OrderId -> Nat]
         /\ \A o \in OrderId : makerFill'[o] = 0
BY DEF DropMatch

\* A transaction that failed, with its COMMIT on its way or not, is a transaction
\* that wrote nothing: the book is not read before it is rebuilt.
LEMMA RolledBackKeeps ==
  ASSUME RuntimeInv, pc = "matched", pc' = "recoverSubmit", DropMatch,
         faults' \in 0..MaxFaults,
         UNCHANGED <<rows, created, trades, lateCancels, bookVars, cur, copy, wireVars,
                     ackVars>>
  PROVE  /\ late' \subseteq Transactions => TypeOK'
         /\ RowsInv' /\ CallInv' /\ BookInv' /\ AckInv' /\ CrossInv'
         /\ lateCancels' \subseteq (doubted \cap Orders)' /\ doubted \subseteq doubted'
         /\ ~ BookIsLive' /\ cur \in OrderId /\ cur' = cur
         /\ \A o \in OrderId : Settled(o)' <=> o \in acked
         /\ \A t \in late : ~ Settled(t.taker)'
<1> USE DEF RuntimeInv
<1>1. /\ rows' = rows /\ created' = created /\ trades' = trades
      /\ lateCancels' = lateCancels
      /\ bookRem' = bookRem /\ bookSeq' = bookSeq /\ nextSeq' = nextSeq /\ cur' = cur
      /\ copy' = copy
      /\ outbox' = outbox /\ stream' = stream /\ acked' = acked
      /\ cancelAcked' = cancelAcked /\ doubted' = doubted
  BY DEF bookVars, wireVars, ackVars
<1>2. late' \subseteq Transactions => TypeOK'
  BY <1>1, DropMatchType DEF TypeOK, PCs
<1>3. RowsInv'
  BY <1>1 DEF RowsInv
<1>4. CallInv'
  BY <1>1, DropMatchType DEF CallInv, MatchRunning
<1>5. BookInv'
  BY DEF BookInv, BookIsLive
<1>a. \A o \in OrderId : /\ Settled(o)' <=> o \in acked
                         /\ Settled(o) <=> o \in acked
  BY <1>1 DEF Settled
<1>6. AckInv'
  BY <1>1, <1>a, DropMatchType DEF AckInv, TypeOK
<1>b. \A o \in OrderId :
        (CommittedUnseen(o) => CommittedUnseen(o)') /\ (Strayed(o) => Strayed(o)')
  BY <1>1, <1>a, UnseenSame
<1>7. CrossInv'
  <2>1. \A o \in OrderId : InPlay(o)' => InPlay(o)
    BY <1>1, <1>b DEF InPlay, BookIsLive, Restorable
  <2> QED
    BY <1>1, <1>a, <2>1 DEF CrossInv
<1>8. lateCancels' \subseteq (doubted \cap Orders)' /\ doubted \subseteq doubted'
  BY <1>1 DEF LateInv, Orders
<1>9. ~ BookIsLive' /\ cur \in OrderId
  BY DEF BookIsLive, CallInv, MatchRunning
<1>10. \A t \in late : ~ Settled(t.taker)'
  <2>1. \A t \in late : t.taker \in OrderId /\ ~ Settled(t.taker)
    BY DEF LateInv, TypeOK, Transactions
  <2> QED
    BY <1>a, <2>1
<1> QED
  BY <1>1, <1>2, <1>3, <1>4, <1>5, <1>6, <1>7, <1>8, <1>9, <1>10, <1>a

LEMMA PersistFailsKeeps == ASSUME RuntimeInv, PersistFails PROVE RuntimeInv'
<1> USE RuntimeAssumption
<1>1. /\ pc = "matched" /\ pc' = "recoverSubmit" /\ faults' \in 0..MaxFaults
      /\ DropMatch /\ late' = late
      /\ UNCHANGED <<rows, created, trades, lateCancels, bookVars, cur, copy, wireVars,
                     ackVars>>
  BY DEF PersistFails, Fault, NoFault, storeVars, RuntimeInv, TypeOK
<1>2. /\ late' \subseteq Transactions
      /\ rows' = rows /\ created' = created /\ cancelAcked' = cancelAcked
  BY <1>1 DEF RuntimeInv, TypeOK, ackVars
<1>3. /\ TypeOK' /\ RowsInv' /\ CallInv' /\ BookInv' /\ AckInv' /\ CrossInv'
      /\ lateCancels' \subseteq (doubted \cap Orders)' /\ doubted \subseteq doubted'
      /\ ~ BookIsLive'
      /\ \A t \in late : ~ Settled(t.taker)'
  BY <1>1, <1>2, RolledBackKeeps
<1>4. created' \in Nat /\ created <= created'
  BY <1>2 DEF RuntimeInv, TypeOK
<1>5. ASSUME NEW t \in late', NEW o \in OrderId, Updates(t, o)
      PROVE  /\ rows'[o] = rows[o] /\ o \notin cancelAcked'
             /\ o = cur' => pc' \in {"recoverSubmit", "closed", "checked"}
  BY <1>1, <1>2, <1>5, LockedFacts
<1>6. LateInv'
  BY <1>1, <1>3, <1>4, <1>5, LateKept
<1> QED
  BY <1>3, <1>6 DEF RuntimeInv

LEMMA CrashKeeps == ASSUME RuntimeInv, Crash PROVE RuntimeInv'
<1> USE RuntimeAssumption DEF RuntimeInv
<1>1. /\ rows' = rows /\ created' = created /\ trades' = trades
      /\ late' = late /\ lateCancels' = lateCancels
      /\ outbox' = <<>> /\ stream' = stream /\ acked' = acked
      /\ cancelAcked' = cancelAcked /\ doubted' = doubted /\ cur' = 0
      /\ pc' = "down" /\ faults' \in 0..MaxFaults
      /\ DropMatch
  BY DEF Crash, Fault, storeVars, ackVars, TypeOK
<1>a. copy' = 0 /\ ~ BookIsLive' /\ \A o \in OrderId : Settled(o)' => Settled(o)
  BY <1>1 DEF Crash, BookIsLive, Settled
<1>2. /\ bookRem' \in [OrderId -> Nat] /\ bookSeq' \in [OrderId -> Nat] /\ nextSeq' \in Nat
      /\ \A o \in OrderId : bookRem'[o] = 0
  BY DEF Crash, EmptyBook
<1>3. TypeOK'
  BY <1>1, <1>a, <1>2, DropMatchType DEF TypeOK, PCs
<1>4. RowsInv'
  BY <1>1 DEF RowsInv
<1>5. CallInv'
  BY <1>1, DropMatchType DEF CallInv, MatchRunning
<1>6. BookInv'
  BY <1>a DEF BookInv
<1>7. AckInv'
  BY <1>1, <1>a, <1>2, DropMatchType DEF AckInv, TypeOK
<1>8. CrossInv'
  <2>1. \A o \in OrderId : Strayed(o) => Strayed(o)'
    BY <1>1, <1>a, UnseenSame
  <2>2. \A o \in OrderId : InPlay(o)' => InPlay(o)
    BY <1>1, <1>a, <2>1 DEF InPlay, Restorable
  <2> QED
    BY <1>1, <1>a, <2>2 DEF CrossInv
<1>9. LateInv'
  <2>1. lateCancels' \subseteq doubted' \cap Orders
    BY <1>1 DEF LateInv
  <2>2. \A o \in OrderId : Locked(o) => o \notin cancelAcked' /\ o # cur'
    BY <1>1, LockedFacts DEF Locked, OrderId
  <2> QED
    BY <1>1, <1>a, <2>1, <2>2, LateSame
<1> QED
  BY <1>3, <1>4, <1>5, <1>6, <1>7, <1>8, <1>9

\* The book a rebuild makes satisfies everything the invariant asks of a book.
LEMMA RebuildKeeps ==
  ASSUME RuntimeInv, RebuiltBook, ~ MatchRunning, ~ MatchRunning', pc' # "persisted",
         rows' = rows, created' = created, trades' = trades, late' = late,
         lateCancels' = lateCancels, makerFill' = makerFill,
         acked' = acked, cancelAcked' = cancelAcked, doubted' = doubted,
         cur' = 0 \/ (cur' = cur /\ pc \in {"recoverCancel", "down"})
  PROVE  BookInv' /\ AckInv' /\ CrossInv' /\ LateInv'
<1> USE DEF RuntimeInv
<1>1. \A o \in OrderId :
        /\ bookRem'[o] = IF o \in Restorable THEN rows[o].rem ELSE 0
        /\ makerFill'[o] = 0 /\ rows[o].rem \in Nat /\ bookRem'[o] \in Nat
        /\ o \in Restorable => o <= created
  <2>1. \A o \in OrderId : bookRem'[o] = IF o \in Restorable THEN rows[o].rem ELSE 0
    BY DEF RebuiltBook
  <2>2. \A o \in OrderId : makerFill'[o] = 0
    BY DEF CallInv
  <2>3. \A o \in OrderId : rows[o].rem \in Nat
    BY DEF TypeOK, Row
  <2>4. \A o \in OrderId : o \in Restorable => o <= created
    BY DEF RowsInv, Restorable, Restable, NoRow, TypeOK, OrderId
  <2> QED
    BY <2>1, <2>2, <2>3, <2>4
<1>2. BookInv'
  BY <1>1 DEF BookInv, InPlayQty, InPlayRight, Restorable, Restable
<1>a. \A o \in OrderId : Settled(o)' => Settled(o)
  BY DEF Settled
<1>3. AckInv'
  BY <1>1, <1>a DEF AckInv, Restorable, Restable, TypeOK
<1>4. \A o \in OrderId : InPlay(o)' => InPlay(o)
  <2>1. \A o \in OrderId : Strayed(o) => Strayed(o)'
    BY <1>a, UnseenSame
  <2> QED
    BY <1>1, <2>1 DEF InPlay, InPlayQty, Restorable
<1>5. CrossInv'
  BY <1>4, <1>a DEF CrossInv, MatchRunning
<1>6. LateInv'
  <2>1. lateCancels' \subseteq doubted' \cap Orders
    BY DEF LateInv
  <2>2. \A o \in OrderId : Locked(o) => o \notin cancelAcked' /\ o # cur'
    BY LockedFacts DEF Locked, OrderId
  <2>3. \A t \in late : InPlayQty(t.taker)' >= rows[t.taker].rem
    <3>1. \A t \in late : t.taker \in OrderId /\ rows[t.taker].status = "open"
      BY DEF LateInv, TypeOK, Transactions
    <3> QED
      BY <1>1, <3>1 DEF InPlayQty, Restorable, Restable
  <2> QED
    BY <1>a, <2>1, <2>2, <2>3, LateSame
<1> QED
  BY <1>2, <1>3, <1>5, <1>6

LEMMA RecoverBookKeeps == ASSUME RuntimeInv, RecoverBook PROVE RuntimeInv'
<1> USE DEF RuntimeInv
<1>1. /\ rows' = rows /\ created' = created /\ trades' = trades
      /\ late' = late /\ lateCancels' = lateCancels
      /\ takerRem' = takerRem /\ fills' = fills /\ makerFill' = makerFill
      /\ stream' = stream /\ acked' = acked /\ cancelAcked' = cancelAcked /\ doubted' = doubted
      /\ faults' = faults /\ RebuiltBook
  BY DEF RecoverBook, storeVars, matchVars, ackVars
<1>2. \/ /\ pc = "recoverSubmit" /\ pc' = "idle" /\ cur' = 0 /\ copy' = 0
         /\ outbox' = outbox
      \/ /\ pc = "recoverCancel" /\ pc' = "cancelled" /\ cur' = cur /\ copy' = copy
         /\ outbox' = <<CancelEvent>>
  BY DEF RecoverBook, Release
<1>3. ~ MatchRunning /\ ~ MatchRunning' /\ pc' # "persisted"
  BY <1>2 DEF MatchRunning
<1>4. TypeOK'
  <2>1. outbox' \in Seq(OrderEvents \cup TradeEvents)
    <3>1. pc = "recoverCancel" => cur \in OrderId /\ rows[cur].status \in Statuses
      BY DEF CallInv, Statuses
    <3> QED
      BY <1>2, <3>1, CancelEventType DEF TypeOK
  <2>2. cur' \in 0..created' /\ pc' \in PCs
    BY <1>1, <1>2 DEF TypeOK, PCs
  <2> QED
    BY <1>1, <1>2, <2>1, <2>2, RebuiltBookType DEF TypeOK
<1>5. RowsInv'
  BY <1>1 DEF RowsInv
<1>6. CallInv'
  <2>1. pc' = "cancelled" => cur \in OrderId /\ rows[cur].status = "cancelled" /\ cur' = cur
    BY <1>2 DEF CallInv
  <2>2. pc' = "cancelled" => bookRem'[cur] = 0
    BY <1>1, <2>1 DEF RebuiltBook, Restorable, Restable
  <2> QED
    BY <1>1, <1>2, <1>3, <2>1, <2>2 DEF CallInv
<1>7. cur' = 0 \/ (cur' = cur /\ pc \in {"recoverCancel", "down"})
  BY <1>2
<1> QED
  BY <1>1, <1>3, <1>4, <1>5, <1>6, <1>7, RebuildKeeps

LEMMA RestartKeeps == ASSUME RuntimeInv, Restart PROVE RuntimeInv'
<1> USE DEF RuntimeInv
<1>1. /\ rows' = rows /\ created' = created /\ trades' = trades /\ cur' = cur
      /\ late' = late /\ lateCancels' = lateCancels /\ copy' = copy
      /\ takerRem' = takerRem /\ fills' = fills /\ makerFill' = makerFill
      /\ outbox' = outbox /\ stream' = stream /\ acked' = acked
      /\ cancelAcked' = cancelAcked /\ doubted' = doubted /\ faults' = faults /\ RebuiltBook
      /\ pc = "down" /\ pc' = "idle"
  BY DEF Restart, storeVars, callVars, wireVars, ackVars
<1>2. ~ MatchRunning /\ ~ MatchRunning' /\ pc' # "persisted"
  BY <1>1 DEF MatchRunning
<1>3. TypeOK'
  BY <1>1, RebuiltBookType DEF TypeOK, PCs
<1>4. RowsInv'
  BY <1>1 DEF RowsInv
<1>5. CallInv'
  BY <1>1, <1>2 DEF CallInv
<1> QED
  BY <1>1, <1>2, <1>3, <1>4, <1>5, RebuildKeeps

LEMMA MatchStepKeeps == ASSUME RuntimeInv, MatchStep PROVE RuntimeInv'
<1> USE DEF RuntimeInv
<1>1. /\ rows' = rows /\ created' = created /\ trades' = trades
      /\ late' = late /\ lateCancels' = lateCancels
      /\ nextSeq' = nextSeq /\ cur' = cur /\ pc' = pc /\ pc = "matching" /\ copy' = copy
      /\ outbox' = outbox /\ stream' = stream /\ acked' = acked
      /\ cancelAcked' = cancelAcked /\ doubted' = doubted /\ faults' = faults /\ takerRem > 0
  BY DEF MatchStep, storeVars, wireVars, ackVars
<1>2. PICK m \in OrderId :
        /\ m \in Opposite(cur)
        /\ bookRem' = [bookRem EXCEPT ![m] = @ - FillQty(m)]
        /\ bookSeq' = [bookSeq EXCEPT ![m] = IF bookRem[m] = FillQty(m) THEN 0 ELSE @]
        /\ takerRem' = takerRem - FillQty(m)
        /\ fills' = Append(fills, [maker |-> m, price |-> rows[m].price, qty |-> FillQty(m)])
        /\ makerFill' = [makerFill EXCEPT ![m] = @ + FillQty(m)]
  BY DEF MatchStep, BestMaker
<1> DEFINE q == FillQty(m)
           f == [maker |-> m, price |-> rows[m].price, qty |-> FillQty(m)]
<1>3. /\ q \in Nat /\ q > 0 /\ q <= takerRem /\ q <= bookRem[m]
      /\ takerRem \in Nat /\ bookRem[m] \in Nat /\ makerFill[m] \in Nat
      /\ rows[m].price \in Nat
  <2>1. /\ takerRem \in Nat /\ bookRem[m] \in Nat /\ makerFill[m] \in Nat
        /\ rows[m].price \in Nat
    BY DEF TypeOK, Row
  <2>2. bookRem[m] > 0
    BY <1>2 DEF Opposite, InBook
  <2> QED
    BY <1>1, <2>1, <2>2 DEF FillQty
<1>4. /\ f \in Fills /\ f.maker = m
      /\ fills' = Append(fills, f)
  BY <1>2, <1>3 DEF Fills
<1> HIDE DEF q, f
<1>5. /\ cur \in OrderId \ (acked \cup cancelAcked) /\ rows[cur].status = "open"
      /\ makerFill[cur] = 0 /\ takerRem <= rows[cur].qty /\ rows[cur].qty \in Nat
      /\ bookRem[cur] = 0 /\ \A i \in DOMAIN fills : makerFill[fills[i].maker] > 0
  BY <1>1 DEF CallInv, MatchRunning, TypeOK, Row
<1>6. m # cur
  BY <1>2 DEF Opposite
<1>7. /\ bookRem'[m] = bookRem[m] - q /\ makerFill'[m] = makerFill[m] + q
      /\ \A x \in OrderId \ {m} : bookRem'[x] = bookRem[x] /\ makerFill'[x] = makerFill[x]
      /\ takerRem' = takerRem - q
      /\ bookRem' \in [OrderId -> Nat] /\ makerFill' \in [OrderId -> Nat]
      /\ bookSeq' \in [OrderId -> Nat]
  <2>1. /\ bookRem \in [OrderId -> Nat] /\ makerFill \in [OrderId -> Nat]
        /\ bookSeq \in [OrderId -> Nat]
    BY DEF TypeOK
  <2>2. /\ bookRem' = [bookRem EXCEPT ![m] = @ - q] /\ takerRem' = takerRem - q
        /\ makerFill' = [makerFill EXCEPT ![m] = @ + q]
    BY <1>2 DEF q
  <2>3. bookRem[m] - q \in Nat /\ makerFill[m] + q \in Nat
    BY <1>3
  <2>4. bookSeq' \in [OrderId -> Nat]
    BY <1>2, <2>1
  <2> QED
    BY <2>1, <2>2, <2>3, <2>4
<1>8. \A x \in OrderId : InPlayQty(x)' = InPlayQty(x)
  <2>1. (bookRem[m] - q) + (makerFill[m] + q) = bookRem[m] + makerFill[m]
    BY <1>3
  <2> QED
    BY <1>7, <2>1 DEF InPlayQty
<1>9. fills' \in Seq(Fills) /\ fills' # <<>>
      /\ \A i \in DOMAIN fills' : fills'[i] = f \/ (i \in DOMAIN fills /\ fills'[i] = fills[i])
  <2>1. fills \in Seq(Fills)
    BY DEF TypeOK
  <2>2. /\ fills' \in Seq(Fills) /\ fills' # <<>> /\ Len(fills') = Len(fills) + 1
        /\ \A i \in 1..Len(fills) : fills'[i] = fills[i]
        /\ fills'[Len(fills) + 1] = f
    BY <1>4, <2>1, AppendProperties
  <2>3. DOMAIN fills = 1..Len(fills) /\ DOMAIN fills' = 1..Len(fills') /\ Len(fills) \in Nat
    BY <2>1, <2>2
  <2> QED
    BY <2>2, <2>3
<1>10. TypeOK'
  BY <1>1, <1>3, <1>7, <1>9, SMTT(30) DEF TypeOK
<1>11. RowsInv'
  BY <1>1 DEF RowsInv
<1>12. CallInv'
  <2>1. ASSUME NEW i \in DOMAIN fills' PROVE makerFill'[fills'[i].maker] > 0
    <3>1. CASE fills'[i] = f
      BY <1>3, <1>4, <1>7, <3>1
    <3>2. CASE i \in DOMAIN fills /\ fills'[i] = fills[i]
      <4>1. makerFill[fills[i].maker] > 0 /\ fills[i].maker \in OrderId
        <5>1. fills[i] \in Fills
          BY <3>2 DEF TypeOK
        <5> QED
          BY <1>5, <3>2, <5>1 DEF Fills
      <4> QED
        BY <1>3, <1>7, <3>2, <4>1
    <3> QED
      BY <1>9, <3>1, <3>2
  <2>2. takerRem' < rows[cur].qty /\ makerFill'[cur] = 0 /\ bookRem'[cur] = 0
    BY <1>3, <1>5, <1>6, <1>7
  <2>3. ASSUME NEW x \in OrderId, makerFill'[x] > 0
        PROVE  \E i \in DOMAIN fills' : fills'[i].maker = x
    <3>1. fills \in Seq(Fills) /\ f \in Fills
      BY <1>4 DEF TypeOK
    <3>2. /\ \A i \in DOMAIN fills : i \in DOMAIN fills' /\ fills'[i] = fills[i]
          /\ \E i \in DOMAIN fills' : fills'[i] = f
      BY <1>4, <3>1
    <3>3. CASE x = m
      BY <1>4, <3>2, <3>3
    <3>4. CASE x # m
      <4>1. makerFill[x] > 0
        BY <1>7, <2>3, <3>4
      <4>2. PICK i \in DOMAIN fills : fills[i].maker = x
        BY <1>1, <4>1 DEF CallInv, MatchRunning
      <4> QED
        BY <3>2, <4>2
    <3> QED
      BY <3>3, <3>4
  <2> QED
    BY <1>1, <1>3, <1>5, <1>7, <1>9, <2>1, <2>2, <2>3 DEF CallInv, MatchRunning
<1>13. BookInv'
  BY <1>1, <1>8 DEF BookInv, BookIsLive, MatchRunning, Restorable, Settled, InPlayRight,
                    Strayed, CommittedUnseen
<1>14. AckInv'
  <2>1. m \notin cancelAcked
    BY <1>3 DEF AckInv
  <2> QED
    BY <1>1, <1>7, <2>1 DEF AckInv, TypeOK, Settled
<1>15. CrossInv'
  BY <1>1, <1>8 DEF CrossInv, Settled, InPlay, BookIsLive, Restorable, Strayed,
                    CommittedUnseen
<1>16. LateInv'
  <2>1. lateCancels' \subseteq doubted' \cap Orders
    BY <1>1 DEF LateInv
  <2>2. \A o \in OrderId : Locked(o) => o \notin cancelAcked' /\ o # cur'
    BY <1>1, LockedFacts DEF Locked
  <2>3. \A t \in late : InPlayQty(t.taker)' >= rows[t.taker].rem
    BY <1>1, <1>8 DEF LateInv, BookIsLive, TypeOK, Transactions
  <2> QED
    BY <1>1, <2>1, <2>2, <2>3, LateSame DEF Settled
<1> QED
  BY <1>10, <1>11, <1>12, <1>13, <1>14, <1>15, <1>16

LEMMA MatchDoneKeeps == ASSUME RuntimeInv, MatchDone PROVE RuntimeInv'
<1> USE DEF RuntimeInv
<1>1. /\ rows' = rows /\ created' = created /\ trades' = trades
      /\ late' = late /\ lateCancels' = lateCancels
      /\ cur' = cur /\ takerRem' = takerRem /\ fills' = fills /\ makerFill' = makerFill
      /\ outbox' = outbox /\ stream' = stream /\ acked' = acked
      /\ cancelAcked' = cancelAcked /\ doubted' = doubted /\ faults' = faults
      /\ pc = "matching" /\ pc' = "matched" /\ copy' = copy
      /\ takerRem = 0 \/ \A m \in Opposite(cur) : ~ Crosses(cur, m)
  BY DEF MatchDone, storeVars, callVars, wireVars, ackVars
<1>2. /\ cur \in OrderId \ (acked \cup cancelAcked) /\ makerFill[cur] = 0
      /\ bookRem[cur] = 0 /\ takerRem \in Nat
  BY <1>1 DEF CallInv, MatchRunning, TypeOK
<1>3. /\ bookRem' \in [OrderId -> Nat] /\ bookSeq' \in [OrderId -> Nat] /\ nextSeq' \in Nat
      /\ bookRem'[cur] = takerRem
      /\ \A x \in OrderId \ {cur} : bookRem'[x] = bookRem[x]
  <2>1. CASE takerRem > 0
    <3>1. /\ bookRem' = [bookRem EXCEPT ![cur] = takerRem]
          /\ bookSeq' = [bookSeq EXCEPT ![cur] = nextSeq + 1]
          /\ nextSeq' = nextSeq + 1
      BY <2>1 DEF MatchDone, Rest
    <3>2. /\ bookRem \in [OrderId -> Nat] /\ bookSeq \in [OrderId -> Nat]
          /\ nextSeq \in Nat /\ nextSeq + 1 \in Nat
      BY DEF TypeOK
    <3> QED
      BY <1>2, <3>1, <3>2
  <2>2. CASE ~ takerRem > 0
    BY <1>2, <2>2 DEF MatchDone, bookVars, TypeOK
  <2> QED
    BY <2>1, <2>2
<1>4. TypeOK'
  BY <1>1, <1>3 DEF TypeOK, PCs
<1>5. RowsInv'
  BY <1>1 DEF RowsInv
<1>6. CallInv'
  BY <1>1, <1>3 DEF CallInv, MatchRunning
<1>7. BookInv'
  BY <1>1, <1>3 DEF BookInv, BookIsLive, MatchRunning, InPlayQty, InPlayRight, Restorable,
                    Settled, Strayed, CommittedUnseen
<1>8. AckInv'
  BY <1>1, <1>2, <1>3 DEF AckInv, TypeOK, Settled
<1>9. CrossInv'
  <2>1. \A x \in OrderId \ {cur} : (InPlay(x)' <=> InPlay(x)) /\ (Settled(x)' <=> Settled(x))
    BY <1>1, <1>3 DEF InPlay, InPlayQty, BookIsLive, Restorable, Settled, Strayed,
                      CommittedUnseen
  <2>2. ~ Settled(cur)'
    BY <1>1, <1>2 DEF Settled
  <2>3. \A m \in Opposite(cur)' : m \in Opposite(cur)
    BY <1>1, <1>3 DEF Opposite, InBook
  <2>4. pc' = "matched" /\ takerRem' > 0 => \A m \in Opposite(cur)' : ~ Crosses(cur, m)'
    BY <1>1, <1>2, <2>3 DEF Crosses
  <2>5. \A x \in OrderId : Settled(x)' => x # cur /\ Settled(x)
    BY <1>1, <2>1, <2>2
  <2> QED
    BY <1>1, <2>1, <2>4, <2>5 DEF CrossInv
<1>10. LateInv'
  <2>1. lateCancels' \subseteq doubted' \cap Orders
    BY <1>1 DEF LateInv
  <2>2. \A o \in OrderId : Locked(o) => o \notin cancelAcked' /\ o # cur'
    BY <1>1, LockedFacts DEF Locked
  <2>3. ASSUME NEW t \in late PROVE InPlayQty(t.taker)' >= rows[t.taker].rem
    <3>1. /\ t.taker \in OrderId /\ Updates(t, t.taker)
          /\ InPlayQty(t.taker) >= rows[t.taker].rem
      BY <1>1 DEF LateInv, BookIsLive, TypeOK, Transactions
    <3>2. t.taker # cur
      BY <1>1, <3>1, LockedFacts
    <3> QED
      BY <1>1, <1>3, <3>1, <3>2 DEF InPlayQty
  <2> QED
    BY <1>1, <2>1, <2>2, <2>3, LateSame DEF Settled
<1> QED
  BY <1>4, <1>5, <1>6, <1>7, <1>8, <1>9, <1>10

\* A match fits the rows, the book never having more of a maker than its row, except
\* where a commit nobody saw has shrunk the row.
LEMMA MatchFits ==
  ASSUME RuntimeInv, pc = "matched", NEW o \in OrderId, makerFill[o] > rows[o].rem
  PROVE  CommittedUnseen(o)
<1>1. bookRem[o] \in Nat /\ makerFill[o] \in Nat /\ rows[o].rem \in Nat
  BY DEF RuntimeInv, TypeOK, Row
<1>2. CASE o = cur
  BY <1>1, <1>2 DEF RuntimeInv, CallInv, MatchRunning
<1>3. CASE o # cur
  BY <1>1, <1>3
     DEF RuntimeInv, BookInv, BookIsLive, MatchRunning, InPlayQty, InPlayRight
<1> QED
  BY <1>2, <1>3

\* What a committed match leaves behind, order by order: the taker has what it
\* rests with, a maker has what the book still has of it, others are untouched.
LEMMA MatchedRow ==
  ASSUME RuntimeInv, pc = "matched", DeltasFit, NEW o \in OrderId
  PROVE  LET r == MatchedRows[o] IN
         /\ r \in Row
         /\ r.side = rows[o].side /\ r.price = rows[o].price /\ r.qty = rows[o].qty
         /\ o = cur => r.rem = takerRem /\ r.status = TakerStatus
         /\ o # cur /\ makerFill[o] > 0 =>
              /\ r.rem \in Nat /\ r.rem + makerFill[o] = rows[o].rem
              /\ r.status = StatusAfterFill(r.rem)
              /\ o <= created /\ rows[o].status # "inFlight"
              /\ bookRem[o] = r.rem \/ (bookRem[o] > r.rem /\ CommittedUnseen(o))
              /\ rows[o].status = "cancelled" => o \in doubted
         /\ o # cur /\ makerFill[o] = 0 => r = rows[o]
<1>1. /\ rows[o] \in Row /\ rows[o].rem \in Nat
      /\ bookRem[o] \in Nat /\ makerFill[o] \in Nat
  BY DEF RuntimeInv, TypeOK, Row
<1>2. CASE o = cur
  <2>1. MatchedRows[o] = [rows[o] EXCEPT !.rem = takerRem, !.status = TakerStatus]
    BY <1>2 DEF MatchedRows
  <2>2. TakerStatus \in Statuses /\ takerRem \in Nat
    BY DEF RuntimeInv, TypeOK, TakerStatus, StatusAfterFill, Statuses
  <2> QED
    BY <1>1, <1>2, <2>1, <2>2 DEF Row
<1>3. CASE o # cur /\ makerFill[o] > 0
  <2> DEFINE left == rows[o].rem - makerFill[o]
  <2>1. MatchedRows[o] = [rows[o] EXCEPT !.rem = left, !.status = StatusAfterFill(left)]
    BY <1>3 DEF MatchedRows
  <2>2. /\ o <= created /\ rows[o].status # "inFlight"
        /\ \/ bookRem[o] + makerFill[o] = rows[o].rem
           \/ bookRem[o] + makerFill[o] > rows[o].rem /\ CommittedUnseen(o)
        /\ rows[o].status = "cancelled" => o \in doubted
    BY <1>1, <1>3
       DEF RuntimeInv, BookInv, BookIsLive, MatchRunning, InPlayQty, InPlayRight
  <2>3. left \in Nat /\ left + makerFill[o] = rows[o].rem
    BY <1>1 DEF DeltasFit
  <2>4. bookRem[o] = left \/ (bookRem[o] > left /\ CommittedUnseen(o))
    BY <1>1, <2>2, <2>3
  <2>5. StatusAfterFill(left) \in Statuses
    BY DEF StatusAfterFill, Statuses
  <2> HIDE DEF left
  <2>6. /\ MatchedRows[o] \in Row
        /\ MatchedRows[o].side = rows[o].side /\ MatchedRows[o].price = rows[o].price
        /\ MatchedRows[o].qty = rows[o].qty /\ MatchedRows[o].rem = left
        /\ MatchedRows[o].status = StatusAfterFill(left)
    BY <1>1, <2>1, <2>3, <2>5 DEF Row
  <2> QED
    BY <1>3, <2>2, <2>3, <2>4, <2>6
<1>4. CASE o # cur /\ makerFill[o] = 0
  BY <1>1, <1>4 DEF MatchedRows
<1> QED
  BY <1>1, <1>2, <1>3, <1>4

\* What the taker is set to tells how much of it was filled.
LEMMA TakerStatusFits ==
  ASSUME RuntimeInv, pc = "matched"
  PROVE  /\ TakerStatus = "open" => takerRem = rows[cur].qty
         /\ TakerStatus = "filled" <=> takerRem = 0
         /\ TakerStatus = "partially_filled" => takerRem < rows[cur].qty
         /\ TakerStatus \in {"open", "partially_filled", "filled"}
         /\ takerRem = rows[cur].rem \/ takerRem < rows[cur].rem
         /\ takerRem = rows[cur].rem => TakerStatus = "open"
         /\ takerRem < rows[cur].rem => fills # <<>> /\ TakerStatus = StatusAfterFill(takerRem)
<1>1. /\ cur \in OrderId /\ cur <= created /\ rows[cur].status = "open"
      /\ takerRem <= rows[cur].qty
      /\ fills = <<>> <=> takerRem = rows[cur].qty
      /\ takerRem \in Nat /\ rows[cur].qty \in Nat
  BY DEF RuntimeInv, CallInv, MatchRunning, TypeOK, Row
<1>2. rows[cur].qty > 0 /\ rows[cur].rem = rows[cur].qty
  BY <1>1 DEF RuntimeInv, RowsInv, NoRow
<1>3. CASE fills = <<>>
  BY <1>1, <1>2, <1>3 DEF TakerStatus
<1>4. CASE fills # <<>>
  <2>1. TakerStatus = IF takerRem = 0 THEN "filled" ELSE "partially_filled"
    BY <1>4 DEF TakerStatus, StatusAfterFill
  <2>2. takerRem # rows[cur].qty
    BY <1>1, <1>4
  <2> QED
    BY <1>1, <1>2, <1>4, <2>1, <2>2 DEF StatusAfterFill
<1> QED
  BY <1>3, <1>4

\* The trades of the running match are of its taker and of makers it filled.
LEMMA NewTradesFacts ==
  ASSUME RuntimeInv, pc = "matched"
  PROVE  /\ NewTrades \subseteq Trades
         /\ \A u \in NewTrades : /\ u.taker = cur
                                 /\ u.maker \in OrderId /\ u.maker # cur
                                 /\ makerFill[u.maker] > 0
         /\ \A o \in OrderId : makerFill[o] > 0 => \E u \in NewTrades : u.maker = o
         /\ fills # <<>> => NewTrades # {}
<1>1. /\ cur \in OrderId /\ makerFill[cur] = 0
      /\ \A i \in DOMAIN fills : fills[i] \in Fills /\ makerFill[fills[i].maker] > 0
      /\ \A o \in OrderId : makerFill[o] > 0 => \E i \in DOMAIN fills : fills[i].maker = o
  BY DEF RuntimeInv, CallInv, MatchRunning, TypeOK
<1>2. ASSUME NEW i \in DOMAIN fills
      PROVE  /\ TradeOf(fills[i]) \in Trades /\ TradeOf(fills[i]).taker = cur
             /\ TradeOf(fills[i]).maker = fills[i].maker
             /\ fills[i].maker \in OrderId /\ fills[i].maker # cur
  BY <1>1 DEF TradeOf, Fills, Trades
<1>3. \A u \in NewTrades : \E i \in DOMAIN fills : u = TradeOf(fills[i])
  BY DEF NewTrades
<1>4. ASSUME NEW o \in OrderId, makerFill[o] > 0 PROVE \E u \in NewTrades : u.maker = o
  <2>1. PICK i \in DOMAIN fills : fills[i].maker = o
    BY <1>1, <1>4
  <2>2. TradeOf(fills[i]) \in NewTrades /\ TradeOf(fills[i]).maker = o
    BY <1>2, <2>1 DEF NewTrades
  <2> QED
    BY <2>2
<1>5. fills # <<>> => NewTrades # {}
  <2>1. fills \in Seq(Fills)
    BY DEF RuntimeInv, TypeOK
  <2>2. fills # <<>> => 1 \in DOMAIN fills
    BY <2>1
  <2> QED
    BY <2>2 DEF NewTrades
<1> QED
  BY <1>1, <1>2, <1>3, <1>4, <1>5

LEMMA PersistMatchResultKeeps ==
  ASSUME RuntimeInv, PersistMatchResult PROVE RuntimeInv'
<1> USE RuntimeAssumption DEF RuntimeInv
<1>1. /\ created' = created /\ late' = late /\ lateCancels' = lateCancels
      /\ bookRem' = bookRem /\ bookSeq' = bookSeq
      /\ nextSeq' = nextSeq /\ cur' = cur /\ copy' = copy /\ stream' = stream
      /\ acked' = acked /\ cancelAcked' = cancelAcked /\ doubted' = doubted
      /\ pc = "matched" /\ DropMatch /\ DeltasFit /\ rows' = MatchedRows
      /\ trades' = trades \cup NewTrades
      /\ \A o \in Touched : ~ Locked(o)
  BY DEF PersistMatchResult, MatchIsWritten, bookVars, ackVars
<1>2. \/ pc' = "persisted" /\ outbox' = MatchEvents /\ faults' = faults
      \/ pc' = "recoverSubmit" /\ outbox' = outbox /\ faults' \in 0..MaxFaults
  BY DEF PersistMatchResult, NoFault, Fault, TypeOK
<1>3. /\ cur \in OrderId \ (acked \cup cancelAcked) /\ rows[cur].status = "open"
      /\ takerRem <= rows[cur].qty /\ cur <= created
      /\ bookRem[cur] = takerRem /\ makerFill[cur] = 0
      /\ takerRem \in Nat /\ rows[cur].qty \in Nat /\ created \in Nat
      /\ \A t \in trades : t.taker # cur
  BY <1>1 DEF CallInv, MatchRunning, TypeOK, Row
<1>4. ASSUME NEW o \in OrderId
      PROVE  /\ rows'[o].side = rows[o].side /\ rows'[o].price = rows[o].price
             /\ rows'[o].qty = rows[o].qty
             /\ o = cur => rows'[o].rem = takerRem /\ rows'[o].status = TakerStatus
             /\ o # cur /\ makerFill[o] > 0 =>
                  /\ rows'[o].rem \in Nat /\ rows'[o].rem + makerFill[o] = rows[o].rem
                  /\ rows'[o].status = StatusAfterFill(rows'[o].rem)
                  /\ o <= created /\ rows[o].status # "inFlight"
                  /\ \/ bookRem[o] = rows'[o].rem
                     \/ bookRem[o] > rows'[o].rem /\ CommittedUnseen(o)
             /\ o # cur /\ makerFill[o] = 0 => rows'[o] = rows[o]
             /\ makerFill'[o] = 0
             /\ bookRem[o] \in Nat /\ makerFill[o] \in Nat /\ rows[o].rem \in Nat
  BY <1>1, MatchedRow, DropMatchType DEF TypeOK, Row
<1>5. /\ TakerStatus = "open" => takerRem = rows[cur].qty
      /\ TakerStatus = "filled" <=> takerRem = 0
      /\ TakerStatus = "partially_filled" => takerRem < rows[cur].qty
      /\ TakerStatus \in {"open", "partially_filled", "filled"}
  BY <1>1, TakerStatusFits
<1>6. TypeOK'
  <2>1. trades' \subseteq Trades
    BY <1>1, NewTradesFacts DEF TypeOK
  <2>2. rows' \in [OrderId -> Row]
    BY <1>1, MatchedRowsType
  <2>3. outbox' \in Seq(OrderEvents \cup TradeEvents)
    BY <1>1, <1>2, MatchEventsType DEF TypeOK
  <2>4. pc' \in PCs /\ faults' \in 0..MaxFaults
    BY <1>2 DEF TypeOK, PCs
  <2> QED
    BY <1>1, <2>1, <2>2, <2>3, <2>4, DropMatchType DEF TypeOK
<1>7. RowsInv'
  <2>0. \A t \in trades' : t.taker <= created'
    <3>1. \A t \in NewTrades : t.taker = cur
      BY <1>1, NewTradesFacts
    <3> QED
      BY <1>1, <1>3, <3>1 DEF RowsInv
  <2> SUFFICES ASSUME NEW o \in OrderId
               PROVE  (IF o > created THEN rows[o] = NoRow
                       ELSE /\ rows[o].status # "none"
                            /\ rows[o].qty > 0
                            /\ rows[o].rem <= rows[o].qty
                            /\ rows[o].status = "filled" <=> rows[o].rem = 0
                            /\ rows[o].status \in {"open", "inFlight"} =>
                                 rows[o].rem = rows[o].qty
                            /\ rows[o].status = "partially_filled" =>
                                 rows[o].rem < rows[o].qty)'
    BY <2>0 DEF RowsInv
  <2>1. CASE o = cur
    <3>1. ~ o > created /\ rows[o].qty > 0
      BY <1>3, <2>1 DEF RowsInv, NoRow
    <3> QED
      BY <1>1, <1>3, <1>4, <1>5, <2>1, <3>1
  <2>2. CASE o # cur /\ makerFill[o] > 0
    <3>0. ~ o > created
      BY <1>3, <1>4, <2>2 DEF OrderId
    <3>1. ~ o > created /\ rows[o].qty > 0 /\ rows[o].rem <= rows[o].qty
          /\ rows[o].qty \in Nat
      BY <3>0 DEF RowsInv, TypeOK, Row
    <3>2. /\ rows'[o].qty = rows[o].qty /\ rows'[o].rem \in Nat
          /\ rows'[o].rem < rows[o].qty
          /\ rows'[o].status = IF rows'[o].rem = 0 THEN "filled" ELSE "partially_filled"
      BY <1>4, <2>2, <3>1 DEF StatusAfterFill
    <3> QED
      BY <1>1, <1>4, <3>1, <3>2
  <2>3. CASE o # cur /\ makerFill[o] = 0
    BY <1>1, <1>4, <2>3 DEF RowsInv
  <2> QED
    BY <1>4, <2>1, <2>2, <2>3
<1>8. CallInv'
  BY <1>1, <1>2, <1>3, DropMatchType DEF CallInv, MatchRunning
\* Nobody had seen a trade of this taker: what was committed unseen stays so.
<1>a. \A o \in OrderId \ {cur} : Settled(o)' <=> Settled(o)
  BY <1>1, <1>2 DEF Settled
<1>b. \A o \in OrderId :
        (CommittedUnseen(o) => CommittedUnseen(o)') /\ (Strayed(o) => Strayed(o)')
  <2>1. \A t \in trades : t.taker \in OrderId \ {cur}
    BY <1>3 DEF TypeOK, Trades
  <2>2. trades \subseteq trades' /\ doubted \subseteq doubted'
    BY <1>1
  <2>3. \A t \in trades : Settled(t.taker)' => Settled(t.taker)
    BY <1>a, <2>1
  <2> QED
    BY <2>2, <2>3, UnseenStays
\* Of every order but the taker: what is live after the commit was in play before
\* it, and the book holds what its row has left.
<1>9. ASSUME NEW o \in OrderId, o # cur
      PROVE  /\ bookRem[o] > 0 =>
                  /\ o <= created /\ rows'[o].status # "inFlight" /\ InPlayRight(o)'
                  /\ rows'[o].status = "cancelled" => o \in doubted
             /\ o \in acked /\ o \in Restorable' /\ ~ Strayed(o)' => InPlayRight(o)'
             /\ InPlay(o)' => InPlay(o)
  <2>1. /\ InPlayQty(o) > 0 =>
             /\ o <= created /\ rows[o].status # "inFlight" /\ InPlayRight(o)
             /\ rows[o].status = "cancelled" => o \in doubted
        /\ Settled(o) /\ o \in Restorable /\ ~ Strayed(o) => InPlayRight(o)
        /\ BookIsLive
    BY <1>1, <1>9 DEF BookInv, BookIsLive, MatchRunning
  <2>0. InPlayQty(o)' = bookRem[o]
    BY <1>1, <1>4 DEF InPlayQty
  <2>2. CASE makerFill[o] > 0
    <3>1. /\ bookRem[o] = rows'[o].rem \/ (bookRem[o] > rows'[o].rem /\ CommittedUnseen(o))
          /\ o <= created /\ rows'[o].status \in {"filled", "partially_filled"}
      BY <1>4, <1>9, <2>2 DEF StatusAfterFill
    <3>2. InPlayRight(o)'
      BY <1>b, <2>0, <3>1 DEF InPlayRight
    <3>3. InPlayQty(o) > 0
      BY <1>4, <2>2 DEF InPlayQty
    <3> QED
      BY <1>b, <2>1, <3>1, <3>2, <3>3 DEF InPlay
  <2>3. CASE makerFill[o] = 0
    <3>1. rows'[o] = rows[o] /\ InPlayQty(o) = bookRem[o]
      BY <1>4, <1>9, <2>3 DEF InPlayQty
    <3>2. InPlayRight(o) => InPlayRight(o)'
      BY <1>b, <2>0, <3>1 DEF InPlayRight
    <3> QED
      BY <1>b, <2>0, <2>1, <3>1, <3>2 DEF InPlay, Restorable, Settled
  <2> QED
    BY <1>4, <2>2, <2>3
<1>10. BookInv'
  <2> SUFFICES ASSUME NEW o \in OrderId
               PROVE  /\ bookRem[o] > 0 =>
                           /\ o <= created /\ rows'[o].status # "inFlight"
                           /\ InPlayRight(o)'
                           /\ rows'[o].status = "cancelled" => o \in doubted
                      /\ Settled(o)' /\ o \in Restorable' /\ ~ Strayed(o)' =>
                           InPlayRight(o)'
    BY <1>1, <1>4 DEF BookInv, InPlayQty
  <2>1. CASE o = cur
    <3>1. InPlayQty(o)' = rows'[o].rem
      BY <1>1, <1>3, <1>4, <2>1 DEF InPlayQty
    <3>2. rows'[o].status \in {"open", "partially_filled", "filled"}
      BY <1>4, <1>5, <2>1
    <3> QED
      BY <1>3, <2>1, <3>1, <3>2 DEF InPlayRight
  <2>2. CASE o # cur
    BY <1>1, <1>9, <2>2 DEF Settled
  <2> QED
    BY <2>1, <2>2
<1>11. AckInv'
  <2>1. \A o \in cancelAcked : o \in OrderId /\ o # cur /\ makerFill[o] = 0
    BY <1>3 DEF AckInv, TypeOK
  <2>2. ASSUME NEW o \in OrderId, Settled(o)' PROVE rows'[o].status # "inFlight"
    <3>1. CASE o = cur
      BY <1>4, <1>5, <3>1
    <3>2. CASE o # cur
      <4>1. rows[o].status # "inFlight"
        BY <1>a, <2>2, <3>2 DEF AckInv
      <4>2. rows'[o] = rows[o] \/ rows'[o].status = StatusAfterFill(rows'[o].rem)
        BY <1>4, <3>2
      <4> QED
        BY <4>1, <4>2 DEF StatusAfterFill
    <3> QED
      BY <3>1, <3>2
  <2> QED
    BY <1>1, <1>4, <2>1, <2>2 DEF AckInv
<1>12. CrossInv'
  <2>1. pc' # "matched"
    BY <1>2
  <2> SUFFICES ASSUME NEW b \in OrderId, NEW s \in OrderId,
                      Settled(b)', InPlay(b)', rows[b].side = "buy",
                      Settled(s)', InPlay(s)', rows[s].side = "sell"
               PROVE  rows[b].price < rows[s].price
    BY <1>4, <2>1 DEF CrossInv
  <2>2. \A o \in OrderId \ {cur} : Settled(o)' => Settled(o) /\ o \in acked
    BY <1>1 DEF Settled
  <2>3. rows[b].price \in Nat /\ rows[s].price \in Nat
    BY DEF TypeOK, Row
  <2>4. CASE b # cur /\ s # cur
    BY <1>9, <2>2, <2>4 DEF CrossInv
  \* The taker rests: nothing acknowledged that it could have met is in play.
  <2>5. ASSUME NEW o \in OrderId, o = cur, InPlay(o)' PROVE takerRem > 0
    <3>1. o \in Restorable' => takerRem # 0
      BY <1>3, <1>4, <1>5, <2>5 DEF Restorable, Restable
    <3>2. InPlayQty(o)' = takerRem
      BY <1>1, <1>3, <1>4, <2>5 DEF InPlayQty
    <3> QED
      BY <1>3, <2>5, <3>1, <3>2 DEF InPlay
  <2>6. ASSUME takerRem > 0, NEW m \in OrderId, m # cur, bookRem[m] > 0,
               rows[m].side # rows[cur].side
        PROVE  ~ Crosses(cur, m)
    BY <1>1, <2>6 DEF CrossInv, Opposite, InBook
  <2>7. ASSUME NEW o \in OrderId, o # cur, o \in acked, InPlay(o)' PROVE bookRem[o] > 0
    <3>1. InPlayQty(o)' = bookRem[o]
      BY <1>1, <1>4 DEF InPlayQty
    <3>2. CASE o \in Restorable'
      <4>1. InPlayRight(o)'
        BY <1>9, <2>7, <3>2 DEF InPlay
      <4>2. rows'[o].rem # 0
        BY <1>7, <3>2 DEF RowsInv, Restorable, Restable, NoRow
      <4>3. rows'[o].rem \in Nat
        BY <1>6 DEF TypeOK, Row
      <4> QED
        BY <1>4, <3>1, <4>1, <4>2, <4>3 DEF InPlayRight
    <3>3. CASE o \notin Restorable'
      BY <2>7, <3>1, <3>3 DEF InPlay
    <3> QED
      BY <3>2, <3>3
  <2>8. CASE b = cur /\ s # cur
    <3>1. takerRem > 0
      BY <2>5, <2>8
    <3>2. s \in acked
      BY <2>2, <2>8
    <3>3. bookRem[s] > 0
      BY <2>7, <2>8, <3>2
    <3>4. ~ Crosses(cur, s)
      BY <2>6, <2>8, <3>1, <3>3
    <3> QED
      BY <2>3, <2>8, <3>4 DEF Crosses
  <2>9. CASE s = cur /\ b # cur
    <3>1. takerRem > 0
      BY <2>5, <2>9
    <3>2. b \in acked
      BY <2>2, <2>9
    <3>3. bookRem[b] > 0
      BY <2>7, <2>9, <3>2
    <3>4. ~ Crosses(cur, b)
      BY <2>6, <2>9, <3>1, <3>3
    <3> QED
      BY <2>3, <2>9, <3>4 DEF Crosses
  <2> QED
    BY <2>4, <2>8, <2>9
\* The rows it writes are locked by no other transaction.
<1>13. LateInv'
  <2>1. ASSUME NEW o \in OrderId, Locked(o)
        PROVE  /\ o # cur /\ makerFill[o] = 0 /\ rows'[o] = rows[o]
               /\ o \notin cancelAcked
    <3>1. o \notin Touched
      BY <1>1, <2>1
    <3>2. o # cur /\ makerFill[o] = 0
      BY <1>4, <2>1, <3>1 DEF Touched
    <3> QED
      BY <1>4, <2>1, <3>2, LockedFacts DEF Locked
  <2>2. ASSUME NEW t \in late', NEW o \in OrderId, Updates(t, o)
        PROVE  /\ rows'[o] = rows[o]
               /\ o \notin cancelAcked'
               /\ o = cur' => pc' \in {"recoverSubmit", "closed", "checked"}
    BY <1>1, <2>1, <2>2 DEF Locked
  <2>3. ASSUME NEW t \in late'
        PROVE  /\ ~ Settled(t.taker)'
               /\ BookIsLive' => InPlayQty(t.taker)' >= rows[t.taker].rem
    <3>1. /\ t \in late /\ t.taker \in OrderId /\ Updates(t, t.taker) /\ ~ Settled(t.taker)
          /\ InPlayQty(t.taker) >= rows[t.taker].rem
      BY <1>1, <2>3 DEF LateInv, TypeOK, Transactions, BookIsLive
    <3>2. t.taker # cur /\ makerFill[t.taker] = 0
      BY <2>1, <3>1 DEF Locked
    <3> QED
      BY <1>1, <1>4, <1>a, <3>1, <3>2 DEF InPlayQty
  <2>4. lateCancels' \subseteq (doubted \cap Orders)'
    <3>1. ASSUME NEW o \in lateCancels PROVE o \in doubted /\ o \in Orders'
      <4>1. o \in OrderId /\ o \in doubted /\ rows[o].status \in Statuses
        BY DEF LateInv, TypeOK, Orders
      <4>2. \/ rows'[o] = rows[o] \/ rows'[o].status = StatusAfterFill(rows'[o].rem)
            \/ rows'[o].status = TakerStatus
        BY <1>4, <4>1
      <4> QED
        BY <1>5, <4>1, <4>2 DEF Orders, Statuses, StatusAfterFill
    <3> QED
      BY <1>1, <3>1
  <2> QED
    BY <1>1, <1>3, <2>2, <2>3, <2>4, LateKept
<1> QED
  BY <1>6, <1>7, <1>8, <1>10, <1>11, <1>12, <1>13

\* A transaction on its way keeps what it wrote to itself, and its taker is no
\* acknowledged order.
LEMMA PersistLaterKeeps == ASSUME RuntimeInv, PersistLater PROVE RuntimeInv'
<1> USE RuntimeAssumption
<1> DEFINE n == [taker |-> cur, trades |-> NewTrades, rows |-> UpdatedRows]
<1>1. /\ pc = "matched" /\ pc' = "recoverSubmit" /\ faults' \in 0..MaxFaults
      /\ DropMatch /\ late' = late \cup {n} /\ DeltasFit
      /\ \A o \in Touched : ~ Locked(o)
      /\ "commitLate" \in FaultKinds
      /\ UNCHANGED <<rows, created, trades, lateCancels, bookVars, cur, copy, wireVars,
                     ackVars>>
  BY DEF PersistLater, MatchIsWritten, Fault, RuntimeInv, TypeOK
<1>2. /\ rows' = rows /\ created' = created /\ cancelAcked' = cancelAcked
      /\ acked' = acked /\ doubted' = doubted /\ cur' = cur
  BY <1>1 DEF ackVars
<1>3. /\ cur \in OrderId \ (acked \cup cancelAcked) /\ rows[cur].status = "open"
      /\ cur <= created /\ makerFill[cur] = 0
      /\ \A o \in OrderId : rows[o] \in Row /\ makerFill[o] \in Nat
  BY <1>1 DEF RuntimeInv, CallInv, MatchRunning, TypeOK
<1>4. ASSUME NEW o \in OrderId
      PROVE  /\ UpdatedRows[o] \in Row
             /\ UpdatedRows[o] # NoRow <=> o \in Touched
             /\ o \in Touched =>
                  /\ UpdatedRows[o] = MatchedRows[o]
                  /\ o <= created /\ o \notin cancelAcked /\ ~ Locked(o)
                  /\ o = cur \/ makerFill[o] > 0
  <2>1. UpdatedRows[o] = IF o \in Touched THEN MatchedRows[o] ELSE NoRow
    BY DEF UpdatedRows
  <2>2. MatchedRows[o] \in Row /\ NoRow \in Row
    BY <1>1, MatchedRow DEF NoRow, Row, Sides
  <2>3. o \in Touched => o = cur \/ makerFill[o] > 0
    BY DEF Touched
  <2>4. o \in Touched => o <= created /\ o \notin cancelAcked
    BY <1>1, <1>3, <2>3, MatchedRow DEF RuntimeInv, AckInv
  <2>5. o \in Touched => MatchedRows[o].status # "none"
    BY <1>1, <1>3, <2>3, MatchedRow, TakerStatusFits DEF StatusAfterFill
  <2> QED
    BY <1>1, <2>1, <2>2, <2>3, <2>4, <2>5 DEF NoRow
<1>5. n \in Transactions
  <2>1. UpdatedRows \in [OrderId -> Row]
    BY <1>4 DEF UpdatedRows
  <2>2. NewTrades \subseteq Trades
    BY <1>1, NewTradesFacts
  <2> QED
    BY <1>3, <2>1, <2>2 DEF Transactions
<1>6. /\ TypeOK' /\ RowsInv' /\ CallInv' /\ BookInv' /\ AckInv' /\ CrossInv'
      /\ lateCancels' \subseteq (doubted \cap Orders)' /\ ~ BookIsLive'
      /\ \A o \in OrderId : Settled(o)' <=> o \in acked
      /\ \A t \in late : ~ Settled(t.taker)'
  <2>1. late' \subseteq Transactions
    BY <1>1, <1>5 DEF RuntimeInv, TypeOK
  <2> HIDE DEF n
  <2> QED
    BY <1>1, <2>1, RolledBackKeeps
\* What it makes of the rows it updated.
<1>7. ASSUME NEW o \in OrderId, o \in Touched PROVE LateRow(n, o)
  <2>1. n.rows[o] = MatchedRows[o] /\ n.trades = NewTrades
    BY <1>4, <1>7
  <2> HIDE DEF n
  <2>2. CASE o = cur
    <3>1. /\ MatchedRows[o].rem = takerRem /\ MatchedRows[o].status = TakerStatus
          /\ MatchedRows[o].side = rows[o].side /\ MatchedRows[o].price = rows[o].price
          /\ MatchedRows[o].qty = rows[o].qty
      BY <1>1, <2>2, MatchedRow
    <3>2. fills # <<>> => \E u \in n.trades : u.taker = o
      BY <1>1, <2>1, <2>2, NewTradesFacts
    <3> QED
      BY <1>1, <1>3, <2>1, <2>2, <3>1, <3>2, TakerStatusFits DEF LateRow, Restable
  <2>3. CASE o # cur
    <3>1. makerFill[o] > 0
      BY <1>4, <1>7, <2>3
    <3>2. /\ MatchedRows[o].rem \in Nat /\ MatchedRows[o].rem + makerFill[o] = rows[o].rem
          /\ MatchedRows[o].status = StatusAfterFill(MatchedRows[o].rem)
          /\ MatchedRows[o].side = rows[o].side /\ MatchedRows[o].price = rows[o].price
          /\ MatchedRows[o].qty = rows[o].qty
          /\ o <= created /\ rows[o].status # "inFlight"
          /\ rows[o].status = "cancelled" => o \in doubted
      BY <1>1, <2>3, <3>1, MatchedRow
    <3>3. rows[o].rem > MatchedRows[o].rem /\ rows[o].rem # 0
      BY <1>3, <3>1, <3>2
    <3>4. rows[o].status \in Restable \/ rows[o].status = "cancelled"
      <4>1. /\ rows[o].status \in Statuses \cup {"none", "inFlight"}
            /\ rows[o].status # "filled" /\ rows[o].status # "none"
        BY <1>3, <3>2, <3>3 DEF RuntimeInv, RowsInv, TypeOK, Row, NoRow
      <4> QED
        BY <3>2, <4>1 DEF Statuses, Restable
    <3>5. \E u \in n.trades : u.maker = o
      BY <1>1, <2>1, <3>1, NewTradesFacts
    <3> QED
      BY <2>1, <3>2, <3>3, <3>4, <3>5 DEF LateRow
  <2> QED
    BY <2>2, <2>3
<1>8. ASSUME NEW t \in late', NEW o \in OrderId, Updates(t, o)
      PROVE  /\ o <= created' /\ o \notin cancelAcked' /\ LateRow(t, o)'
  <2>1. o <= created /\ o \notin cancelAcked /\ LateRow(t, o)
    <3>1. CASE t \in late
      BY <1>8, <3>1, LockedFacts
    <3>2. CASE t = n
      <4>1. o \in Touched
        BY <1>4, <1>8, <3>2 DEF Updates
      <4> QED
        BY <1>4, <1>7, <3>2, <4>1
    <3> QED
      BY <1>1, <3>1, <3>2
  <2> QED
    BY <1>2, <2>1 DEF LateRow
<1>9. ASSUME NEW t \in late'
      PROVE  /\ "commitLate" \in FaultKinds
             /\ Updates(t, t.taker)'
             /\ rows'[t.taker].status = "open"
             /\ ~ Settled(t.taker)'
             /\ \A u \in t.trades : u.taker = t.taker /\ Updates(t, u.maker)'
  <2>1. CASE t \in late
    BY <1>1, <1>2, <1>6, <2>1 DEF RuntimeInv, LateInv, Updates
  <2>2. CASE t = n
    <3>1. n.taker = cur /\ n.trades = NewTrades /\ n.rows = UpdatedRows
      OBVIOUS
    <3> HIDE DEF n
    <3>2. \A u \in NewTrades : u.taker = cur /\ u.maker \in OrderId /\ u.maker \in Touched
      BY <1>1, NewTradesFacts DEF Touched
    <3>3. \A u \in NewTrades : u.taker = cur /\ UpdatedRows[u.maker] # NoRow
      BY <1>4, <3>2
    <3>4. UpdatedRows[cur] # NoRow
      BY <1>3, <1>4 DEF Touched
    <3> QED
      BY <1>1, <1>2, <1>3, <1>6, <2>2, <3>1, <3>3, <3>4 DEF Updates
  <2> HIDE DEF n
  <2> QED
    BY <1>1, <2>1, <2>2
<1>10. ASSUME NEW o \in OrderId, NEW t \in late', NEW u \in late', Updates(t, o), Updates(u, o)
       PROVE  t = u
  <2>1. Updates(n, o) => ~ Locked(o)
    BY <1>4 DEF Updates
  <2> HIDE DEF n
  <2>2. CASE t \in late /\ u \in late
    BY <1>10, <2>2 DEF RuntimeInv, LateInv
  <2>3. CASE t \notin late \/ u \notin late
    BY <1>1, <1>10, <2>1, <2>3 DEF Locked
  <2> QED
    BY <2>2, <2>3
<1>11. LateInv'
  BY <1>1, <1>6, <1>8, <1>9, <1>10 DEF LateInv, Updates
<1> QED
  BY <1>6, <1>11 DEF RuntimeInv

\* What a transaction on its way does to the rows and the trades when it lands: the
\* rows it shrinks are rows of trades nobody was told of.
LEMMA LandingFacts ==
  ASSUME RuntimeInv, NEW t \in late, MatchLands(t)
  PROVE  /\ created' = created /\ lateCancels' = lateCancels
         /\ bookRem' = bookRem /\ bookSeq' = bookSeq /\ nextSeq' = nextSeq
         /\ pc' = pc /\ cur' = cur /\ takerRem' = takerRem /\ fills' = fills
         /\ makerFill' = makerFill /\ copy' = copy /\ outbox' = outbox
         /\ stream' = stream /\ acked' = acked /\ cancelAcked' = cancelAcked
         /\ doubted' = doubted /\ faults' = faults /\ late' = late \ {t}
         /\ TypeOK'
         /\ \A o \in OrderId : Settled(o)' <=> Settled(o)
         /\ \A u \in trades' : u \in trades \/ u \in t.trades
         /\ \A o \in OrderId :
              (CommittedUnseen(o) => CommittedUnseen(o)') /\ (Strayed(o) => Strayed(o)')
         /\ \A o \in OrderId :
              /\ rows[o] \in Row /\ rows'[o] \in Row
              /\ \/ rows'[o] = rows[o]
                 \/ /\ Updates(t, o)
                    /\ rows'[o].side = rows[o].side /\ rows'[o].price = rows[o].price
                    /\ rows'[o].qty = rows[o].qty /\ rows'[o].rem < rows[o].rem
                    /\ rows'[o].status = StatusAfterFill(rows'[o].rem)
                    /\ rows[o].status \in Restable
                         \/ (rows[o].status = "cancelled" /\ o \in doubted)
                    /\ CommittedUnseen(o)'
<1> USE DEF RuntimeInv
<1>1. /\ created' = created /\ lateCancels' = lateCancels
      /\ bookRem' = bookRem /\ bookSeq' = bookSeq /\ nextSeq' = nextSeq
      /\ pc' = pc /\ cur' = cur /\ takerRem' = takerRem /\ fills' = fills
      /\ makerFill' = makerFill /\ copy' = copy /\ outbox' = outbox
      /\ stream' = stream /\ acked' = acked /\ cancelAcked' = cancelAcked
      /\ doubted' = doubted /\ faults' = faults /\ late' = late \ {t}
  BY DEF MatchLands, bookVars, callVars, wireVars, ackVars
<1>2. /\ t \in Transactions /\ "commitLate" \in FaultKinds /\ ~ Settled(t.taker)
      /\ \A u \in t.trades : u.taker = t.taker /\ Updates(t, u.maker)
      /\ t.taker \in OrderId /\ t.trades \subseteq Trades
      /\ \A o \in OrderId : t.rows[o] \in Row
  BY DEF LateInv, TypeOK, Transactions
<1>3. \/ /\ rows' = [o \in OrderId |-> IF Updates(t, o) THEN t.rows[o] ELSE rows[o]]
         /\ trades' = trades \cup t.trades
      \/ rows' = rows /\ trades' = trades
  BY DEF MatchLands
<1>4. \A o \in OrderId : rows[o] \in Row
  BY DEF TypeOK
<1>5. rows' \in [OrderId -> Row] /\ trades' \subseteq Trades
  BY <1>2, <1>3, <1>4 DEF TypeOK
<1>6. TypeOK'
  BY <1>1, <1>5 DEF TypeOK
<1>7. \A o \in OrderId : Settled(o)' <=> Settled(o)
  BY <1>1 DEF Settled
<1>8. \A o \in OrderId :
        (CommittedUnseen(o) => CommittedUnseen(o)') /\ (Strayed(o) => Strayed(o)')
  <2>1. \A u \in trades : u.taker \in OrderId
    BY DEF TypeOK, Trades
  <2>2. trades \subseteq trades' /\ doubted \subseteq doubted'
    BY <1>1, <1>3
  <2> QED
    BY <1>7, <2>1, <2>2, UnseenStays
<1>9. ASSUME NEW o \in OrderId, rows'[o] # rows[o]
      PROVE  /\ Updates(t, o)
             /\ rows'[o].side = rows[o].side /\ rows'[o].price = rows[o].price
             /\ rows'[o].qty = rows[o].qty /\ rows'[o].rem < rows[o].rem
             /\ rows'[o].status = StatusAfterFill(rows'[o].rem)
             /\ rows[o].status \in Restable
                  \/ (rows[o].status = "cancelled" /\ o \in doubted)
             /\ CommittedUnseen(o)'
  <2>1. Updates(t, o) /\ rows'[o] = t.rows[o] /\ trades' = trades \cup t.trades
    BY <1>3, <1>9
  <2>2. LateRow(t, o)
    BY <2>1, LockedFacts
  <2>3. ~ (t.rows[o].rem = rows[o].rem /\ t.rows[o].status = rows[o].status)
    <3>1. ASSUME t.rows[o].rem = rows[o].rem, t.rows[o].status = rows[o].status
          PROVE  t.rows[o] = rows[o]
      BY <1>2, <1>4, <2>2, <3>1 DEF LateRow, Row
    <3> QED
      BY <1>9, <2>1, <3>1
  <2>4. PICK u \in t.trades : o \in {u.taker, u.maker}
    BY <2>2, <2>3 DEF LateRow
  <2>5. u \in trades' /\ ~ Settled(u.taker)'
    BY <1>2, <1>7, <2>1, <2>4
  <2>6. CommittedUnseen(o)'
    BY <1>2, <2>4, <2>5 DEF CommittedUnseen
  <2> QED
    BY <2>1, <2>2, <2>3, <2>6 DEF LateRow
<1>10. \A u \in trades' : u \in trades \/ u \in t.trades
  BY <1>3
<1>11. ASSUME NEW o \in OrderId PROVE rows[o] \in Row /\ rows'[o] \in Row
  BY <1>4, <1>5
<1> QED
  BY <1>1, <1>6, <1>7, <1>8, <1>9, <1>10, <1>11

LEMMA MatchLandsKeeps ==
  ASSUME RuntimeInv, NEW t \in late, MatchLands(t) PROVE RuntimeInv'
<1> USE DEF RuntimeInv
<1>1. /\ created' = created /\ lateCancels' = lateCancels
      /\ bookRem' = bookRem /\ pc' = pc /\ cur' = cur /\ takerRem' = takerRem
      /\ fills' = fills /\ makerFill' = makerFill /\ acked' = acked
      /\ cancelAcked' = cancelAcked /\ doubted' = doubted /\ late' = late \ {t}
      /\ TypeOK' /\ created \in Nat
  BY LandingFacts DEF TypeOK
<1>2. \A o \in OrderId :
        /\ Settled(o)' <=> Settled(o)
        /\ CommittedUnseen(o) => CommittedUnseen(o)'
        /\ Strayed(o) => Strayed(o)'
        /\ InPlayQty(o)' = InPlayQty(o)
  BY <1>1, LandingFacts DEF InPlayQty
<1>3. ASSUME NEW o \in OrderId
      PROVE  /\ rows[o] \in Row /\ rows'[o] \in Row
             /\ rows'[o].side = rows[o].side /\ rows'[o].price = rows[o].price
             /\ rows'[o].qty = rows[o].qty
             /\ rows[o].rem \in Nat /\ rows'[o].rem \in Nat
             /\ \/ rows'[o] = rows[o]
                \/ /\ Updates(t, o) /\ rows'[o].rem < rows[o].rem
                   /\ rows'[o].status = StatusAfterFill(rows'[o].rem)
                   /\ rows[o].status \in Restable
                        \/ (rows[o].status = "cancelled" /\ o \in doubted)
                   /\ CommittedUnseen(o)'
                   /\ o <= created /\ o \notin cancelAcked
                   /\ o = cur => pc \in {"recoverSubmit", "closed", "checked"}
  BY LandingFacts, LockedFacts DEF Row
<1>4. RowsInv'
  <2>1. \A u \in trades' : u.taker <= created'
    <3>1. \A u \in t.trades : u.taker = t.taker /\ Updates(t, t.taker) /\ t.taker \in OrderId
      BY DEF LateInv, TypeOK, Transactions
    <3>2. \A u \in t.trades : u.taker <= created
      BY <3>1, LockedFacts
    <3> QED
      BY <1>1, <3>2, LandingFacts DEF RowsInv
  <2>2. ASSUME NEW o \in OrderId, rows'[o] # rows[o]
        PROVE  /\ ~ o > created /\ rows'[o].status # "none" /\ rows'[o].qty > 0
               /\ rows'[o].rem < rows'[o].qty
               /\ rows'[o].status = "filled" <=> rows'[o].rem = 0
               /\ rows'[o].status \in {"filled", "partially_filled"}
    <3>1. ~ o > created /\ rows[o].qty > 0 /\ rows[o].rem <= rows[o].qty
          /\ rows[o].qty \in Nat
      BY <1>1, <1>3, <2>2 DEF RowsInv, OrderId, Row
    <3> QED
      BY <1>3, <2>2, <3>1 DEF StatusAfterFill
  <2> SUFFICES ASSUME NEW o \in OrderId
               PROVE  (IF o > created THEN rows[o] = NoRow
                       ELSE /\ rows[o].status # "none"
                            /\ rows[o].qty > 0
                            /\ rows[o].rem <= rows[o].qty
                            /\ rows[o].status = "filled" <=> rows[o].rem = 0
                            /\ rows[o].status \in {"open", "inFlight"} =>
                                 rows[o].rem = rows[o].qty
                            /\ rows[o].status = "partially_filled" =>
                                 rows[o].rem < rows[o].qty)'
    BY <2>1 DEF RowsInv
  <2>3. CASE rows'[o] = rows[o]
    BY <1>1, <2>3 DEF RowsInv
  <2>4. CASE rows'[o] # rows[o]
    <3>1. rows'[o].rem \in Nat /\ rows'[o].qty \in Nat
      BY <1>3 DEF Row
    <3> QED
      BY <1>1, <2>2, <2>4, <3>1
  <2> QED
    BY <2>3, <2>4
<1>5. CallInv'
  <2>1. \A o \in OrderId : rows'[o] # rows[o] =>
          /\ rows'[o].status \in Statuses
          /\ o = cur => pc \in {"recoverSubmit", "closed", "checked"}
    BY <1>3 DEF StatusAfterFill, Statuses
  <2>2. pc = "checked" => cur \in Orders'
    BY <2>1 DEF CallInv, Orders
  <2>3. MatchRunning => \A u \in trades' : u.taker # cur
    <3>1. MatchRunning => \A u \in t.trades : u.taker # cur
      <4>1. Updates(t, t.taker) /\ t.taker \in OrderId /\ \A u \in t.trades : u.taker = t.taker
        BY DEF LateInv, TypeOK, Transactions
      <4> QED
        BY <4>1, LockedFacts DEF MatchRunning
    <3> QED
      BY <3>1, LandingFacts DEF CallInv
  <2>4. MatchRunning => cur \in OrderId /\ rows'[cur] = rows[cur]
    BY <2>1 DEF CallInv, MatchRunning
  <2>5. pc \in {"cancelling", "recoverCancel", "cancelled"} =>
          cur \in OrderId /\ rows'[cur].status = "cancelled"
    BY <2>1 DEF CallInv
  <2> QED
    BY <1>1, <2>2, <2>3, <2>4, <2>5 DEF CallInv, MatchRunning
<1>6. BookInv'
  <2> SUFFICES ASSUME BookIsLive, NEW o \in OrderId, MatchRunning => o # cur
               PROVE  /\ InPlayQty(o) > 0 =>
                           /\ o <= created /\ rows'[o].status # "inFlight"
                           /\ InPlayRight(o)'
                           /\ rows'[o].status = "cancelled" =>
                                o \in doubted \/ (pc = "cancelling" /\ o = cur)
                      /\ Settled(o) /\ o \in Restorable' /\ ~ Strayed(o)' =>
                           InPlayRight(o)'
    BY <1>1, <1>2 DEF BookInv, BookIsLive, MatchRunning
  <2>1. /\ InPlayQty(o) > 0 =>
             /\ o <= created /\ rows[o].status # "inFlight" /\ InPlayRight(o)
             /\ rows[o].status = "cancelled" =>
                  o \in doubted \/ (pc = "cancelling" /\ o = cur)
        /\ Settled(o) /\ o \in Restorable /\ ~ Strayed(o) => InPlayRight(o)
    BY DEF BookInv
  <2>2. CASE rows'[o] = rows[o]
    <3>1. InPlayRight(o) => InPlayRight(o)'
      BY <1>2, <2>2 DEF InPlayRight
    <3> QED
      BY <1>2, <2>1, <2>2, <3>1 DEF Restorable
  \* Less is left of it than the book has, by a trade nobody was told of.
  <2>3. CASE rows'[o] # rows[o]
    <3>1. /\ rows'[o].rem < rows[o].rem /\ CommittedUnseen(o)'
          /\ rows'[o].status \in {"filled", "partially_filled"} /\ o <= created
          /\ rows[o].status \in Restable \/ o \in doubted
      BY <1>3, <2>3 DEF StatusAfterFill
    <3>2. InPlayRight(o) => InPlayRight(o)'
      <4>1. InPlayQty(o) \in Nat
        BY DEF InPlayQty, TypeOK
      <4> QED
        BY <1>2, <1>3, <3>1, <4>1 DEF InPlayRight
    <3>3. CASE o \in doubted
      BY <1>1, <2>1, <3>1, <3>2, <3>3 DEF Strayed
    <3>4. CASE rows[o].status \in Restable
      BY <1>2, <2>1, <3>1, <3>2, <3>4 DEF Restorable
    <3> QED
      BY <3>1, <3>3, <3>4
  <2> QED
    BY <2>2, <2>3
<1>7. AckInv'
  BY <1>1, <1>2, <1>3 DEF AckInv, StatusAfterFill, TypeOK
<1>8. CrossInv'
  <2>1. ASSUME NEW o \in OrderId, InPlay(o)' PROVE InPlay(o)
    <3>1. CASE o \in Restorable
      BY <1>2, <2>1, <3>1 DEF InPlay
    <3>2. CASE o \notin Restorable /\ o \in Restorable'
      <4>1. o \in doubted /\ CommittedUnseen(o)'
        BY <1>3, <3>2 DEF Restorable
      <4> QED
        BY <1>1, <2>1, <4>1 DEF InPlay, Strayed
    <3>3. CASE o \notin Restorable'
      BY <1>1, <1>2, <2>1, <3>3 DEF InPlay, BookIsLive
    <3> QED
      BY <3>1, <3>2, <3>3
  <2>2. /\ pc = "matched" /\ takerRem > 0 =>
             \A m \in Opposite(cur) : ~ Crosses(cur, m)
        /\ \A b, s \in OrderId :
             /\ Settled(b) /\ InPlay(b) /\ rows[b].side = "buy"
             /\ Settled(s) /\ InPlay(s) /\ rows[s].side = "sell"
             => rows[b].price < rows[s].price
    BY DEF CrossInv
  <2>3. pc = "matched" => cur \in OrderId
    BY DEF CallInv, MatchRunning
  <2>4. ASSUME pc = "matched", takerRem > 0, NEW m \in Opposite(cur)'
        PROVE  ~ Crosses(cur, m)'
    <3>1. m \in OrderId /\ m \in Opposite(cur)
      BY <1>1, <1>3, <2>3, <2>4 DEF Opposite, InBook
    <3> QED
      BY <1>1, <1>3, <2>2, <2>3, <2>4, <3>1 DEF Crosses
  <2>5. ASSUME NEW b \in OrderId, NEW s \in OrderId,
               Settled(b)', InPlay(b)', rows'[b].side = "buy",
               Settled(s)', InPlay(s)', rows'[s].side = "sell"
        PROVE  rows'[b].price < rows'[s].price
    BY <1>2, <1>3, <2>1, <2>2, <2>5
  <2> QED
    BY <1>1, <2>4, <2>5 DEF CrossInv
<1>9. LateInv'
  <2>1. ASSUME NEW u \in late', NEW o \in OrderId, Updates(u, o)
        PROVE  /\ rows'[o] = rows[o] /\ o \notin cancelAcked'
               /\ o = cur' => pc' \in {"recoverSubmit", "closed", "checked"}
    <3>1. u \in late /\ u # t
      BY <1>1
    <3>2. ~ Updates(t, o)
      BY <2>1, <3>1 DEF LateInv
    <3> QED
      BY <1>1, <1>3, <2>1, <3>1, <3>2, LockedFacts
  <2>2. ASSUME NEW u \in late'
        PROVE  /\ ~ Settled(u.taker)'
               /\ BookIsLive' => InPlayQty(u.taker)' >= rows[u.taker].rem
    BY <1>1, <1>2, <2>2 DEF LateInv, TypeOK, Transactions, BookIsLive
  <2>3. lateCancels' \subseteq (doubted \cap Orders)'
    BY <1>1, <1>3 DEF LateInv, Orders, StatusAfterFill, Statuses
  <2>4. late' \subseteq late /\ doubted \subseteq doubted'
    BY <1>1
  <2> QED
    BY <1>1, <2>1, <2>2, <2>3, <2>4, LateKept
<1> QED
  BY <1>1, <1>4, <1>5, <1>6, <1>7, <1>8, <1>9

----------------------------------------------------------------------------
(* The theorems *)

\* Every step of the runtime, faults included, keeps the inductive invariant.
LEMMA StepKeeps ==
  ASSUME RuntimeInv, [Next]_vars PROVE RuntimeInv'
<1>1. CASE Requests
  BY <1>1, SubmitOrderKeeps, ReadForCancelKeeps DEF Requests
<1>2. CASE Work
  BY <1>2, PublishEventKeeps, MatchStepKeeps, MatchDoneKeeps,
     PersistMatchResultKeeps, PersistLaterKeeps, PersistFailsKeeps, AnswerSubmitKeeps,
     CancelOrderKeeps, CancelFailsKeeps, CancelInBookKeeps, AnswerCancelKeeps,
     RecoverBookKeeps, FailClosedKeeps
     DEF Work
<1>6. CASE Landings
  BY <1>6, InsertLandsKeeps, CancelLandsKeeps, MatchLandsKeeps DEF Landings
<1>3. CASE Crash
  BY <1>3, CrashKeeps
<1>4. CASE Restart
  BY <1>4, RestartKeeps
<1>5. CASE UNCHANGED vars
  BY <1>5, StutterKeeps
<1> QED
  BY <1>1, <1>2, <1>3, <1>4, <1>5, <1>6 DEF Next

\* The invariant every other theorem follows from: whatever fails and whenever
\* the process stops, rows, book, match and answers stay consistent in the ways
\* its parts say.
THEOREM RuntimeInvariant == Spec => []RuntimeInv
<1>1. Init => RuntimeInv
  BY InitEstablishes
<1>2. RuntimeInv /\ [Next]_vars => RuntimeInv'
  BY StepKeeps
<1> QED
  BY <1>1, <1>2, PTL DEF Spec

\* Every variable keeps to its type, in every behaviour.
THEOREM TypeCorrect == Spec => []TypeOK
<1>1. RuntimeInv => TypeOK
  BY DEF RuntimeInv
<1> QED
  BY <1>1, RuntimeInvariant, PTL

\* An order's status and its remaining quantity never contradict each other.
THEOREM StatusesMatch == Spec => []StatusMatchesRemaining
<1>1. RuntimeInv => StatusMatchesRemaining
  BY DEF RuntimeInv, RowsInv, StatusMatchesRemaining, Orders, NoRow, Statuses
<1> QED
  BY <1>1, RuntimeInvariant, PTL

\* The table can be rebuilt from at any time: no start and no recovery is ever
\* refused because of what a row says (rebuild.go:71).
THEOREM StartNeverBlocked == Spec => []CanRebuild
<1>1. RuntimeInv => CanRebuild
  <2> SUFFICES ASSUME RuntimeInv, NEW o \in Restorable PROVE rows[o].rem > 0
    BY DEF CanRebuild
  <2>1. o \in OrderId /\ rows[o].rem \in Nat /\ rows[o].status \in Restable
    BY DEF RuntimeInv, TypeOK, Row, Restorable
  <2>2. rows[o].rem # 0
    BY <2>1 DEF RuntimeInv, RowsInv, NoRow, Restable
  <2> QED
    BY <2>1, <2>2
<1> QED
  BY <1>1, RuntimeInvariant, PTL

\* The maker updates of a match find less in a row than the match took (store.go:428)
\* only where a commit that was answered with an error has shrunk the row unseen.
THEOREM MatchesFitRows == Spec => []MatchFitsRows
<1>1. RuntimeInv => MatchFitsRows
  BY MatchFits DEF MatchFitsRows
<1> QED
  BY <1>1, RuntimeInvariant, PTL

\* Orders answered 201 never stand crossed in the table, whatever failed.
THEOREM AckedNeverCross == Spec => []AckedOrdersNeverCross
<1>1. RuntimeInv => AckedOrdersNeverCross
  BY DEF RuntimeInv, CrossInv, AckedOrdersNeverCross, Promised, Settled, InPlay, Restorable
<1> QED
  BY <1>1, RuntimeInvariant, PTL

\* The only steps that write a row or a trade are an insert, a cancel and a
\* committed match, and a match touches only the taker and orders it filled; one that
\* lands late holds the locks of its rows, so that no cancel of them was answered.
LEMMA AckedCancelUntouched ==
  ASSUME RuntimeInv, [Next]_vars, NEW o \in cancelAcked
  PROVE  /\ rows'[o] = rows[o]
         /\ \A t \in trades' \ trades : o \notin {t.maker, t.taker}
<1>0. /\ o \in OrderId /\ rows[o].status = "cancelled" /\ makerFill[o] = 0
      /\ rows \in [OrderId -> Row] /\ created \in Nat
  BY RuntimeAssumption DEF RuntimeInv, TypeOK, AckInv
<1>1. CASE rows' = rows /\ trades' = trades
  BY <1>1
\* A row, and only one, is inserted, lands or is cancelled.
<1>2. ASSUME NEW c \in OrderId, NEW r, c # o, rows' = [rows EXCEPT ![c] = r],
             trades' = trades
      PROVE  rows'[o] = rows[o] /\ trades' = trades
  BY <1>0, <1>2
<1>3. ASSUME NEW s \in Sides, NEW p \in Prices, NEW q \in Quantities,
             SubmitOrder(s, p, q)
      PROVE  rows'[o] = rows[o] /\ trades' = trades
  <2> DEFINE new(st) == [side |-> s, price |-> p, qty |-> q, rem |-> q, status |-> st]
  <2>1. PICK st \in {"open", "inFlight"} :
          rows' = [rows EXCEPT ![created + 1] = new(st)] /\ trades' = trades
    BY <1>3 DEF SubmitOrder, Insert
  <2>2. o # created + 1 /\ created + 1 \in OrderId
    BY <1>0, <1>3, RuntimeAssumption DEF RuntimeInv, RowsInv, NoRow, SubmitOrder, OrderId
  <2> HIDE DEF new
  <2> QED
    BY <1>2, <2>1, <2>2
<1>8. ASSUME NEW c \in OrderId, InsertLands(c) \/ CancelLands(c) \/ (c = cur /\ CancelOrder)
      PROVE  rows'[o] = rows[o] /\ trades' = trades
  <2>1. c # o
    BY <1>0, <1>8 DEF InsertLands, CancelLands, CancelOrder, Restable
  <2>2. PICK st \in {"open", "cancelled"} :
          rows' = [rows EXCEPT ![c].status = st] /\ trades' = trades
    BY <1>8 DEF InsertLands, CancelLands, CancelOrder
  <2> QED
    BY <1>0, <2>1, <2>2
<1>4. CASE PersistMatchResult
  <2>1. /\ pc = "matched" /\ rows' = MatchedRows /\ DeltasFit
        /\ trades' = trades \cup NewTrades
    BY <1>4 DEF PersistMatchResult, MatchIsWritten
  <2>2. o # cur
    BY <2>1 DEF RuntimeInv, CallInv, MatchRunning
  <2>3. rows'[o] = rows[o]
    BY <1>0, <2>1, <2>2, MatchedRow
  <2>4. \A u \in NewTrades : o \notin {u.maker, u.taker}
    BY <1>0, <2>1, <2>2, NewTradesFacts
  <2> QED
    BY <2>1, <2>3, <2>4
<1>9. ASSUME NEW t \in late, MatchLands(t)
      PROVE  /\ rows'[o] = rows[o]
             /\ \A u \in trades' \ trades : o \notin {u.maker, u.taker}
  <2>1. ~ Updates(t, o)
    BY <1>0, LockedFacts
  <2>2. rows'[o] = rows[o]
    BY <1>0, <1>9, <2>1, LandingFacts
  <2>3. \A u \in t.trades : Updates(t, u.maker) /\ Updates(t, u.taker)
    BY DEF RuntimeInv, LateInv
  <2> QED
    BY <1>9, <2>1, <2>2, <2>3, LandingFacts
<1>5. CASE PublishEvent \/ MatchStep \/ MatchDone \/ PersistFails \/ AnswerSubmit
           \/ CancelInBook \/ AnswerCancel \/ PersistLater \/ CancelFails
  BY <1>1, <1>5 DEF PublishEvent, MatchStep, MatchDone, PersistFails, AnswerSubmit,
     CancelInBook, AnswerCancel, PersistLater, CancelFails, storeVars
<1>6. CASE RecoverBook \/ FailClosed \/ Crash \/ Restart
             \/ \E c \in OrderId : ReadForCancel(c)
  BY <1>1, <1>6 DEF RecoverBook, FailClosed, Crash, Restart, ReadForCancel, storeVars
<1>7. CASE UNCHANGED vars
  BY <1>1, <1>7 DEF vars, storeVars
<1>10. CASE CancelOrder
  <2>1. cur \in OrderId
    BY <1>10 DEF CancelOrder, RuntimeInv, CallInv, Orders
  <2> QED
    BY <1>8, <1>10, <2>1
<1>11. CASE Landings
  <2>1. lateCancels \subseteq OrderId
    BY DEF RuntimeInv, TypeOK
  <2> QED
    BY <1>8, <1>9, <1>11, <2>1 DEF Landings
<1> QED
  BY <1>3, <1>4, <1>5, <1>6, <1>7, <1>10, <1>11 DEF Next, Requests, Work

\* Nothing touches an order any more once its cancel was answered 200.
THEOREM CancelsAreFinal == Spec => AckedCancelIsFinal
<1> DEFINE Untouched ==
      \A o \in cancelAcked :
        /\ rows'[o] = rows[o]
        /\ \A t \in trades' \ trades : o \notin {t.maker, t.taker}
<1>1. RuntimeInv /\ [Next]_vars => Untouched
  BY AckedCancelUntouched
<1>2. RuntimeInv /\ [Next]_vars => [Untouched]_vars
  BY <1>1
<1> QED
  BY <1>2, RuntimeInvariant, PTL DEF Spec, AckedCancelIsFinal

----------------------------------------------------------------------------
(* What a step does to a row, to the answers and to what is in play *)

\* The steps that write a row that is there: an INSERT or a cancel lands, a cancel is
\* executed, a match is committed.  None changes what was ordered.
LEMMA RowChanges ==
  ASSUME RuntimeInv, [Next]_vars, NEW o \in OrderId, o <= created
  PROVE  /\ rows'[o].side = rows[o].side /\ rows'[o].price = rows[o].price
         /\ rows'[o].qty = rows[o].qty
         /\ \/ rows'[o] = rows[o]
            \/ /\ rows[o].status = "inFlight" /\ rows'[o].status = "open"
               /\ rows'[o].rem = rows[o].rem
               /\ InsertLands(o)
            \/ /\ rows[o].status \in Restable /\ rows'[o].status = "cancelled"
               /\ rows'[o].rem = rows[o].rem
               /\ ~ Locked(o)
               /\ (CancelOrder /\ o = cur) \/ (CancelLands(o) /\ o \in lateCancels)
            \/ PersistMatchResult /\ o \in Touched
            \/ \E t \in late : MatchLands(t) /\ Updates(t, o)
<1>1. rows \in [OrderId -> Row] /\ created \in Nat /\ o \in Nat
  BY RuntimeAssumption DEF RuntimeInv, TypeOK, OrderId
<1>2. CASE rows' = rows
  BY <1>2
<1>3. ASSUME NEW s \in Sides, NEW p \in Prices, NEW q \in Quantities,
             SubmitOrder(s, p, q)
      PROVE  rows'[o] = rows[o]
  <2> DEFINE new(st) == [side |-> s, price |-> p, qty |-> q, rem |-> q, status |-> st]
  <2>1. PICK st \in {"open", "inFlight"} : rows' = [rows EXCEPT ![created + 1] = new(st)]
    BY <1>3 DEF SubmitOrder, Insert
  <2> HIDE DEF new
  <2> QED
    BY <1>1, <2>1
<1>4. ASSUME NEW c \in OrderId, NEW st, rows' = [rows EXCEPT ![c].status = st]
      PROVE  /\ c # o => rows'[o] = rows[o]
             /\ c = o => /\ rows'[o].side = rows[o].side /\ rows'[o].price = rows[o].price
                         /\ rows'[o].qty = rows[o].qty /\ rows'[o].rem = rows[o].rem
                         /\ rows'[o].status = st
  BY <1>1, <1>4 DEF Row
<1>5. ASSUME NEW c \in OrderId, InsertLands(c)
      PROVE  /\ rows' = [rows EXCEPT ![c].status = "open"] /\ rows[c].status = "inFlight"
  BY <1>5 DEF InsertLands
<1>6. ASSUME NEW c \in lateCancels, CancelLands(c)
      PROVE  /\ rows' = [rows EXCEPT ![c].status = "cancelled"]
             /\ rows[c].status \in Restable /\ ~ Locked(c) /\ c \in OrderId
  BY <1>6 DEF CancelLands, RuntimeInv, TypeOK
<1>7. CASE CancelOrder
  <2>1. /\ rows' = [rows EXCEPT ![cur].status = "cancelled"]
        /\ rows[cur].status \in Restable /\ ~ Locked(cur) /\ cur \in OrderId
    BY <1>7 DEF CancelOrder, RuntimeInv, CallInv, Orders
  <2> QED
    BY <1>4, <1>7, <2>1
<1>8. CASE PersistMatchResult
  <2>1. rows' = MatchedRows /\ pc = "matched" /\ DeltasFit
    BY <1>8 DEF PersistMatchResult, MatchIsWritten
  <2>2. o \notin Touched => o # cur /\ makerFill[o] = 0
    BY DEF Touched, RuntimeInv, TypeOK
  <2> QED
    BY <1>8, <2>1, <2>2, MatchedRow
<1>9. ASSUME NEW t \in late, MatchLands(t)
      PROVE  /\ rows'[o].side = rows[o].side /\ rows'[o].price = rows[o].price
             /\ rows'[o].qty = rows[o].qty
             /\ rows'[o] = rows[o] \/ Updates(t, o)
  BY <1>9, LandingFacts
<1>10. CASE PublishEvent \/ MatchStep \/ MatchDone \/ PersistFails \/ AnswerSubmit
             \/ CancelInBook \/ AnswerCancel \/ PersistLater \/ CancelFails
  BY <1>2, <1>10 DEF PublishEvent, MatchStep, MatchDone, PersistFails, AnswerSubmit,
     CancelInBook, AnswerCancel, PersistLater, CancelFails, storeVars
<1>11. CASE RecoverBook \/ FailClosed \/ Crash \/ Restart
             \/ \E c \in OrderId : ReadForCancel(c)
  BY <1>2, <1>11 DEF RecoverBook, FailClosed, Crash, Restart, ReadForCancel, storeVars
<1>12. CASE UNCHANGED vars
  BY <1>2, <1>12 DEF vars, storeVars
<1>13. CASE Landings
  BY <1>4, <1>5, <1>6, <1>9, <1>13 DEF Landings
<1>14. CASE Requests
  BY <1>3, <1>11, <1>14 DEF Requests
<1>15. CASE Work
  BY <1>7, <1>8, <1>10, <1>11, <1>15 DEF Work
<1> QED
  BY <1>11, <1>12, <1>13, <1>14, <1>15 DEF Next

\* Nothing is taken out of the tables, and no order becomes an acknowledged one but
\* the taker of a match that was committed.
LEMMA AnswersOnlyGrow ==
  ASSUME RuntimeInv, [Next]_vars
  PROVE  /\ created <= created' /\ trades \subseteq trades' /\ doubted \subseteq doubted'
         /\ \A o \in OrderId : Settled(o)' =>
              Settled(o) \/ (PersistMatchResult /\ o = cur)
         /\ \A t \in trades : Settled(t.taker)' => Settled(t.taker)
<1>1. created \in Nat /\ \A t \in trades : t.taker \in OrderId
  BY DEF RuntimeInv, TypeOK, Trades
<1>2. ASSUME NEW s \in Sides, NEW p \in Prices, NEW q \in Quantities,
             SubmitOrder(s, p, q)
      PROVE  /\ created <= created' /\ trades' = trades /\ doubted' = doubted
             /\ \A o \in OrderId : Settled(o)' => Settled(o)
  BY <1>1, <1>2 DEF SubmitOrder, Insert, ackVars, Settled
<1>3. CASE PublishEvent \/ MatchStep \/ MatchDone \/ PersistFails \/ AnswerSubmit
            \/ CancelInBook \/ AnswerCancel
  <2>1. trades' = trades /\ created' = created /\ doubted' = doubted
    BY <1>3 DEF PublishEvent, MatchStep, MatchDone, PersistFails, AnswerSubmit,
       CancelInBook, AnswerCancel, storeVars, ackVars
  <2>2. \A o \in OrderId : Settled(o)' => Settled(o)
    BY <1>3 DEF PublishEvent, MatchStep, MatchDone, PersistFails, AnswerSubmit,
       CancelInBook, AnswerCancel, ackVars, callVars, Release, Settled
  <2> QED
    BY <1>1, <2>1, <2>2
<1>4. CASE PersistLater \/ CancelFails \/ CancelOrder \/ RecoverBook \/ FailClosed
  <2>1. trades' = trades /\ created' = created /\ doubted \subseteq doubted'
    BY <1>4 DEF PersistLater, CancelFails, CancelOrder, RecoverBook, FailClosed,
       storeVars, ackVars
  <2>2. \A o \in OrderId : Settled(o)' => Settled(o)
    BY <1>4 DEF PersistLater, CancelFails, CancelOrder, RecoverBook, FailClosed,
       ackVars, callVars, Release, Settled
  <2> QED
    BY <1>1, <2>1, <2>2
<1>5. CASE PersistMatchResult
  <2>1. /\ trades \subseteq trades' /\ created' = created /\ doubted' = doubted
        /\ acked' = acked /\ cur' = cur /\ pc = "matched"
    BY <1>5 DEF PersistMatchResult, MatchIsWritten, ackVars
  <2>2. \A t \in trades : t.taker # cur
    BY <2>1 DEF RuntimeInv, CallInv, MatchRunning
  <2> QED
    BY <1>1, <1>5, <2>1, <2>2 DEF Settled
<1>6. CASE Crash \/ Restart \/ \E c \in OrderId : ReadForCancel(c)
  <2>1. trades' = trades /\ created' = created /\ doubted' = doubted
    BY <1>6 DEF Crash, Restart, ReadForCancel, storeVars, ackVars
  <2>2. \A o \in OrderId : Settled(o)' => Settled(o)
    BY <1>6 DEF Crash, Restart, ReadForCancel, ackVars, Settled
  <2> QED
    BY <1>1, <2>1, <2>2
<1>7. CASE Landings
  <2>1. /\ trades \subseteq trades' /\ created' = created /\ doubted' = doubted
        /\ acked' = acked /\ pc' = pc /\ cur' = cur
    BY <1>7 DEF Landings, InsertLands, CancelLands, MatchLands, callVars, ackVars
  <2> QED
    BY <1>1, <2>1 DEF Settled
<1>8. CASE UNCHANGED vars
  BY <1>1, <1>8 DEF vars, storeVars, callVars, ackVars, Settled
<1> QED
  BY <1>1, <1>2, <1>3, <1>4, <1>5, <1>6, <1>7, <1>8 DEF Next, Requests, Work

LEMMA StrayedStays ==
  ASSUME RuntimeInv, [Next]_vars, NEW o
  PROVE  /\ CommittedUnseen(o) => CommittedUnseen(o)'
         /\ Strayed(o) => Strayed(o)'
BY AnswersOnlyGrow, UnseenStays

\* Nothing comes into the book but the rest of a taker, and what a rebuild reads.
LEMMA BookOnlyShrinks ==
  ASSUME RuntimeInv, [Next]_vars, NEW o \in OrderId, BookIsLive', InPlayQty(o)' > 0
  PROVE  \/ BookIsLive /\ InPlayQty(o) > 0
         \/ o \in Restorable
         \/ MatchRunning /\ o = cur
<1>1. /\ bookRem \in [OrderId -> Nat] /\ makerFill \in [OrderId -> Nat] /\ takerRem \in Nat
      /\ InPlayQty(o) \in Nat
  BY DEF RuntimeInv, TypeOK, InPlayQty
<1>2. CASE bookRem' = bookRem /\ makerFill' = makerFill /\ (BookIsLive' => BookIsLive)
  BY <1>2 DEF InPlayQty
<1>3. ASSUME NEW s \in Sides, NEW p \in Prices, NEW q \in Quantities, SubmitOrder(s, p, q)
      PROVE  bookRem' = bookRem /\ makerFill' = makerFill /\ BookIsLive
  BY <1>3 DEF SubmitOrder, bookVars, callVars, BookIsLive
<1>4. CASE PublishEvent \/ AnswerSubmit \/ AnswerCancel \/ CancelOrder \/ CancelFails
            \/ FailClosed \/ Landings \/ \E c \in OrderId : ReadForCancel(c)
  BY <1>2, <1>4 DEF PublishEvent, AnswerSubmit, AnswerCancel, CancelOrder, CancelFails,
     FailClosed, Landings, InsertLands, CancelLands, MatchLands, ReadForCancel, Release,
     bookVars, callVars, matchVars, BookIsLive
<1>5. CASE MatchStep
  <2>1. PICK m \in OrderId :
          /\ bookRem' = [bookRem EXCEPT ![m] = @ - FillQty(m)]
          /\ makerFill' = [makerFill EXCEPT ![m] = @ + FillQty(m)]
    BY <1>5 DEF MatchStep
  <2>2. BookIsLive /\ FillQty(m) \in Nat
    BY <1>1, <1>5 DEF MatchStep, BookIsLive, FillQty
  <2>3. InPlayQty(o)' = InPlayQty(o)
    BY <1>1, <2>1, <2>2 DEF InPlayQty
  <2> QED
    BY <2>2, <2>3
<1>6. CASE MatchDone
  <2>1. /\ makerFill' = makerFill /\ BookIsLive /\ MatchRunning
        /\ bookRem' = bookRem \/ bookRem' = [bookRem EXCEPT ![cur] = takerRem]
    BY <1>6 DEF MatchDone, Rest, bookVars, callVars, BookIsLive, MatchRunning
  <2> QED
    BY <1>1, <2>1 DEF InPlayQty
<1>7. CASE PersistMatchResult
  <2>1. bookRem' = bookRem /\ makerFill'[o] = 0 /\ BookIsLive
    BY <1>7, DropMatchType DEF PersistMatchResult, MatchIsWritten, bookVars, BookIsLive
  <2> QED
    BY <1>1, <2>1 DEF InPlayQty
<1>8. CASE PersistLater \/ PersistFails \/ Crash
  BY <1>8 DEF PersistLater, PersistFails, Crash, BookIsLive
<1>9. CASE CancelInBook
  <2>1. /\ makerFill' = makerFill /\ BookIsLive
        /\ bookRem' = bookRem \/ bookRem' = [bookRem EXCEPT ![cur] = 0]
    BY <1>9 DEF CancelInBook, callVars, BookIsLive
  <2> QED
    BY <1>1, <2>1 DEF InPlayQty
<1>10. CASE RecoverBook \/ Restart
  <2>1. /\ bookRem' = [p \in OrderId |-> IF p \in Restorable THEN rows[p].rem ELSE 0]
        /\ makerFill' = makerFill /\ ~ MatchRunning
    BY <1>10 DEF RecoverBook, Restart, RebuiltBook, callVars, matchVars, MatchRunning
  <2>2. makerFill[o] = 0
    BY <2>1 DEF RuntimeInv, CallInv
  <2> QED
    BY <2>1, <2>2 DEF InPlayQty
<1>11. CASE UNCHANGED vars
  BY <1>2, <1>11 DEF vars, bookVars, callVars, BookIsLive
<1> QED
  BY <1>2, <1>3, <1>4, <1>5, <1>6, <1>7, <1>8, <1>9, <1>10, <1>11
     DEF Next, Requests, Work

\* No step brings an acknowledged order back into play: it becomes one when its match
\* is committed, and has been in play since.
LEMMA InPlayKept ==
  ASSUME RuntimeInv, [Next]_vars, NEW o \in OrderId, Settled(o)', InPlay(o)'
  PROVE  (Settled(o) /\ InPlay(o)) \/ (PersistMatchResult /\ o = cur)
<1> SUFFICES ASSUME ~ (PersistMatchResult /\ o = cur)
             PROVE  Settled(o) /\ InPlay(o)
  OBVIOUS
<1>1. Settled(o) /\ ~ Strayed(o)
  BY AnswersOnlyGrow, StrayedStays DEF InPlay
<1>2. o <= created /\ rows[o].status # "inFlight"
  BY <1>1 DEF RuntimeInv, AckInv, TypeOK, Settled
<1>3. ~ (MatchRunning /\ o = cur)
  BY <1>1 DEF RuntimeInv, CallInv, MatchRunning, Settled
<1>4. CASE o \in Restorable'
  <2>1. CASE rows'[o] = rows[o]
    BY <1>1, <1>4, <2>1 DEF InPlay, Restorable
  <2>2. CASE rows[o].status \in Restable
    BY <1>1, <2>2 DEF InPlay, Restorable
  <2>3. CASE PersistMatchResult /\ o \in Touched
    <3>1. pc = "matched" /\ makerFill[o] > 0
      BY <2>3 DEF PersistMatchResult, MatchIsWritten, Touched
    <3>2. BookIsLive /\ InPlayQty(o) > 0
      BY <3>1 DEF BookIsLive, InPlayQty, RuntimeInv, TypeOK
    <3> QED
      BY <1>1, <3>2 DEF InPlay
  <2>4. ASSUME NEW t \in late, MatchLands(t), rows'[o] # rows[o]
        PROVE  rows[o].status \in Restable
    <3>1. /\ rows[o].status \in Restable \/ o \in doubted
          /\ CommittedUnseen(o)' /\ doubted' = doubted
      BY <2>4, LandingFacts
    <3> QED
      BY <3>1 DEF InPlay, Strayed
  <2> QED
    BY <1>2, <2>1, <2>2, <2>3, <2>4, RowChanges
<1>5. CASE o \notin Restorable'
  <2>1. BookIsLive' /\ InPlayQty(o)' > 0
    BY <1>5 DEF InPlay
  <2> QED
    BY <1>1, <1>3, <2>1, BookOnlyShrinks DEF InPlay
<1> QED
  BY <1>4, <1>5

\* A restorable row has something left: a start is never blocked by one that does not parse.
LEMMA RowsAreRestorable ==
  ASSUME RuntimeInv PROVE CanRebuild
<1> SUFFICES ASSUME NEW o \in OrderId, rows[o].status \in Restable PROVE rows[o].rem > 0
  BY DEF CanRebuild, Restorable
<1>1. rows[o].rem \in Nat /\ rows[o].qty \in Nat /\ o \in Nat /\ created \in Nat
  BY RuntimeAssumption DEF RuntimeInv, TypeOK, Row, OrderId
<1>2. o <= created
  BY <1>1 DEF RuntimeInv, RowsInv, NoRow, Restable
<1> QED
  BY <1>1, <1>2 DEF RuntimeInv, RowsInv, Restable

----------------------------------------------------------------------------
(* The queue *)

\* The taker of a running match is the newest order.
TakerIsNewest == MatchRunning => cur = created

\* Among the orders of the book the older one stands first, and none stands behind
\* the last Sequence handed out.
QueueOrder ==
  /\ \A o \in OrderId : bookSeq[o] <= nextSeq
  /\ \A o, p \in OrderId : InBook(o) /\ InBook(p) /\ o < p => bookSeq[o] < bookSeq[p]

\* The book has nothing left of an order that was due before a maker that was hit.
NobodyPassedOver ==
  \A i \in DOMAIN fills : \A o \in OrderId \ {cur} :
    /\ rows[o].side = rows[fills[i].maker].side
    /\ EarlierInQueue(o, fills[i].maker)
    => bookRem[o] = 0

\* What was hit was there to be hit.
HitsCross ==
  \A i \in DOMAIN fills : /\ rows[fills[i].maker].side # rows[cur].side
                          /\ Crosses(cur, fills[i].maker)

\* A transaction on its way took all that was left of every acknowledged order that
\* was due before one of its makers.
LateQueue ==
  \A t \in late : \A u \in t.trades :
    /\ rows[u.maker].side # rows[t.taker].side
    /\ Crosses(t.taker, u.maker)
    /\ \A o \in OrderId :
         /\ Settled(o) /\ InPlay(o)
         /\ rows[o].side = rows[u.maker].side
         /\ EarlierInQueue(o, u.maker)
         => Updates(t, o) /\ t.rows[o].rem = 0

\* The invariant behind price-time priority.  It needs RuntimeInv beside it.
QueueInv == TakerIsNewest /\ QueueOrder /\ NobodyPassedOver /\ HitsCross /\ LateQueue

\* The Sequence numbers of a rebuild count restorable orders from the oldest.
LEMMA RebuiltSeqOrder ==
  ASSUME TypeOK, NEW o \in OrderId
  PROVE  /\ RebuiltSeq(o) \in Nat /\ RebuiltSeq(o) <= Cardinality(Restorable)
         /\ \A p \in Restorable : o < p => RebuiltSeq(o) < RebuiltSeq(p)
<1> DEFINE UpTo(p) == {q \in Restorable : q <= p}
<1>1. IsFiniteSet(Restorable)
  <2>1. IsFiniteSet(OrderId)
    BY RuntimeAssumption, FS_Interval DEF OrderId
  <2> QED
    BY <2>1, FS_Subset DEF Restorable
<1>2. Cardinality(UpTo(o)) <= Cardinality(Restorable) /\ Cardinality(UpTo(o)) \in Nat
      /\ IsFiniteSet(UpTo(o))
  <2>1. UpTo(o) \subseteq Restorable
    OBVIOUS
  <2> HIDE DEF UpTo
  <2> QED
    BY <1>1, <2>1, FS_Subset, FS_CardinalityType
<1>3. ASSUME NEW p \in Restorable, o < p
      PROVE  Cardinality(UpTo(o)) < Cardinality(UpTo(p))
  <2>1. o \in Nat /\ p \in Nat
    BY RuntimeAssumption DEF OrderId, Restorable
  <2>2. UpTo(o) \subseteq UpTo(p) /\ p \in UpTo(p) /\ p \notin UpTo(o)
    <3>1. \A q \in Restorable : q \in Nat
      BY RuntimeAssumption DEF OrderId, Restorable
    <3>2. \A q \in Restorable : q <= o => q <= p
      BY <1>3, <2>1, <3>1
    <3>3. p <= p /\ ~ p <= o
      BY <1>3, <2>1
    <3> QED
      BY <3>2, <3>3
  <2>3. IsFiniteSet(UpTo(p))
    <3>1. UpTo(p) \subseteq Restorable
      OBVIOUS
    <3> HIDE DEF UpTo
    <3> QED
      BY <1>1, <3>1, FS_Subset
  <2> HIDE DEF UpTo
  <2>4. Cardinality(UpTo(o)) <= Cardinality(UpTo(p)) /\ Cardinality(UpTo(p)) \in Nat
    BY <2>2, <2>3, FS_Subset, FS_CardinalityType
  <2>5. Cardinality(UpTo(o)) # Cardinality(UpTo(p))
    BY <2>2, <2>3, FS_Subset
  <2> QED
    BY <1>2, <2>4, <2>5
<1> QED
  BY <1>2, <1>3 DEF RebuiltSeq

\* A rebuild puts the restorable orders back in the order they were created in.
LEMMA RebuiltQueue == ASSUME TypeOK, RebuiltBook PROVE QueueOrder'
<1>1. /\ bookRem' = [o \in OrderId |-> IF o \in Restorable THEN rows[o].rem ELSE 0]
      /\ bookSeq' = [o \in OrderId |-> IF o \in Restorable THEN RebuiltSeq(o) ELSE 0]
      /\ nextSeq' = Cardinality(Restorable)
  BY DEF RebuiltBook
<1>2. nextSeq' \in Nat
  BY RebuiltBookType
<1>3. \A o \in OrderId : bookSeq'[o] <= nextSeq'
  BY <1>1, <1>2, RebuiltSeqOrder
<1>4. \A o, p \in OrderId : bookRem'[o] > 0 /\ bookRem'[p] > 0 /\ o < p =>
        bookSeq'[o] < bookSeq'[p]
  <2>1. \A o \in OrderId : bookRem'[o] > 0 => o \in Restorable /\ bookSeq'[o] = RebuiltSeq(o)
    BY <1>1
  <2> QED
    BY <2>1, RebuiltSeqOrder
<1> QED
  BY <1>3, <1>4 DEF QueueOrder, InBook

\* No match is running after the step: all that is asked is the order of the book.
LEMMA QueueWithoutMatch ==
  ASSUME RuntimeInv', ~ MatchRunning', QueueOrder', LateQueue'
  PROVE  QueueInv'
<1>1. fills' = <<>>
  BY DEF RuntimeInv, CallInv
<1> QED
  BY <1>1 DEF QueueInv, TakerIsNewest, NobodyPassedOver, HitsCross

\* The parties of a transaction on its way.
LEMMA LateParties ==
  ASSUME RuntimeInv, NEW t \in late, NEW u \in t.trades
  PROVE  /\ t.taker \in OrderId /\ u.maker \in OrderId /\ u \in Trades
         /\ t.taker <= created /\ u.maker <= created
         /\ Updates(t, t.taker) /\ Updates(t, u.maker)
<1>1. t \in Transactions /\ Updates(t, t.taker) /\ Updates(t, u.maker)
  BY DEF RuntimeInv, TypeOK, LateInv
<1>2. t.taker \in OrderId /\ u.maker \in OrderId /\ u \in Trades
  BY <1>1 DEF Transactions, Trades
<1> QED
  BY <1>1, <1>2, LockedFacts

\* A transaction that stays on its way: no step but the commit of another match makes
\* an order one that it should have taken first.
LEMMA LateQueueKept ==
  ASSUME RuntimeInv, LateQueue, [Next]_vars, NEW t \in late, NEW u \in t.trades,
         \A o \in OrderId : Settled(o)' /\ InPlay(o)' => Settled(o) /\ InPlay(o)
  PROVE  /\ rows'[u.maker].side # rows'[t.taker].side
         /\ Crosses(t.taker, u.maker)'
         /\ \A o \in OrderId :
              /\ Settled(o)' /\ InPlay(o)'
              /\ rows'[o].side = rows'[u.maker].side
              /\ EarlierInQueue(o, u.maker)'
              => Updates(t, o) /\ t.rows[o].rem = 0
<1>1. /\ t \in late /\ t.taker \in OrderId /\ u.maker \in OrderId
      /\ t.taker <= created /\ u.maker <= created
  BY LateParties
<1>2. /\ rows'[t.taker].side = rows[t.taker].side /\ rows'[t.taker].price = rows[t.taker].price
      /\ rows'[u.maker].side = rows[u.maker].side /\ rows'[u.maker].price = rows[u.maker].price
  BY <1>1, RowChanges
<1>3. rows[u.maker].side # rows[t.taker].side /\ Crosses(t.taker, u.maker)
  BY <1>1 DEF LateQueue
<1>4. ASSUME NEW o \in OrderId, Settled(o)', InPlay(o)',
             rows'[o].side = rows'[u.maker].side, EarlierInQueue(o, u.maker)'
      PROVE  Updates(t, o) /\ t.rows[o].rem = 0
  <2>1. Settled(o) /\ InPlay(o)
    BY <1>4
  <2>2. o <= created
    BY <2>1 DEF Settled, RuntimeInv, AckInv, TypeOK
  <2>3. rows'[o].side = rows[o].side /\ rows'[o].price = rows[o].price
    BY <2>2, RowChanges
  <2>4. rows[o].side = rows[u.maker].side /\ EarlierInQueue(o, u.maker)
    BY <1>2, <1>4, <2>3 DEF EarlierInQueue, BetterPrice
  <2> QED
    BY <1>1, <2>1, <2>4 DEF LateQueue
<1> QED
  BY <1>2, <1>3, <1>4 DEF Crosses

\* Not that commit either: its taker would have met the taker of the transaction on its
\* way, which is in the book, before it could rest ahead of a maker.
LEMMA LateQueueCommit ==
  ASSUME RuntimeInv, QueueInv, PersistMatchResult PROVE LateQueue'
<1> SUFFICES ASSUME NEW t \in late', NEW u \in t.trades
             PROVE  /\ rows'[u.maker].side # rows'[t.taker].side
                    /\ Crosses(t.taker, u.maker)'
                    /\ \A o \in OrderId :
                         /\ Settled(o)' /\ InPlay(o)'
                         /\ rows'[o].side = rows'[u.maker].side
                         /\ EarlierInQueue(o, u.maker)'
                         => Updates(t, o) /\ t.rows[o].rem = 0
  BY DEF LateQueue, Updates
<1>0. [Next]_vars
  BY DEF Next, Work
<1>1. /\ t \in late /\ t.taker \in OrderId /\ u.maker \in OrderId
      /\ t.taker <= created /\ u.maker <= created /\ Updates(t, t.taker) /\ Updates(t, u.maker)
  <2>1. late' = late
    BY DEF PersistMatchResult
  <2> QED
    BY <2>1, LateParties
<1>2. /\ rows'[t.taker].side = rows[t.taker].side /\ rows'[t.taker].price = rows[t.taker].price
      /\ rows'[u.maker].side = rows[u.maker].side /\ rows'[u.maker].price = rows[u.maker].price
  BY <1>0, <1>1, RowChanges
<1>3. /\ rows[u.maker].side # rows[t.taker].side /\ Crosses(t.taker, u.maker)
      /\ \A o \in OrderId :
           /\ Settled(o) /\ InPlay(o)
           /\ rows[o].side = rows[u.maker].side
           /\ EarlierInQueue(o, u.maker)
           => Updates(t, o) /\ t.rows[o].rem = 0
  BY <1>1 DEF QueueInv, LateQueue
<1>4. /\ pc = "matched" /\ rows' = MatchedRows /\ DeltasFit /\ bookRem' = bookRem
      /\ cur \in OrderId /\ bookRem[cur] = takerRem /\ cur = created /\ created \in Nat
      /\ DropMatch /\ \A o \in Touched : ~ Locked(o)
      /\ acked' = acked /\ cur' = cur /\ pc' \in {"persisted", "recoverSubmit"}
      /\ acked \subseteq 1..created
  BY RuntimeAssumption DEF PersistMatchResult, MatchIsWritten, bookVars, RuntimeInv, CallInv,
     MatchRunning, QueueInv, TakerIsNewest, TypeOK, ackVars, AckInv
<1>5. ASSUME NEW o \in OrderId, Settled(o)', InPlay(o)',
             rows'[o].side = rows'[u.maker].side, EarlierInQueue(o, u.maker)'
      PROVE  Updates(t, o) /\ t.rows[o].rem = 0
  <2>1. o <= created
    <3>1. o \in acked \/ o = cur
      BY <1>4, <1>5 DEF Settled
    <3>2. \A p \in acked : p <= created
      BY <1>4
    <3> QED
      BY <1>4, <3>1, <3>2
  <2>2. rows'[o].side = rows[o].side /\ rows'[o].price = rows[o].price
    BY <1>0, <2>1, RowChanges
  <2>3. rows[o].side = rows[u.maker].side /\ EarlierInQueue(o, u.maker)
    BY <1>2, <1>5, <2>2 DEF EarlierInQueue, BetterPrice
  <2>4. CASE Settled(o) /\ InPlay(o)
    BY <1>3, <2>3, <2>4
  <2>5. CASE o = cur
    <3>1. takerRem > 0
      <4>1. takerRem \in Nat /\ makerFill'[o] = 0 /\ rows'[o].status = TakerStatus
        BY <1>4, <2>5, MatchedRow, DropMatchType DEF RuntimeInv, TypeOK
      <4>2. o \in Restorable' => takerRem # 0
        BY <1>4, <4>1, TakerStatusFits DEF Restorable, Restable
      <4>3. InPlayQty(o)' = takerRem
        BY <1>4, <2>5, <4>1 DEF InPlayQty
      <4> QED
        BY <1>5, <4>1, <4>2, <4>3 DEF InPlay
    <3>2. InBook(t.taker) /\ t.taker # cur
      <4>1. t.taker \notin Touched
        BY <1>1, <1>4 DEF Locked
      <4>2. t.taker # cur /\ makerFill[t.taker] = 0 /\ bookRem[t.taker] \in Nat
        BY <1>1, <4>1 DEF Touched, RuntimeInv, TypeOK
      <4>3. InPlayQty(t.taker) >= rows[t.taker].rem /\ rows[t.taker].status = "open"
        BY <1>1, <1>4 DEF RuntimeInv, LateInv, BookIsLive
      <4>4. rows[t.taker].rem > 0
        BY <1>1, <4>3, RowsAreRestorable DEF CanRebuild, Restorable, Restable
      <4>5. rows[t.taker].rem \in Nat
        BY <1>1 DEF RuntimeInv, TypeOK, Row
      <4> QED
        BY <4>2, <4>3, <4>4, <4>5 DEF InBook, InPlayQty
    <3>3. ~ Crosses(cur, t.taker)
      BY <1>1, <1>3, <1>4, <2>3, <2>5, <3>1, <3>2 DEF RuntimeInv, CrossInv, Opposite
    <3>4. /\ rows[cur].price \in Nat /\ rows[u.maker].price \in Nat
          /\ rows[t.taker].price \in Nat
          /\ rows[cur].side \in Sides /\ rows[t.taker].side \in Sides
          /\ u.maker \in Nat
      <4>1. rows \in [OrderId -> Row]
        BY DEF RuntimeInv, TypeOK
      <4>2. rows[cur] \in Row /\ rows[u.maker] \in Row /\ rows[t.taker] \in Row
        BY <1>1, <1>4, <4>1
      <4>3. u.maker \in Nat
        BY <1>1, RuntimeAssumption DEF OrderId
      <4> QED
        BY <4>2, <4>3 DEF Row
    <3>5. BetterPrice(cur, u.maker)
      BY <1>1, <1>4, <2>3, <2>5, <3>4 DEF EarlierInQueue
    <3> QED
      BY <1>3, <2>3, <2>5, <3>3, <3>4, <3>5 DEF BetterPrice, Crosses, Sides
  <2> QED
    BY <1>0, <1>5, <2>4, <2>5, InPlayKept
<1> QED
  BY <1>2, <1>3, <1>5 DEF Crosses

\* What a running match leaves of an acknowledged order that was due before one of its
\* makers, if its rows are written: nothing.
LEMMA MatchTakesFirst ==
  ASSUME RuntimeInv, QueueInv, pc = "matched", DeltasFit, NEW u \in NewTrades,
         NEW o \in OrderId, Settled(o), InPlay(o), rows[o].side = rows[u.maker].side,
         EarlierInQueue(o, u.maker)
  PROVE  o \in Touched /\ MatchedRows[o].rem = 0
<1>1. PICK i \in DOMAIN fills : u = TradeOf(fills[i])
  BY DEF NewTrades
<1>2. o # cur
  BY DEF RuntimeInv, CallInv, MatchRunning, Settled
<1>3. bookRem[o] = 0
  BY <1>1, <1>2 DEF QueueInv, NobodyPassedOver, TradeOf
<1>4. makerFill[o] \in Nat /\ rows[o].rem \in Nat
  BY DEF RuntimeInv, TypeOK, Row
<1>5. /\ InPlayQty(o) > 0 => InPlayRight(o)
      /\ o \in Restorable => InPlayRight(o)
      /\ BookIsLive
  BY <1>2 DEF RuntimeInv, BookInv, BookIsLive, MatchRunning, InPlay
<1>6. makerFill[o] > 0 /\ makerFill[o] <= rows[o].rem /\ makerFill[o] >= rows[o].rem
  <2>1. o \in Restorable => rows[o].rem > 0
    BY RowsAreRestorable DEF CanRebuild
  <2>2. InPlayQty(o) = makerFill[o] /\ InPlayRight(o)
    BY <1>3, <1>4, <1>5 DEF InPlay, InPlayQty
  <2>3. makerFill[o] <= rows[o].rem
    BY DEF DeltasFit
  <2> QED
    BY <1>4, <1>5, <2>1, <2>2, <2>3 DEF InPlay, InPlayRight
<1>7. MatchedRows[o].rem \in Nat /\ MatchedRows[o].rem + makerFill[o] = rows[o].rem
  BY <1>2, <1>6, MatchedRow
<1> QED
  BY <1>4, <1>6, <1>7 DEF Touched

LEMMA LateQueueLater ==
  ASSUME RuntimeInv, QueueInv, PersistLater PROVE LateQueue'
<1> DEFINE n == [taker |-> cur, trades |-> NewTrades, rows |-> UpdatedRows]
<1>0. [Next]_vars
  BY DEF Next, Work
<1>1. /\ late' = late \cup {n} /\ rows' = rows /\ pc = "matched" /\ pc' = "recoverSubmit"
      /\ acked' = acked /\ DeltasFit
  BY DEF PersistLater, MatchIsWritten, ackVars
<1>2. \A o \in OrderId : Settled(o)' /\ InPlay(o)' => Settled(o) /\ InPlay(o)
  <2>1. \A o \in OrderId : Settled(o)' => Settled(o)
    BY <1>1 DEF Settled
  <2>2. \A o \in OrderId : InPlay(o)' => InPlay(o)
    BY <1>0, <1>1, StrayedStays DEF InPlay, BookIsLive, Restorable
  <2> QED
    BY <2>1, <2>2
<1>3. n.taker = cur /\ n.trades = NewTrades /\ n.rows = UpdatedRows
  OBVIOUS
<1> HIDE DEF n
<1> SUFFICES ASSUME NEW t \in late', NEW u \in t.trades
             PROVE  /\ rows'[u.maker].side # rows'[t.taker].side
                    /\ Crosses(t.taker, u.maker)'
                    /\ \A o \in OrderId :
                         /\ Settled(o)' /\ InPlay(o)'
                         /\ rows'[o].side = rows'[u.maker].side
                         /\ EarlierInQueue(o, u.maker)'
                         => Updates(t, o) /\ t.rows[o].rem = 0
  BY DEF LateQueue, Updates
<1>4. CASE t \in late
  BY <1>0, <1>2, <1>4, LateQueueKept DEF QueueInv
<1>5. CASE t = n
  <2>1. u \in NewTrades
    BY <1>3, <1>5
  <2>2. PICK i \in DOMAIN fills : u = TradeOf(fills[i])
    BY <2>1 DEF NewTrades
  <2>3. rows[u.maker].side # rows[cur].side /\ Crosses(cur, u.maker)
    BY <2>2 DEF QueueInv, HitsCross, TradeOf
  <2>4. ASSUME NEW o \in OrderId, Settled(o)', InPlay(o)',
               rows[o].side = rows[u.maker].side, EarlierInQueue(o, u.maker)
        PROVE  Updates(n, o) /\ n.rows[o].rem = 0
    <3>1. o \in Touched /\ MatchedRows[o].rem = 0
      BY <1>1, <1>2, <2>1, <2>4, MatchTakesFirst
    <3>2. o # cur /\ o <= created
      <4>1. o \in acked
        BY <1>1, <1>2, <2>4 DEF Settled
      <4>2. acked \subseteq 1..created /\ cur \notin acked
        BY <1>1 DEF RuntimeInv, CallInv, MatchRunning, AckInv
      <4> QED
        BY <4>1, <4>2
    <3>3. n.rows[o] = MatchedRows[o]
      BY <1>3, <3>1 DEF UpdatedRows
    <3>4. MatchedRows[o].status # "none"
      <4>1. makerFill[o] > 0
        BY <3>1, <3>2 DEF Touched
      <4> QED
        BY <1>1, <3>2, <4>1, MatchedRow DEF StatusAfterFill
    <3> QED
      BY <3>1, <3>3, <3>4 DEF Updates, NoRow
  <2> QED
    BY <1>1, <1>3, <1>5, <2>3, <2>4 DEF Crosses, EarlierInQueue, BetterPrice
<1> QED
  BY <1>1, <1>4, <1>5

\* No other step touches what a transaction on its way was due to take.
LEMMA LateQueueStays ==
  ASSUME RuntimeInv, LateQueue, [Next]_vars, ~ PersistMatchResult, late' \subseteq late
  PROVE  LateQueue'
<1>1. \A o \in OrderId : Settled(o)' /\ InPlay(o)' => Settled(o) /\ InPlay(o)
  BY InPlayKept
<1> SUFFICES ASSUME NEW t \in late', NEW u \in t.trades
             PROVE  /\ rows'[u.maker].side # rows'[t.taker].side
                    /\ Crosses(t.taker, u.maker)'
                    /\ \A o \in OrderId :
                         /\ Settled(o)' /\ InPlay(o)'
                         /\ rows'[o].side = rows'[u.maker].side
                         /\ EarlierInQueue(o, u.maker)'
                         => Updates(t, o) /\ t.rows[o].rem = 0
  BY DEF LateQueue, Updates
<1>2. t \in late
  OBVIOUS
<1> QED
  BY <1>1, <1>2, LateQueueKept

\* The makers a running match hit are other orders, and there.
LEMMA HitsAreOrders ==
  ASSUME RuntimeInv, MatchRunning
  PROVE  /\ cur \in OrderId /\ cur <= created
         /\ \A i \in DOMAIN fills :
              /\ fills[i].maker \in OrderId \ {cur} /\ fills[i].maker <= created
              /\ makerFill[fills[i].maker] > 0
         /\ \A o \in OrderId \ {cur} : InPlayQty(o) > 0 => o <= created
<1>1. cur \in OrderId /\ cur <= created /\ makerFill[cur] = 0
  BY DEF RuntimeInv, CallInv, TypeOK
<1>2. \A o \in OrderId \ {cur} : InPlayQty(o) > 0 => o <= created
  BY DEF RuntimeInv, BookInv, BookIsLive, MatchRunning
<1>3. bookRem \in [OrderId -> Nat] /\ makerFill \in [OrderId -> Nat] /\ fills \in Seq(Fills)
  BY DEF RuntimeInv, TypeOK
<1>4. ASSUME NEW i \in DOMAIN fills
      PROVE  /\ fills[i].maker \in OrderId \ {cur} /\ fills[i].maker <= created
             /\ makerFill[fills[i].maker] > 0
  <2>1. fills[i] \in Fills
    BY <1>3
  <2>2. fills[i].maker \in OrderId /\ makerFill[fills[i].maker] > 0
    BY <2>1 DEF Fills, RuntimeInv, CallInv
  <2>3. InPlayQty(fills[i].maker) > 0
    BY <1>3, <2>2 DEF InPlayQty
  <2> QED
    BY <1>1, <1>2, <2>2, <2>3
<1> QED
  BY <1>1, <1>2, <1>4

\* A step that leaves the book alone leaves its order.
LEMMA QueueOrderUnchanged ==
  ASSUME QueueInv, UNCHANGED bookVars PROVE QueueOrder'
BY DEF QueueInv, QueueOrder, bookVars, InBook

\* What the database does changes neither the book nor what was ordered.
LEMMA LandingQueue ==
  ASSUME RuntimeInv, RuntimeInv', QueueInv, Landings PROVE QueueInv'
<1>1. /\ UNCHANGED bookVars /\ pc' = pc /\ cur' = cur /\ fills' = fills
      /\ created' = created /\ late' \subseteq late
  BY DEF Landings, InsertLands, CancelLands, MatchLands, bookVars, callVars
<1>2. [Next]_vars /\ ~ PersistMatchResult
  <2>1. PersistMatchResult => pc' # pc
    BY DEF PersistMatchResult, MatchIsWritten
  <2> QED
    BY <1>1, <2>1 DEF Next
<1>3. QueueOrder' /\ LateQueue'
  BY <1>1, <1>2, QueueOrderUnchanged, LateQueueStays DEF QueueInv
<1>4. CASE ~ MatchRunning
  BY <1>1, <1>3, <1>4, QueueWithoutMatch DEF MatchRunning
<1>5. CASE MatchRunning
  <2>1. \A o \in OrderId : o <= created =>
          rows'[o].side = rows[o].side /\ rows'[o].price = rows[o].price
    BY <1>2, RowChanges
  <2>2. TakerIsNewest'
    BY <1>1 DEF QueueInv, TakerIsNewest, MatchRunning
  <2>3. HitsCross'
    BY <1>1, <1>5, <2>1, HitsAreOrders DEF QueueInv, HitsCross, Crosses
  <2>4. NobodyPassedOver'
    <3> SUFFICES ASSUME NEW i \in DOMAIN fills, NEW o \in OrderId \ {cur},
                        rows'[o].side = rows'[fills[i].maker].side,
                        EarlierInQueue(o, fills[i].maker)'
                 PROVE  bookRem[o] = 0
      BY <1>1 DEF NobodyPassedOver, EarlierInQueue, BetterPrice, bookVars
    <3>1. CASE o <= created
      BY <1>1, <1>5, <2>1, <3>1, HitsAreOrders
         DEF QueueInv, NobodyPassedOver, EarlierInQueue, BetterPrice
    <3>2. CASE ~ o <= created
      <4>1. bookRem[o] \in Nat /\ makerFill[o] \in Nat
        BY DEF RuntimeInv, TypeOK
      <4> QED
        BY <1>5, <3>2, <4>1, HitsAreOrders DEF InPlayQty
    <3> QED
      BY <3>1, <3>2
  <2> QED
    BY <1>3, <2>2, <2>3, <2>4 DEF QueueInv
<1> QED
  BY <1>4, <1>5


\* The head of the best level is ahead of everything else that is there to be hit,
\* by price and, as the book is in the order of creation, by age.
LEMMA BestIsEarliest ==
  ASSUME RuntimeInv, QueueInv, NEW m \in OrderId, BestMaker(m),
         NEW o \in OrderId \ {cur}, rows[o].side = rows[m].side, EarlierInQueue(o, m)
  PROVE  bookRem[o] = 0
<1>1. /\ rows[m].side # rows[cur].side /\ InBook(m)
      /\ \A n \in Opposite(cur) \ {m} : Ahead(m, n)
  BY DEF BestMaker, Opposite
<1>2. /\ rows[o].price \in Nat /\ rows[m].price \in Nat /\ o \in Nat /\ m \in Nat
      /\ bookRem[o] \in Nat /\ bookSeq[o] \in Nat /\ bookSeq[m] \in Nat
  <2>1. o \in Nat /\ m \in Nat
    BY RuntimeAssumption DEF OrderId
  <2>2. /\ rows \in [OrderId -> Row]
        /\ bookRem \in [OrderId -> Nat] /\ bookSeq \in [OrderId -> Nat]
    BY DEF RuntimeInv, TypeOK
  <2>3. o \in OrderId
    OBVIOUS
  <2> QED
    BY <2>1, <2>2, <2>3 DEF Row
<1>3. o # m
  BY <1>2 DEF EarlierInQueue, BetterPrice
<1>4. ASSUME InBook(o) PROVE FALSE
  <2>1. Ahead(m, o)
    BY <1>1, <1>3, <1>4 DEF Opposite
  <2>2. o < m => bookSeq[o] < bookSeq[m]
    BY <1>1, <1>4 DEF QueueInv, QueueOrder
  <2> QED
    BY <1>2, <2>1, <2>2 DEF Ahead, EarlierInQueue, BetterPrice
<1> QED
  BY <1>2, <1>4 DEF InBook

\* The loop takes from the order that was due, and passes over nobody.
LEMMA MatchStepQueue ==
  ASSUME RuntimeInv, RuntimeInv', QueueInv, MatchStep PROVE QueueInv'
<1>1. PICK m \in OrderId :
        LET q == FillQty(m) IN
        /\ BestMaker(m) /\ Crosses(cur, m)
        /\ bookRem' = [bookRem EXCEPT ![m] = @ - q]
        /\ bookSeq' = [bookSeq EXCEPT ![m] = IF bookRem[m] = q THEN 0 ELSE @]
        /\ fills' = Append(fills, [maker |-> m, price |-> rows[m].price, qty |-> q])
  BY DEF MatchStep
<1> DEFINE q == FillQty(m)
<1>2. /\ rows' = rows /\ created' = created /\ nextSeq' = nextSeq /\ cur' = cur /\ pc' = pc
      /\ late' = late
  BY DEF MatchStep, storeVars
<1>3. /\ q \in Nat /\ q <= bookRem[m] /\ bookRem[m] \in Nat /\ nextSeq \in Nat
      /\ bookSeq \in [OrderId -> Nat] /\ bookRem \in [OrderId -> Nat]
  <2>1. /\ takerRem \in Nat /\ nextSeq \in Nat
        /\ bookSeq \in [OrderId -> Nat] /\ bookRem \in [OrderId -> Nat]
    BY DEF RuntimeInv, TypeOK
  <2> QED
    BY <2>1 DEF FillQty
<1>4. \A o \in OrderId : /\ bookRem'[o] \in Nat /\ bookRem'[o] <= bookRem[o]
                         /\ bookSeq'[o] <= nextSeq'
                         /\ bookRem'[o] > 0 => bookSeq'[o] = bookSeq[o]
  <2> HIDE DEF q
  <2>1. /\ bookRem' = [bookRem EXCEPT ![m] = bookRem[m] - q]
        /\ bookSeq' = [bookSeq EXCEPT ![m] = IF bookRem[m] = q THEN 0 ELSE bookSeq[m]]
    BY <1>1 DEF q
  <2>2. \A o \in OrderId : bookSeq[o] <= nextSeq
    BY DEF QueueInv, QueueOrder
  <2> QED
    BY <1>2, <1>3, <2>1, <2>2
<1>5. QueueOrder'
  BY <1>3, <1>4 DEF QueueInv, QueueOrder, InBook
<1>6. NobodyPassedOver'
  <2> SUFFICES ASSUME NEW i \in DOMAIN fills', NEW o \in OrderId \ {cur},
                      rows[o].side = rows[fills'[i].maker].side,
                      EarlierInQueue(o, fills'[i].maker)
               PROVE  bookRem'[o] = 0
    BY <1>2 DEF NobodyPassedOver, EarlierInQueue, BetterPrice
  <2>1. fills \in Seq(Fills)
    BY DEF RuntimeInv, TypeOK
  <2>2. \/ i \in DOMAIN fills /\ fills'[i] = fills[i]
        \/ fills'[i].maker = m
    BY <1>1, <2>1
  <2>3. CASE i \in DOMAIN fills /\ fills'[i] = fills[i]
    <3>1. bookRem[o] = 0
      BY <2>3 DEF QueueInv, NobodyPassedOver
    <3> QED
      BY <1>4, <3>1
  <2>4. CASE fills'[i].maker = m
    <3>1. bookRem[o] = 0
      BY <1>1, <2>4, BestIsEarliest
    <3> QED
      BY <1>4, <3>1
  <2> QED
    BY <2>2, <2>3, <2>4
<1>7. HitsCross'
  <2> SUFFICES ASSUME NEW i \in DOMAIN fills'
               PROVE  /\ rows[fills'[i].maker].side # rows[cur].side
                      /\ Crosses(cur, fills'[i].maker)
    BY <1>2 DEF HitsCross, Crosses
  <2>1. fills \in Seq(Fills)
    BY DEF RuntimeInv, TypeOK
  <2>2. \/ i \in DOMAIN fills /\ fills'[i] = fills[i]
        \/ fills'[i].maker = m
    BY <1>1, <2>1
  <2>3. rows[m].side # rows[cur].side
    BY <1>1 DEF BestMaker, Opposite
  <2> QED
    BY <1>1, <2>2, <2>3 DEF QueueInv, HitsCross
<1>8. LateQueue'
  <2>1. [Next]_vars /\ ~ PersistMatchResult
    <3>1. PersistMatchResult => pc' # pc
      BY DEF PersistMatchResult, MatchIsWritten
    <3> QED
      BY <1>2, <3>1 DEF Next, Work
  <2> QED
    BY <1>2, <2>1, LateQueueStays DEF QueueInv
<1> QED
  BY <1>2, <1>5, <1>6, <1>7, <1>8 DEF QueueInv, TakerIsNewest, MatchRunning

\* The rest of the newest order goes behind everybody.
LEMMA MatchDoneQueue ==
  ASSUME RuntimeInv, RuntimeInv', QueueInv, MatchDone PROVE QueueInv'
<1>1. /\ rows' = rows /\ created' = created /\ cur' = cur /\ fills' = fills
      /\ pc = "matching" /\ pc' = "matched" /\ late' = late
      /\ IF takerRem > 0 THEN Rest(cur, takerRem) ELSE UNCHANGED bookVars
  BY DEF MatchDone, storeVars, callVars
<1>0. LateQueue' /\ HitsCross'
  <2>1. [Next]_vars /\ ~ PersistMatchResult
    BY <1>1 DEF Next, Work, PersistMatchResult, MatchIsWritten
  <2>2. HitsCross'
    BY <1>1 DEF QueueInv, HitsCross, Crosses
  <2> QED
    BY <1>1, <2>1, <2>2, LateQueueStays DEF QueueInv
<1>2. /\ cur = created /\ cur \in OrderId /\ bookRem[cur] = 0
      /\ nextSeq \in Nat /\ bookSeq \in [OrderId -> Nat] /\ bookRem \in [OrderId -> Nat]
      /\ takerRem \in Nat /\ created \in Nat
  BY <1>1, RuntimeAssumption
     DEF QueueInv, TakerIsNewest, MatchRunning, RuntimeInv, CallInv, TypeOK
<1>3. TakerIsNewest'
  BY <1>1, <1>2 DEF TakerIsNewest
<1>4. CASE ~ takerRem > 0
  <2>1. QueueOrder' /\ bookRem' = bookRem
    BY <1>1, <1>4, QueueOrderUnchanged DEF bookVars
  <2> QED
    BY <1>0, <1>1, <1>3, <2>1 DEF QueueInv, NobodyPassedOver, EarlierInQueue, BetterPrice
<1>5. CASE takerRem > 0
  <2>1. /\ bookRem' = [bookRem EXCEPT ![cur] = takerRem]
        /\ bookSeq' = [bookSeq EXCEPT ![cur] = nextSeq + 1]
        /\ nextSeq' = nextSeq + 1
    BY <1>1, <1>5 DEF Rest
  <2>2. \A o \in OrderId \ {cur} : bookRem'[o] = bookRem[o] /\ bookSeq'[o] = bookSeq[o]
    BY <1>2, <2>1
  <2>3. bookSeq'[cur] = nextSeq + 1
    BY <1>2, <2>1
  \* Nothing in the book is as new as the taker.
  <2>4. \A o \in OrderId \ {cur} : bookRem[o] > 0 => o < cur
    <3>1. \A o \in OrderId \ {cur} : InPlayQty(o) > 0 => o <= created
      BY <1>1 DEF RuntimeInv, BookInv, BookIsLive
    <3>2. \A o \in OrderId : makerFill[o] \in Nat /\ bookRem[o] \in Nat /\ o \in Nat
      BY RuntimeAssumption DEF RuntimeInv, TypeOK, OrderId
    <3> QED
      BY <1>2, <3>1, <3>2 DEF InPlayQty
  <2>5. QueueOrder'
    <3>1. \A o \in OrderId : bookSeq[o] <= nextSeq
      BY DEF QueueInv, QueueOrder
    <3>2. \A o \in OrderId : bookSeq'[o] <= nextSeq'
      BY <1>2, <2>1, <2>2, <2>3, <3>1
    <3>3. ASSUME NEW o \in OrderId, NEW p \in OrderId, bookRem'[o] > 0, bookRem'[p] > 0, o < p
          PROVE  bookSeq'[o] < bookSeq'[p]
      <4>1. o \in Nat /\ p \in Nat
        BY RuntimeAssumption DEF OrderId
      <4>2. CASE o # cur /\ p # cur
        BY <2>2, <3>3, <4>2 DEF QueueInv, QueueOrder, InBook
      <4>3. CASE p = cur
        <5>1. o # cur
          BY <3>3, <4>1, <4>3
        <5> QED
          BY <1>2, <2>2, <2>3, <3>1, <4>3, <5>1
      <4>4. CASE o = cur
        BY <2>2, <2>4, <3>3, <4>1, <4>4
      <4> QED
        BY <4>2, <4>3, <4>4
    <3> QED
      BY <3>2, <3>3 DEF QueueOrder, InBook
  <2>6. NobodyPassedOver'
    BY <1>1, <2>2 DEF QueueInv, NobodyPassedOver, EarlierInQueue, BetterPrice
  <2> QED
    BY <1>0, <1>3, <2>5, <2>6 DEF QueueInv
<1> QED
  BY <1>4, <1>5

\* Every step keeps the queue.
LEMMA QueueStep ==
  ASSUME RuntimeInv, RuntimeInv', QueueInv, [Next]_vars PROVE QueueInv'
<1>0. ASSUME late' = late PROVE LateQueue'
  BY <1>0, LateQueueStays, LateQueueCommit DEF QueueInv
<1>1. CASE UNCHANGED vars \/ PublishEvent
  <2>1. /\ rows' = rows /\ created' = created /\ cur' = cur /\ fills' = fills /\ pc' = pc
        /\ bookRem' = bookRem /\ bookSeq' = bookSeq /\ nextSeq' = nextSeq /\ late' = late
    BY <1>1 DEF vars, PublishEvent, storeVars, bookVars, callVars
  <2>2. LateQueue'
    BY <1>0, <2>1
  <2> QED
    BY <2>1, <2>2 DEF QueueInv, TakerIsNewest, QueueOrder, NobodyPassedOver, MatchRunning,
       InBook, HitsCross, Crosses, EarlierInQueue, BetterPrice
<1>2. ASSUME NEW s \in Sides, NEW p \in Prices, NEW q \in Quantities, SubmitOrder(s, p, q)
      PROVE  QueueInv'
  <2>1. /\ UNCHANGED bookVars /\ fills' = fills /\ created' = created + 1 /\ pc = "idle"
        /\ pc' = "idle" \/ cur' = created + 1
        /\ late' = late
    BY <1>2 DEF SubmitOrder, Insert, callVars
  <2>2. fills' = <<>>
    BY <2>1 DEF RuntimeInv, CallInv, MatchRunning
  <2>3. QueueOrder'
    BY <2>1, QueueOrderUnchanged
  <2>4. LateQueue'
    BY <1>0, <2>1
  <2> QED
    BY <2>1, <2>2, <2>3, <2>4
       DEF QueueInv, TakerIsNewest, NobodyPassedOver, HitsCross, MatchRunning
<1>3. CASE \/ PersistFails \/ AnswerSubmit \/ AnswerCancel \/ FailClosed \/ CancelOrder
           \/ CancelFails \/ \E o \in OrderId : ReadForCancel(o)
  <2>1. UNCHANGED bookVars /\ ~ MatchRunning'
    BY <1>3 DEF PersistFails, AnswerSubmit, AnswerCancel, FailClosed, CancelOrder,
       CancelFails, ReadForCancel, Release, MatchRunning
  <2>2. late' = late
    BY <1>3 DEF PersistFails, AnswerSubmit, AnswerCancel, FailClosed, CancelOrder,
       CancelFails, ReadForCancel, storeVars
  <2> QED
    BY <1>0, <2>1, <2>2, QueueOrderUnchanged, QueueWithoutMatch
<1>7. CASE PersistMatchResult \/ PersistLater
  <2>1. UNCHANGED bookVars /\ ~ MatchRunning'
    BY <1>7 DEF PersistMatchResult, PersistLater, MatchRunning
  <2>2. LateQueue'
    BY <1>7, LateQueueCommit, LateQueueLater
  <2> QED
    BY <2>1, <2>2, QueueOrderUnchanged, QueueWithoutMatch
<1>4. CASE CancelInBook
  <2>1. /\ nextSeq' = nextSeq /\ ~ MatchRunning' /\ cur \in OrderId
        /\ \/ /\ bookRem' = [bookRem EXCEPT ![cur] = 0]
              /\ bookSeq' = [bookSeq EXCEPT ![cur] = 0]
           \/ bookRem' = bookRem /\ bookSeq' = bookSeq
    BY <1>4 DEF CancelInBook, MatchRunning, RuntimeInv, CallInv
  <2>2. bookRem \in [OrderId -> Nat] /\ bookSeq \in [OrderId -> Nat] /\ nextSeq \in Nat
    BY DEF RuntimeInv, TypeOK
  <2>3. \A o \in OrderId : /\ bookSeq'[o] = bookSeq[o] \/ bookSeq'[o] = 0
                           /\ bookRem'[o] > 0 => bookRem[o] > 0 /\ bookSeq'[o] = bookSeq[o]
    BY <2>1, <2>2
  <2>4. QueueOrder'
    BY <2>1, <2>2, <2>3 DEF QueueInv, QueueOrder, InBook
  <2>5. late' = late
    BY <1>4 DEF CancelInBook, storeVars
  <2> QED
    BY <1>0, <2>1, <2>4, <2>5, QueueWithoutMatch
<1>5. CASE RecoverBook \/ Restart
  <2>1. RebuiltBook /\ ~ MatchRunning' /\ late' = late
    BY <1>5 DEF RecoverBook, Restart, Release, MatchRunning, storeVars
  <2> QED
    BY <1>0, <2>1, RebuiltQueue, QueueWithoutMatch DEF RuntimeInv
<1>6. CASE Crash
  <2>1. /\ EmptyBook /\ ~ MatchRunning' /\ late' = late
    BY <1>6 DEF Crash, MatchRunning, storeVars
  <2>2. QueueOrder'
    BY <2>1 DEF EmptyBook, QueueOrder, InBook
  <2> QED
    BY <1>0, <2>1, <2>2, QueueWithoutMatch
<1> QED
  BY <1>1, <1>2, <1>3, <1>4, <1>5, <1>6, <1>7, LandingQueue, MatchStepQueue, MatchDoneQueue
     DEF Next, Requests, Work

\* Behind price-time priority: the book keeps the orders in the order they came in,
\* through rebuilds and restarts, and a running match passes over none of them.
THEOREM QueueInvariant == Spec => []QueueInv
<1>1. Init => QueueInv
  BY DEF Init, QueueInv, TakerIsNewest, QueueOrder, NobodyPassedOver, HitsCross, LateQueue,
     MatchRunning, InBook
<1>2. RuntimeInv /\ RuntimeInv' /\ QueueInv /\ [Next]_vars => QueueInv'
  BY QueueStep
<1> QED
  BY <1>1, <1>2, RuntimeInvariant, PTL DEF Spec

\* Trades are written with a match, by the runtime or behind its back.
LEMMA TradesComeFrom ==
  ASSUME [Next]_vars, trades' # trades
  PROVE  PersistMatchResult \/ \E t \in late : MatchLands(t)
<1>1. ASSUME NEW s \in Sides, NEW p \in Prices, NEW q \in Quantities, SubmitOrder(s, p, q)
      PROVE  FALSE
  BY <1>1 DEF SubmitOrder, Insert
<1>2. ASSUME PublishEvent \/ MatchStep \/ MatchDone \/ PersistFails \/ AnswerSubmit
             \/ CancelInBook \/ AnswerCancel \/ PersistLater \/ CancelFails \/ CancelOrder
      PROVE  FALSE
  BY <1>2 DEF PublishEvent, MatchStep, MatchDone, PersistFails, AnswerSubmit,
     CancelInBook, AnswerCancel, PersistLater, CancelFails, CancelOrder, storeVars
<1>3. ASSUME RecoverBook \/ FailClosed \/ Crash \/ Restart
             \/ \E o \in OrderId : ReadForCancel(o) \/ InsertLands(o)
      PROVE  FALSE
  BY <1>3 DEF RecoverBook, FailClosed, Crash, Restart, ReadForCancel, InsertLands, storeVars
<1>4. ASSUME NEW o \in lateCancels, CancelLands(o) PROVE FALSE
  BY <1>4 DEF CancelLands
<1>5. ~ UNCHANGED vars
  BY DEF vars, storeVars
<1> QED
  BY <1>1, <1>2, <1>3, <1>4, <1>5 DEF Next, Requests, Work, Landings

\* Only an unanswered commit leaves a transaction on its way.
LEMMA LateComesFrom ==
  ASSUME [Next]_vars, NEW t \in late', t \notin late PROVE PersistLater
<1>1. late' # late
  OBVIOUS
<1>2. ASSUME NEW s \in Sides, NEW p \in Prices, NEW q \in Quantities, SubmitOrder(s, p, q)
      PROVE  FALSE
  BY <1>1, <1>2 DEF SubmitOrder, Insert
<1>3. ASSUME PublishEvent \/ MatchStep \/ MatchDone \/ PersistFails \/ AnswerSubmit
             \/ CancelInBook \/ AnswerCancel \/ PersistMatchResult \/ CancelFails
             \/ CancelOrder
      PROVE  FALSE
  BY <1>1, <1>3 DEF PublishEvent, MatchStep, MatchDone, PersistFails, AnswerSubmit,
     CancelInBook, AnswerCancel, PersistMatchResult, CancelFails, CancelOrder, storeVars
<1>4. ASSUME RecoverBook \/ FailClosed \/ Crash \/ Restart
             \/ \E o \in OrderId : ReadForCancel(o) \/ InsertLands(o)
      PROVE  FALSE
  BY <1>1, <1>4 DEF RecoverBook, FailClosed, Crash, Restart, ReadForCancel, InsertLands,
     storeVars
<1>5. ASSUME NEW o \in lateCancels, CancelLands(o) PROVE FALSE
  BY <1>1, <1>5 DEF CancelLands
<1>6. ASSUME NEW u \in late, MatchLands(u) PROVE FALSE
  BY <1>6 DEF MatchLands
<1>7. ~ UNCHANGED vars
  BY <1>1 DEF vars, storeVars
<1> QED
  BY <1>2, <1>3, <1>4, <1>5, <1>6, <1>7 DEF Next, Requests, Work, Landings

\* What a committed match leaves of a live acknowledged order that was due before
\* one of its makers: nothing.
LEMMA CommitRespectsQueue ==
  ASSUME RuntimeInv, QueueInv, [Next]_vars,
         NEW t \in trades' \ trades, NEW o \in Promised,
         rows[o].side = rows[t.maker].side, EarlierInQueue(o, t.maker)
  PROVE  rows'[o].rem = 0
<1>1. o \in OrderId /\ Settled(o) /\ InPlay(o)
  BY DEF Promised, Restorable, Settled, InPlay
<1>2. CASE PersistMatchResult
  <2>1. /\ pc = "matched" /\ rows' = MatchedRows /\ DeltasFit /\ t \in NewTrades
    BY <1>2 DEF PersistMatchResult, MatchIsWritten
  <2> QED
    BY <1>1, <2>1, MatchTakesFirst
<1>3. ASSUME NEW l \in late, MatchLands(l) PROVE rows'[o].rem = 0
  <2>1. /\ t \in l.trades
        /\ rows' = [p \in OrderId |-> IF Updates(l, p) THEN l.rows[p] ELSE rows[p]]
    BY <1>3 DEF MatchLands
  <2>2. Updates(l, o) /\ l.rows[o].rem = 0
    BY <1>1, <2>1 DEF QueueInv, LateQueue
  <2> QED
    BY <1>1, <2>1, <2>2
<1> QED
  BY <1>2, <1>3, TradesComeFrom

\* A match never passes over a live acknowledged order that was due before a maker it
\* hits, whatever failed and however often the book was rebuilt.
THEOREM NobodyIsTradedThrough == Spec => NoTradeThrough
<1> DEFINE Respected ==
      \A t \in trades' \ trades : \A o \in Promised :
        /\ rows[o].side = rows[t.maker].side
        /\ EarlierInQueue(o, t.maker)
        => rows'[o].rem = 0
<1>1. RuntimeInv /\ QueueInv /\ [Next]_vars => [Respected]_vars
  BY CommitRespectsQueue
<1> QED
  BY <1>1, RuntimeInvariant, QueueInvariant, PTL DEF Spec, NoTradeThrough

----------------------------------------------------------------------------
(* The book against the table *)

\* Every insert, every cancel that takes effect is answered as what it is.
InsertsAreAnswered == "createUnsure" \notin FaultKinds
CancelsAreAnswered == "cancelUnsure" \notin FaultKinds

\* A match transaction that is not answered as committed is over when its error comes.
CommitsAreTimely == "commitLate" \notin FaultKinds

\* Without the fault there is nobody it left traces of.
AnsweredInv ==
  /\ InsertsAreAnswered => \A o \in OrderId : rows[o].status # "inFlight"
  /\ CancelsAreAnswered => doubted = {}

LEMMA AnsweredStep ==
  ASSUME RuntimeInv, RuntimeInv', AnsweredInv, [Next]_vars PROVE AnsweredInv'
<1>1. ASSUME CancelsAreAnswered PROVE doubted' = doubted
  <2>1. CASE CancelFails
    BY <1>1, <2>1 DEF CancelFails, CancelsAreAnswered, Fault
  <2>2. ASSUME NEW s \in Sides, NEW p \in Prices, NEW q \in Quantities, SubmitOrder(s, p, q)
        PROVE  doubted' = doubted
    BY <2>2 DEF SubmitOrder, ackVars
  <2>3. CASE PublishEvent \/ MatchStep \/ MatchDone \/ PersistFails \/ AnswerSubmit
             \/ CancelInBook \/ AnswerCancel \/ PersistLater \/ CancelOrder
    BY <2>3 DEF PublishEvent, MatchStep, MatchDone, PersistFails, AnswerSubmit,
       CancelInBook, AnswerCancel, PersistLater, CancelOrder, ackVars
  <2>4. CASE RecoverBook \/ FailClosed \/ Crash \/ Restart \/ PersistMatchResult
             \/ Landings \/ \E o \in OrderId : ReadForCancel(o)
    BY <2>4 DEF RecoverBook, FailClosed, Crash, Restart, PersistMatchResult, Landings,
       InsertLands, CancelLands, MatchLands, ReadForCancel, ackVars
  <2>5. CASE UNCHANGED vars
    BY <2>5 DEF vars, ackVars
  <2> QED
    BY <2>1, <2>2, <2>3, <2>4, <2>5 DEF Next, Requests, Work
<1>2. ASSUME InsertsAreAnswered, NEW o \in OrderId PROVE rows'[o].status # "inFlight"
  <2>1. rows[o].status # "inFlight"
    BY <1>2 DEF AnsweredInv
  <2>4. created' \in Nat /\ o \in Nat
    BY RuntimeAssumption DEF RuntimeInv, TypeOK, OrderId
  <2>2. CASE o <= created
    <3>1. CASE PersistMatchResult
      <4>1. rows' = MatchedRows /\ pc = "matched" /\ DeltasFit
        BY <3>1 DEF PersistMatchResult, MatchIsWritten
      <4>2. makerFill \in [OrderId -> Nat]
        BY DEF RuntimeInv, TypeOK
      <4>3. makerFill[o] = 0 \/ makerFill[o] > 0
        BY <4>2
      <4> QED
        BY <2>1, <4>1, <4>3, MatchedRow, TakerStatusFits DEF StatusAfterFill
    <3>2. ASSUME NEW t \in late, MatchLands(t) PROVE rows'[o].status # "inFlight"
      BY <2>1, <3>2, LandingFacts DEF StatusAfterFill
    <3> QED
      BY <2>1, <2>2, <3>1, <3>2, RowChanges
  <2>3. CASE ~ o <= created
    <3>1. ASSUME NEW s \in Sides, NEW p \in Prices, NEW q \in Quantities,
                 SubmitOrder(s, p, q)
          PROVE  rows'[o].status # "inFlight"
      <4> DEFINE new == [side |-> s, price |-> p, qty |-> q, rem |-> q, status |-> "open"]
      <4>1. rows' = [rows EXCEPT ![created + 1] = new]
        BY <1>2, <3>1 DEF SubmitOrder, Insert, Fault, InsertsAreAnswered
      <4>2. rows \in [OrderId -> Row] /\ new.status = "open"
        BY DEF RuntimeInv, TypeOK
      <4> HIDE DEF new
      <4> QED
        BY <2>1, <4>1, <4>2
    <3>2. created' # created =>
            \E s \in Sides, p \in Prices, q \in Quantities : SubmitOrder(s, p, q)
      <4>1. CASE PublishEvent \/ MatchStep \/ MatchDone \/ PersistFails \/ AnswerSubmit
                 \/ CancelInBook \/ AnswerCancel \/ PersistLater \/ CancelFails \/ CancelOrder
        BY <4>1 DEF PublishEvent, MatchStep, MatchDone, PersistFails, AnswerSubmit,
           CancelInBook, AnswerCancel, PersistLater, CancelFails, CancelOrder, storeVars
      <4>2. CASE RecoverBook \/ FailClosed \/ Crash \/ Restart \/ PersistMatchResult
                 \/ Landings \/ \E c \in OrderId : ReadForCancel(c)
        BY <4>2 DEF RecoverBook, FailClosed, Crash, Restart, PersistMatchResult, Landings,
           InsertLands, CancelLands, MatchLands, ReadForCancel, storeVars
      <4> QED
        BY <4>1, <4>2 DEF Next, Requests, Work, vars, storeVars
    <3>3. ~ o <= created' => rows'[o] = NoRow
      BY <2>4 DEF RuntimeInv, RowsInv, TypeOK
    <3> QED
      BY <2>3, <3>1, <3>2, <3>3 DEF NoRow
  <2> QED
    BY <2>2, <2>3
<1> QED
  BY <1>1, <1>2 DEF AnsweredInv, InsertsAreAnswered, CancelsAreAnswered

\* What was not to be lost was not.
LEMMA AnsweredInvariant == Spec => []AnsweredInv
<1>1. Init => AnsweredInv
  BY DEF Init, AnsweredInv, NoRow
<1>2. RuntimeInv /\ RuntimeInv' /\ AnsweredInv /\ [Next]_vars => AnsweredInv'
  BY AnsweredStep
<1> QED
  BY <1>1, <1>2, RuntimeInvariant, PTL DEF Spec

LEMMA TimelyFacts ==
  ASSUME RuntimeInv, CommitsAreTimely
  PROVE  late = {} /\ \A o \in OrderId : ~ CommittedUnseen(o) /\ ~ Strayed(o) /\ ~ Locked(o)
<1>1. late = {}
  BY DEF RuntimeInv, LateInv, CommitsAreTimely
<1> QED
  BY <1>1 DEF CommitsAreTimely, CommittedUnseen, Strayed, Locked

\* The order a match or a cancel is at work on, in its row or in the book only.
InTransit(o) == o = cur /\ pc \in {"matching", "matched", "cancelling", "recoverCancel"}

\* The book in use holds restorable rows only, and what is left of every one of them.
ExactInv ==
  CommitsAreTimely /\ BookIsLive =>
    \A o \in OrderId : ~ InTransit(o) =>
      /\ CancelsAreAnswered => (InPlayQty(o) > 0 => o \in Restorable)
      /\ InsertsAreAnswered => (o \in Restorable => InPlayQty(o) = rows[o].rem)

\* A step after which the book is not in use, or that touches neither rows nor book
\* nor a match and finishes with no order.
LEMMA ExactUnchanged ==
  ASSUME ExactInv,
         BookIsLive' => /\ BookIsLive
                        /\ \A o \in OrderId : InTransit(o) => InTransit(o)',
         rows' = rows, bookRem' = bookRem, makerFill' = makerFill
  PROVE  ExactInv'
BY DEF ExactInv, InPlayQty, Restorable, InsertsAreAnswered, CancelsAreAnswered,
   CommitsAreTimely

\* A rebuild makes the book exact again.
LEMMA ExactRebuilt ==
  ASSUME RuntimeInv, RuntimeInv', RebuiltBook, rows' = rows, ~ MatchRunning'
  PROVE  ExactInv'
<1>1. \A o \in OrderId : bookRem'[o] = IF o \in Restorable THEN rows[o].rem ELSE 0
  BY DEF RebuiltBook
<1>2. \A o \in OrderId : makerFill'[o] = 0
  BY DEF RuntimeInv, CallInv
<1>3. \A o \in OrderId : bookRem'[o] \in Nat
  BY DEF RuntimeInv, TypeOK
<1> QED
  BY <1>1, <1>2, <1>3 DEF ExactInv, InPlayQty, InsertsAreAnswered, CancelsAreAnswered,
     CommitsAreTimely, Restorable

\* A commit writes to the rows what the match took from the book.
LEMMA ExactCommit ==
  ASSUME RuntimeInv, RuntimeInv', ExactInv, PersistMatchResult
  PROVE  ExactInv'
<1> SUFFICES ASSUME CommitsAreTimely PROVE ExactInv'
  BY DEF ExactInv, CommitsAreTimely
<1>1. /\ pc = "matched" /\ rows' = MatchedRows /\ bookRem' = bookRem /\ cur' = cur
      /\ pc' = "persisted" \/ pc' = "recoverSubmit"
      /\ \A o \in OrderId : makerFill'[o] = 0
      /\ DeltasFit
  BY DropMatchType DEF PersistMatchResult, MatchIsWritten, bookVars
<1>2. /\ cur \in OrderId /\ bookRem[cur] = takerRem /\ makerFill[cur] = 0
      /\ rows[cur].status = "open" /\ takerRem \in Nat
  BY <1>1 DEF RuntimeInv, CallInv, MatchRunning, TypeOK
<1> SUFFICES ASSUME NEW o \in OrderId
             PROVE  /\ CancelsAreAnswered => (bookRem[o] > 0 => o \in Restorable')
                    /\ InsertsAreAnswered => (o \in Restorable' => bookRem[o] = rows'[o].rem)
  <2>1. \A o \in OrderId : bookRem'[o] \in Nat
    BY DEF RuntimeInv, TypeOK
  <2> QED
    BY <1>1, <2>1 DEF ExactInv, InPlayQty, InsertsAreAnswered, CancelsAreAnswered
<1>3. bookRem[o] \in Nat /\ makerFill[o] \in Nat /\ rows[o].rem \in Nat
  BY DEF RuntimeInv, TypeOK, Row
<1>4. CASE o = cur
  <2>1. rows'[o].rem = takerRem /\ rows'[o].status = TakerStatus
    BY <1>1, <1>4, MatchedRow
  <2>2. TakerStatus \in {"open", "partially_filled"} \/ takerRem = 0
    BY DEF TakerStatus, StatusAfterFill
  <2>3. ~ o \in Restorable' => takerRem = 0
    BY <2>1, <2>2 DEF Restorable, Restable
  <2> QED
    BY <1>2, <1>4, <2>1, <2>3
<1>5. CASE o # cur
  <2>1. /\ CancelsAreAnswered => (bookRem[o] + makerFill[o] > 0 => o \in Restorable)
        /\ InsertsAreAnswered => (o \in Restorable => bookRem[o] + makerFill[o] = rows[o].rem)
    BY <1>1, <1>5 DEF ExactInv, BookIsLive, InTransit, InPlayQty, InsertsAreAnswered,
       CancelsAreAnswered
  <2>2. CASE makerFill[o] = 0
    <3>1. rows'[o] = rows[o]
      BY <1>1, <1>5, <2>2, MatchedRow
    <3> QED
      BY <1>3, <2>1, <2>2, <3>1 DEF Restorable
  <2>3. CASE makerFill[o] > 0
    <3>1. rows'[o].rem = bookRem[o] /\ rows'[o].status = StatusAfterFill(bookRem[o])
      BY <1>1, <1>5, <2>3, MatchedRow, TimelyFacts
    <3>2. ~ o \in Restorable' => bookRem[o] = 0
      BY <3>1 DEF Restorable, Restable, StatusAfterFill
    <3> QED
      BY <1>3, <3>1, <3>2
  <2> QED
    BY <1>3, <2>2, <2>3
<1> QED
  BY <1>4, <1>5

\* What the loop takes out of the book it adds to what the match took.
LEMMA ExactMatchStep ==
  ASSUME RuntimeInv, ExactInv, MatchStep PROVE ExactInv'
<1>1. PICK m \in OrderId :
        LET q == FillQty(m) IN
        /\ BestMaker(m)
        /\ bookRem' = [bookRem EXCEPT ![m] = @ - q]
        /\ makerFill' = [makerFill EXCEPT ![m] = @ + q]
  BY DEF MatchStep
<1> DEFINE q == FillQty(m)
<1>2. rows' = rows /\ cur' = cur /\ pc' = pc
  BY DEF MatchStep, storeVars
<1>3. /\ takerRem \in Nat
      /\ makerFill \in [OrderId -> Nat] /\ bookRem \in [OrderId -> Nat]
  BY DEF RuntimeInv, TypeOK
<1>4. q \in Nat
  BY <1>3 DEF FillQty
<1> HIDE DEF q
<1>5. /\ bookRem' = [bookRem EXCEPT ![m] = bookRem[m] - q]
      /\ makerFill' = [makerFill EXCEPT ![m] = makerFill[m] + q]
  BY <1>1 DEF q
<1>6. \A o \in OrderId : bookRem'[o] + makerFill'[o] = bookRem[o] + makerFill[o]
  BY <1>3, <1>4, <1>5
<1> QED
  BY <1>2, <1>6 DEF ExactInv, BookIsLive, InTransit, InPlayQty, InsertsAreAnswered,
     CancelsAreAnswered, CommitsAreTimely, Restorable

\* A restorable row and its entry in the book part only while a call is at work on
\* them, or when the outcome of a write was lost.
LEMMA ExactStep ==
  ASSUME RuntimeInv, RuntimeInv', AnsweredInv, ExactInv, [Next]_vars
  PROVE  ExactInv'
<1> SUFFICES ASSUME CommitsAreTimely PROVE ExactInv'
  BY DEF ExactInv, CommitsAreTimely
<1> USE DEF BookIsLive, InTransit, InsertsAreAnswered, CancelsAreAnswered
<1>1. CASE UNCHANGED vars \/ PublishEvent
  <2>1. rows' = rows /\ cur' = cur /\ pc' = pc /\ bookRem' = bookRem /\ makerFill' = makerFill
    BY <1>1 DEF vars, PublishEvent, storeVars, bookVars, callVars
  <2> QED
    BY <2>1, ExactUnchanged
<1>2. ASSUME NEW s \in Sides, NEW p \in Prices, NEW q \in Quantities, SubmitOrder(s, p, q)
      PROVE  ExactInv'
  <2> DEFINE new(st) == [side |-> s, price |-> p, qty |-> q, rem |-> q, status |-> st]
  <2>1. /\ bookRem' = bookRem /\ makerFill' = makerFill /\ pc = "idle"
        /\ created + 1 \in OrderId
        /\ \/ /\ pc' = "matching" /\ cur' = created + 1
              /\ rows' = [rows EXCEPT ![created + 1] = new("open")]
           \/ /\ pc' = pc /\ cur' = cur
              /\ rows' = [rows EXCEPT ![created + 1] = new("inFlight")]
    <3>1. created < MaxOrders /\ created \in Nat
      BY <1>2, RuntimeAssumption DEF SubmitOrder, RuntimeInv, TypeOK
    <3> QED
      BY <1>2, <3>1, RuntimeAssumption DEF SubmitOrder, Insert, callVars, bookVars,
         Fault, OrderId
  <2>2. rows \in [OrderId -> Row]
    BY DEF RuntimeInv, TypeOK
  <2>3. /\ \/ pc' = "matching" /\ cur' = created + 1
           \/ rows'[created + 1].status = "inFlight"
        /\ \A o \in OrderId : o # created + 1 => rows'[o] = rows[o]
    BY <2>1, <2>2
  <2>4. ~ InPlayQty(created + 1) > 0
    <3>1. created \in Nat
      BY RuntimeAssumption DEF RuntimeInv, TypeOK
    <3> QED
      BY <2>1, <3>1 DEF RuntimeInv, BookInv, MatchRunning
  <2> HIDE DEF new
  <2>5. \A o \in OrderId : o # created + 1 =>
          /\ o \in Restorable' <=> o \in Restorable
          /\ InPlayQty(o)' = InPlayQty(o) /\ rows'[o].rem = rows[o].rem
    BY <2>1, <2>3 DEF Restorable, InPlayQty
  <2>6. \A o \in OrderId : o = created + 1 /\ ~ InTransit(o)' =>
          o \notin Restorable' /\ ~ InPlayQty(o)' > 0
    BY <2>1, <2>3, <2>4 DEF Restorable, Restable, InPlayQty
  <2> QED
    BY <2>1, <2>5, <2>6 DEF ExactInv
<1>3. CASE CancelOrder
  <2>1. /\ bookRem' = bookRem /\ makerFill' = makerFill /\ pc = "checked"
        /\ rows' = [rows EXCEPT ![cur].status = "cancelled"] /\ cur \in OrderId
        /\ pc' = "cancelling" /\ cur' = cur
    BY <1>3 DEF CancelOrder, callVars, bookVars, RuntimeInv, CallInv, Orders
  <2>2. rows \in [OrderId -> Row]
    BY DEF RuntimeInv, TypeOK
  <2>3. \A o \in OrderId : o # cur => rows'[o] = rows[o]
    BY <2>1, <2>2
  <2> QED
    BY <2>1, <2>3 DEF ExactInv, InPlayQty, Restorable, Restable
<1>9. CASE CancelFails \/ \E c \in OrderId : ReadForCancel(c)
  <2>1. /\ rows' = rows /\ bookRem' = bookRem /\ makerFill' = makerFill
        /\ pc \in {"checked", "idle"}
    BY <1>9 DEF CancelFails, ReadForCancel, storeVars, bookVars, matchVars
  <2> QED
    BY <2>1, ExactUnchanged
<1>10. CASE Landings
  <2>1. /\ bookRem' = bookRem /\ makerFill' = makerFill /\ pc' = pc /\ cur' = cur
    BY <1>10 DEF Landings, InsertLands, CancelLands, MatchLands, bookVars, callVars
  <2>2. rows \in [OrderId -> Row]
    BY DEF RuntimeInv, TypeOK
  <2>3. ASSUME NEW c \in OrderId, InsertLands(c) PROVE ExactInv'
    <3>1. ~ InsertsAreAnswered
      BY <2>3 DEF InsertLands, AnsweredInv
    <3>2. \A o \in OrderId : rows'[o] = rows[o] \/ rows'[o].status = "open"
      BY <2>2, <2>3 DEF InsertLands, Row
    <3> QED
      BY <2>1, <3>1, <3>2 DEF ExactInv, InPlayQty, Restorable, Restable
  <2>4. ASSUME NEW c \in lateCancels, CancelLands(c) PROVE ExactInv'
    <3>1. ~ CancelsAreAnswered /\ c \in OrderId
      BY <2>4 DEF RuntimeInv, LateInv, AnsweredInv, TypeOK
    <3>2. \A o \in OrderId : rows'[o] = rows[o] \/ rows'[o].status = "cancelled"
      BY <2>2, <2>4, <3>1 DEF CancelLands, Row
    <3> QED
      BY <2>1, <3>1, <3>2 DEF ExactInv, InPlayQty, Restorable, Restable
  <2> QED
    BY <1>10, <2>3, <2>4, TimelyFacts DEF Landings
<1>4. CASE CancelInBook
  <2>1. /\ rows' = rows /\ makerFill' = makerFill /\ cur' = cur /\ pc = "cancelling"
        /\ \/ bookRem' = [bookRem EXCEPT ![cur] = 0] /\ pc' = "cancelled"
           \/ bookRem' = bookRem /\ pc' = "recoverCancel"
    BY <1>4 DEF CancelInBook, storeVars, callVars
  <2>2. CASE pc' = "recoverCancel"
    BY <2>1, <2>2, ExactUnchanged
  <2>3. CASE pc' = "cancelled"
    <3>1. /\ bookRem \in [OrderId -> Nat] /\ cur \in OrderId
          /\ rows[cur].status = "cancelled" /\ makerFill[cur] = 0
      BY <2>1 DEF RuntimeInv, TypeOK, CallInv, MatchRunning
    <3>2. bookRem'[cur] = 0 /\ \A o \in OrderId \ {cur} : bookRem'[o] = bookRem[o]
      BY <2>1, <2>3, <3>1
    <3> QED
      BY <2>1, <2>3, <3>1, <3>2 DEF ExactInv, InPlayQty, InsertsAreAnswered,
         CancelsAreAnswered, Restorable, Restable
  <2> QED
    BY <2>1, <2>2, <2>3
<1>5. CASE AnswerSubmit \/ AnswerCancel
  <2>1. /\ rows' = rows /\ makerFill' = makerFill /\ bookRem' = bookRem
        /\ pc \in {"persisted", "cancelled"}
    BY <1>5 DEF AnswerSubmit, AnswerCancel, storeVars, matchVars, bookVars
  <2> QED
    BY <2>1, ExactUnchanged
<1>6. CASE MatchDone
  <2>1. /\ rows' = rows /\ makerFill' = makerFill /\ cur' = cur /\ pc = "matching"
        /\ pc' = "matched"
        /\ bookRem' = bookRem \/ bookRem' = [bookRem EXCEPT ![cur] = takerRem]
    BY <1>6 DEF MatchDone, Rest, storeVars, bookVars, callVars
  <2>2. bookRem \in [OrderId -> Nat]
    BY DEF RuntimeInv, TypeOK
  <2>3. \A o \in OrderId \ {cur} : bookRem'[o] = bookRem[o]
    BY <2>1, <2>2
  <2> QED
    BY <2>1, <2>3 DEF ExactInv, InPlayQty, InsertsAreAnswered, CancelsAreAnswered,
       Restorable
<1>7. CASE PersistFails \/ PersistLater \/ FailClosed \/ Crash
  BY <1>7 DEF PersistFails, PersistLater, FailClosed, Crash, ExactInv
<1>8. CASE RecoverBook \/ Restart
  <2>1. RebuiltBook /\ rows' = rows /\ ~ MatchRunning'
    BY <1>8 DEF RecoverBook, Restart, Release, MatchRunning, storeVars
  <2> QED
    BY <2>1, ExactRebuilt
<1> QED
  BY <1>1, <1>2, <1>3, <1>4, <1>5, <1>6, <1>7, <1>8, <1>9, <1>10, ExactMatchStep,
     ExactCommit DEF Next, Requests, Work

\* As long as a commit is over when its error comes, and whatever else fails: the book in
\* use holds nothing that is over unless a cancel was lost, and misses nothing that is
\* live unless an insert was lost.
THEOREM ExactInvariant == Spec => []ExactInv
<1>1. Init => ExactInv
  BY DEF Init, ExactInv, InPlayQty, Restorable, NoRow, Restable
<1>2. RuntimeInv /\ RuntimeInv' /\ AnsweredInv /\ ExactInv /\ [Next]_vars => ExactInv'
  BY ExactStep
<1> QED
  BY <1>1, <1>2, RuntimeInvariant, AnsweredInvariant, PTL DEF Spec

\* As long as no insert and no cancel that took effect is answered as a failure, and a
\* failed commit was executed, or never will be, when its error comes: whenever the mutex
\* is free, the book is what a restart would rebuild, remaining quantities and queues,
\* whatever rolled back, was committed unanswered, or crashed before.
THEOREM BookIsTheTable ==
  ASSUME InsertsAreAnswered, CancelsAreAnswered, CommitsAreTimely
  PROVE  Spec => []BookAgreesWithStore
<1>1. ASSUME RuntimeInv, QueueInv, ExactInv, pc = "idle" PROVE BookAgreesWithStore
  <2>1. \A o \in OrderId : bookRem[o] \in Nat /\ makerFill[o] = 0
    BY <1>1 DEF RuntimeInv, TypeOK, CallInv, MatchRunning
  <2>2. \A o \in OrderId : bookRem[o] = IF o \in Restorable THEN rows[o].rem ELSE 0
    BY <1>1, <2>1 DEF ExactInv, BookIsLive, InTransit, InPlayQty
  <2>3. \A o \in Restorable : o \in OrderId /\ rows[o].rem > 0
    BY <1>1, RowsAreRestorable DEF CanRebuild, Restorable
  <2> QED
    BY <1>1, <2>2, <2>3 DEF BookAgreesWithStore, QueueInv, QueueOrder, InBook
<1>2. RuntimeInv /\ QueueInv /\ ExactInv => BookAgreesWithStore
  BY <1>1 DEF BookAgreesWithStore
<1> QED
  BY <1>2, RuntimeInvariant, QueueInvariant, ExactInvariant, PTL

\* A row that is over is written by no step: a filled one has nothing left that a match
\* could write, a cancelled one is in no match.
LEMMA TerminalUntouched ==
  ASSUME CancelsAreAnswered, RuntimeInv, AnsweredInv, [Next]_vars,
         NEW o \in OrderId, rows[o].status \in {"filled", "cancelled"}
  PROVE  rows'[o].status = rows[o].status
<1>1. /\ rows[o].rem \in Nat /\ makerFill[o] \in Nat /\ o <= created
      /\ o \in Nat /\ created \in Nat
  <2>1. /\ rows \in [OrderId -> Row] /\ makerFill \in [OrderId -> Nat] /\ created \in Nat
        /\ o \in Nat
    BY RuntimeAssumption DEF RuntimeInv, TypeOK, OrderId
  <2> QED
    BY <2>1 DEF RuntimeInv, RowsInv, NoRow, Row
<1>2. o \notin doubted
  BY DEF AnsweredInv
<1>3. CASE PersistMatchResult
  <2>1. pc = "matched" /\ rows' = MatchedRows /\ DeltasFit
    BY <1>3 DEF PersistMatchResult, MatchIsWritten
  <2>2. o # cur
    BY <2>1 DEF RuntimeInv, CallInv, MatchRunning
  <2>3. ~ makerFill[o] > 0
    <3>1. rows[o].status = "filled" => rows[o].rem = 0
      BY <1>1 DEF RuntimeInv, RowsInv, TypeOK
    <3>2. makerFill[o] <= rows[o].rem
      BY <2>1 DEF DeltasFit
    <3> QED
      BY <1>1, <1>2, <2>1, <2>2, <3>1, <3>2, MatchedRow
  <2> QED
    BY <1>1, <2>1, <2>2, <2>3, MatchedRow
<1>4. ASSUME NEW t \in late, MatchLands(t) PROVE rows'[o] = rows[o]
  BY <1>2, <1>4, LandingFacts DEF Restable
<1> QED
  BY <1>1, <1>3, <1>4, RowChanges DEF Restable

\* As long as no cancel that took effect is answered as a failure, a filled or cancelled
\* order stays so, whatever else fails, and whenever a failed commit is executed.
THEOREM TerminalStays == ASSUME CancelsAreAnswered PROVE Spec => TerminalIsFinal
<1> DEFINE Kept == \A o \in OrderId :
                     rows[o].status \in {"filled", "cancelled"} =>
                       rows'[o].status = rows[o].status
<1>1. RuntimeInv /\ AnsweredInv /\ [Next]_vars => [Kept]_vars
  BY TerminalUntouched
<1> QED
  BY <1>1, RuntimeInvariant, AnsweredInvariant, PTL DEF Spec, TerminalIsFinal

----------------------------------------------------------------------------
(* The stream: the events tell an order's life in its order, say nothing that *)
(* was not committed, and without faults leave nothing out                    *)

Terminal == {"filled", "cancelled"}

\* Event f may stand behind event e: of an order it tells what is later in its life,
\* and a fill is told once.
MayFollow(e, f) ==
  /\ e.kind = "order" /\ IsEventOf(f, e.id) => f.rem <= e.rem /\ e.status \notin Terminal
  /\ e.kind = "trade" /\ f.kind = "trade" => e.taker # f.taker \/ e.maker # f.maker

\* An order that is over for good: filled, or cancelled and out of the book, in no match
\* and in no transaction on its way.  A book may have more of a filled order than its
\* row; no match that takes it fits the row.
Over(o) ==
  \/ rows[o].status = "filled"
  \/ rows[o].status = "cancelled" /\ bookRem[o] = 0 /\ makerFill[o] = 0 /\ ~ Locked(o)

\* What an order event told still holds of the row, which is there: no more is left to
\* fill, and what was told to be over is over.
OrderStillTrue(e) ==
  /\ e.id <= created /\ rows[e.id].status # "inFlight"
  /\ rows[e.id].rem <= e.rem
  /\ e.status \in Terminal => Over(e.id)

TradeIn(e) == [taker |-> e.taker, maker |-> e.maker, price |-> e.price, qty |-> e.qty]

\* What a trade event told is in the table, and is not of the match that is running.
TradeStillTrue(e) ==
  /\ TradeIn(e) \in trades
  /\ e.taker <= created
  /\ MatchRunning => e.taker # cur

StillTrue(e) ==
  /\ e.kind = "order" => OrderStillTrue(e)
  /\ e.kind = "trade" => TradeStillTrue(e)

\* Events wait only where the code publishes.
NothingQueued == pc \notin {"matching", "persisted", "cancelled"} => outbox = <<>>

\* A match hits no maker twice: it leaves a maker only when nothing is left of it.
MakersDiffer ==
  /\ \A i, j \in DOMAIN fills : fills[i].maker = fills[j].maker => i = j
  /\ takerRem > 0 => \A i \in DOMAIN fills : bookRem[fills[i].maker] = 0

\* The events of the stream, and behind them those that wait.
InSequence ==
  /\ \A i, j \in DOMAIN stream : i < j => MayFollow(stream[i], stream[j])
  /\ \A i \in DOMAIN stream, j \in DOMAIN outbox : MayFollow(stream[i], outbox[j])
  /\ \A i, j \in DOMAIN outbox : i < j => MayFollow(outbox[i], outbox[j])

AllStillTrue ==
  /\ \A i \in DOMAIN stream : StillTrue(stream[i])
  /\ \A i \in DOMAIN outbox : StillTrue(outbox[i])

\* The copy a cancel works with is not newer than the row and not older than what was
\* told of the order, which was not told to be over.
CopyInPlace ==
  pc \in {"checked", "cancelling", "recoverCancel"} =>
    /\ rows[cur].rem <= copy
    /\ \A i \in DOMAIN stream : IsEventOf(stream[i], cur) =>
         copy <= stream[i].rem /\ stream[i].status \notin Terminal

StreamInv == NothingQueued /\ MakersDiffer /\ InSequence /\ AllStillTrue /\ CopyInPlace

----------------------------------------------------------------------------
(* What events are *)

\* What an event of the stream or of the queue is made of.
LEMMA EventFields ==
  ASSUME TypeOK
  PROVE  /\ \A i \in DOMAIN stream :
              /\ stream[i].kind \in {"order", "trade"}
              /\ stream[i].kind = "trade" => stream[i].taker \in OrderId
              /\ stream[i].kind = "order" =>
                   /\ stream[i].id \in OrderId /\ stream[i].rem \in Nat
                   /\ stream[i].status \in Statuses
         /\ \A i \in DOMAIN outbox :
              /\ outbox[i].kind \in {"order", "trade"}
              /\ outbox[i].kind = "trade" => outbox[i].taker \in OrderId
              /\ outbox[i].kind = "order" =>
                   /\ outbox[i].id \in OrderId /\ outbox[i].rem \in Nat
                   /\ outbox[i].status \in Statuses
<1>1. ASSUME NEW e \in OrderEvents \cup TradeEvents
      PROVE  /\ e.kind \in {"order", "trade"}
             /\ e.kind = "trade" => e.taker \in OrderId
             /\ e.kind = "order" =>
                  e.id \in OrderId /\ e.rem \in Nat /\ e.status \in Statuses
  BY DEF OrderEvents, TradeEvents
<1>2. \A i \in DOMAIN stream : stream[i] \in OrderEvents \cup TradeEvents
  BY DEF TypeOK
<1>3. \A i \in DOMAIN outbox : outbox[i] \in OrderEvents \cup TradeEvents
  BY DEF TypeOK
<1> QED
  BY <1>1, <1>2, <1>3

\* The fields of an order event, by name.
LEMMA OrderEventFields ==
  ASSUME NEW r, NEW o
  PROVE  /\ OrderEvent(r, o).kind = "order" /\ OrderEvent(r, o).id = o
         /\ OrderEvent(r, o).rem = r[o].rem /\ OrderEvent(r, o).status = r[o].status
BY DEF OrderEvent

\* The fields of a trade event, by name.
LEMMA TradeEventFields ==
  ASSUME NEW f
  PROVE  /\ TradeEvent(f).kind = "trade" /\ TradeEvent(f).taker = cur
         /\ TradeEvent(f).maker = f.maker /\ TradeEvent(f).price = f.price
         /\ TradeEvent(f).qty = f.qty
BY DEF TradeEvent

\* A fill names an order.
LEMMA MakersAreOrders ==
  ASSUME TypeOK PROVE \A i \in DOMAIN fills : fills[i].maker \in OrderId
<1>1. \A i \in DOMAIN fills : fills[i] \in Fills
  BY DEF TypeOK
<1> QED
  BY <1>1 DEF Fills

\* The events of a match, by their place: the makers, the taker, the trades.
LEMMA MatchEventsAt ==
  ASSUME TypeOK
  PROVE  /\ Len(fills) \in Nat /\ DOMAIN fills = 1..Len(fills)
         /\ DOMAIN MatchEvents = 1..(2 * Len(fills) + 1)
         /\ \A i \in 1..Len(fills) :
              MatchEvents[i] = OrderEvent(MatchedRows, fills[i].maker)
         /\ MatchEvents[Len(fills) + 1] = OrderEvent(MatchedRows, cur)
         /\ \A i \in (Len(fills) + 2)..(2 * Len(fills) + 1) :
              /\ i - Len(fills) - 1 \in 1..Len(fills)
              /\ MatchEvents[i] = TradeEvent(fills[i - Len(fills) - 1])
<1> DEFINE n == Len(fills)
           ME(i) == OrderEvent(MatchedRows, fills[i].maker)
           TE(i) == TradeEvent(fills[i])
           c == OrderEvent(MatchedRows, cur)
           M == [i \in DOMAIN fills |-> ME(i)]
           T == [i \in DOMAIN fills |-> TE(i)]
           All == {ME(i) : i \in DOMAIN fills} \cup {TE(i) : i \in DOMAIN fills} \cup {c}
<1>1. n \in Nat /\ DOMAIN fills = 1..n
  BY DEF TypeOK
<1>2. /\ \A i \in DOMAIN fills : ME(i) \in All /\ TE(i) \in All
      /\ c \in All
  OBVIOUS
<1>3. MatchEvents = M \o <<c>> \o T
  BY DEF MatchEvents
<1> HIDE DEF ME, TE, c, All, n
<1>4. M \in Seq(All) /\ T \in Seq(All) /\ <<c>> \in Seq(All)
  BY <1>1, <1>2
<1>5. Len(M) = n /\ Len(T) = n /\ Len(<<c>>) = 1 /\ <<c>>[1] = c
  BY <1>1
<1>6. /\ \A i \in 1..n : M[i] = ME(i)
      /\ \A i \in 1..n : T[i] = TE(i)
  BY <1>1
<1> HIDE DEF M, T
<1>7. /\ M \o <<c>> \in Seq(All) /\ Len(M \o <<c>>) = n + 1
      /\ \A i \in 1..n : (M \o <<c>>)[i] = M[i]
      /\ (M \o <<c>>)[n + 1] = c
  BY <1>1, <1>4, <1>5
<1>8. /\ Len(M \o <<c>> \o T) = 2 * n + 1
      /\ DOMAIN (M \o <<c>> \o T) = 1..(2 * n + 1)
      /\ \A i \in 1..(n + 1) : (M \o <<c>> \o T)[i] = (M \o <<c>>)[i]
      /\ \A i \in (n + 2)..(2 * n + 1) : /\ i - n - 1 \in 1..n
                                         /\ (M \o <<c>> \o T)[i] = T[i - n - 1]
  <2> DEFINE front == M \o <<c>>
  <2>1. front \in Seq(All) /\ Len(front) = n + 1
    BY <1>7
  <2> HIDE DEF front
  <2>2. /\ front \o T \in Seq(All) /\ Len(front \o T) = 2 * n + 1
        /\ \A i \in 1..(2 * n + 1) :
             (front \o T)[i] = IF i <= n + 1 THEN front[i] ELSE T[i - n - 1]
    <3>1. /\ Len(front \o T) = Len(front) + Len(T)
          /\ front \o T \in Seq(All)
          /\ \A i \in 1..(Len(front) + Len(T)) :
               (front \o T)[i] = IF i <= Len(front) THEN front[i] ELSE T[i - Len(front)]
      BY <1>4, <2>1, ConcatProperties
    <3>2. Len(front) + Len(T) = 2 * n + 1
      BY <1>1, <1>5, <2>1
    <3>3. \A i \in 1..(2 * n + 1) : i - Len(front) = i - n - 1
      BY <1>1, <2>1
    <3> QED
      BY <2>1, <3>1, <3>2, <3>3
  <2>3. DOMAIN (front \o T) = 1..(2 * n + 1)
    BY <2>2
  <2>4. \A i \in (n + 2)..(2 * n + 1) :
          i \in 1..(2 * n + 1) /\ ~ i <= n + 1 /\ i - n - 1 \in 1..n
    BY <1>1
  <2>5. \A i \in 1..(n + 1) : i \in 1..(2 * n + 1) /\ i <= n + 1
    BY <1>1
  <2> QED
    BY <2>2, <2>3, <2>4, <2>5 DEF front
<1> QED
  BY <1>1, <1>3, <1>6, <1>7, <1>8 DEF ME, TE, c, n

----------------------------------------------------------------------------
(* What a step does to a row *)

\* Of an order that was there before the step no more is left to fill after it.
LEMMA RemOnlyShrinks ==
  ASSUME RuntimeInv, [Next]_vars, NEW o \in OrderId, o <= created
  PROVE  rows'[o].rem <= rows[o].rem
<1>1. rows[o].rem \in Nat /\ rows[o].qty \in Nat
  BY DEF RuntimeInv, TypeOK, Row
<1>2. ASSUME PersistMatchResult PROVE rows'[o].rem <= rows[o].rem
  <2>1. rows' = MatchedRows /\ pc = "matched" /\ DeltasFit
    BY <1>2 DEF PersistMatchResult, MatchIsWritten
  <2>2. makerFill[o] \in Nat /\ takerRem \in Nat
    BY DEF RuntimeInv, TypeOK
  <2>3. o = cur => takerRem <= rows[o].rem
    BY <1>1, <2>1, <2>2, TakerStatusFits
  <2>4. MatchedRows[o] \in Row
    BY <2>1, MatchedRow
  <2> QED
    BY <1>1, <2>1, <2>2, <2>3, <2>4, MatchedRow DEF Row
<1>3. ASSUME NEW t \in late, MatchLands(t) PROVE rows'[o].rem <= rows[o].rem
  <2>1. rows'[o] \in Row /\ (rows'[o] = rows[o] \/ rows'[o].rem < rows[o].rem)
    BY <1>3, LandingFacts
  <2> QED
    BY <1>1, <2>1 DEF Row
<1> QED
  BY <1>1, <1>2, <1>3, RowChanges

\* What is over for good stays so.
LEMMA OverStaysOver ==
  ASSUME RuntimeInv, [Next]_vars, NEW o \in OrderId, o <= created, Over(o)
  PROVE  Over(o)'
<1>0. CASE rows[o].status = "filled"
  <2>1. /\ rows[o].rem \in Nat /\ makerFill[o] \in Nat /\ o \in Nat /\ created \in Nat
    BY RuntimeAssumption DEF RuntimeInv, TypeOK, Row, OrderId
  <2>2. rows[o].rem = 0 /\ (MatchRunning => o # cur)
    BY <1>0, <2>1 DEF RuntimeInv, RowsInv, CallInv
  <2>3. ~ (PersistMatchResult /\ o \in Touched)
    BY <2>1, <2>2 DEF PersistMatchResult, MatchIsWritten, MatchRunning, DeltasFit, Touched
  <2>4. ASSUME NEW t \in late, MatchLands(t) PROVE rows'[o] = rows[o]
    BY <1>0, <2>4, LandingFacts DEF Restable
  <2>5. rows'[o].status = "filled"
    BY <1>0, <2>3, <2>4, RowChanges DEF Restable
  <2> QED
    BY <2>5 DEF Over
<1> SUFFICES ASSUME rows[o].status = "cancelled", bookRem[o] = 0, makerFill[o] = 0, ~ Locked(o)
             PROVE  /\ rows'[o].status = "cancelled" /\ bookRem'[o] = 0 /\ makerFill'[o] = 0
                    /\ ~ Locked(o)'
  BY <1>0 DEF Over, Locked, Updates
<1>1. /\ bookRem \in [OrderId -> Nat] /\ makerFill \in [OrderId -> Nat]
      /\ MatchRunning => o # cur
  BY DEF RuntimeInv, TypeOK, CallInv
<1>2. rows'[o].status = "cancelled"
  <2>1. ~ (PersistMatchResult /\ o \in Touched)
    BY <1>1 DEF PersistMatchResult, MatchIsWritten, MatchRunning, Touched
  <2> QED
    BY <2>1, RowChanges DEF Restable, Locked
<1>3. CASE bookRem' = bookRem /\ makerFill' = makerFill /\ late' = late
  BY <1>2, <1>3 DEF Locked, Updates
<1>4. ASSUME NEW s \in Sides, NEW p \in Prices, NEW q \in Quantities, SubmitOrder(s, p, q)
      PROVE  bookRem' = bookRem /\ makerFill' = makerFill /\ late' = late
  BY <1>4 DEF SubmitOrder, Insert, bookVars, callVars
<1>5. CASE PublishEvent \/ AnswerSubmit \/ AnswerCancel \/ FailClosed
            \/ CancelOrder \/ CancelFails \/ \E c \in OrderId : ReadForCancel(c)
  BY <1>3, <1>5 DEF PublishEvent, AnswerSubmit, AnswerCancel, FailClosed, CancelOrder,
     CancelFails, ReadForCancel, storeVars, bookVars, callVars, matchVars
<1>6. CASE Landings
  <2>1. bookRem' = bookRem /\ makerFill' = makerFill /\ late' \subseteq late
    BY <1>6 DEF Landings, InsertLands, CancelLands, MatchLands, bookVars, callVars
  <2> QED
    BY <1>2, <2>1 DEF Locked, Updates
<1>7. CASE MatchStep
  <2>1. PICK m \in OrderId :
          /\ BestMaker(m)
          /\ bookRem' = [bookRem EXCEPT ![m] = @ - FillQty(m)]
          /\ makerFill' = [makerFill EXCEPT ![m] = @ + FillQty(m)]
    BY <1>7 DEF MatchStep
  <2>2. bookRem[m] > 0 /\ late' = late
    BY <1>7, <2>1 DEF MatchStep, BestMaker, Opposite, InBook, storeVars
  <2> QED
    BY <1>1, <1>2, <2>1, <2>2 DEF Locked, Updates
<1>8. CASE MatchDone \/ CancelInBook
  <2>1. /\ makerFill' = makerFill /\ late' = late
        /\ \/ bookRem' = bookRem
           \/ bookRem' = [bookRem EXCEPT ![cur] = takerRem] /\ MatchRunning
           \/ bookRem' = [bookRem EXCEPT ![cur] = 0]
    BY <1>8 DEF MatchDone, CancelInBook, Rest, storeVars, bookVars, callVars, MatchRunning
  <2> QED
    BY <1>1, <1>2, <2>1 DEF Locked, Updates
<1>9. CASE PersistMatchResult \/ PersistFails
  <2>1. /\ bookRem' = bookRem /\ makerFill'[o] = 0 /\ late' = late
    BY <1>9, DropMatchType DEF PersistMatchResult, PersistFails, storeVars, bookVars
  <2> QED
    BY <1>2, <2>1 DEF Locked, Updates
<1>10. CASE PersistLater
  <2> DEFINE n == [taker |-> cur, trades |-> NewTrades, rows |-> UpdatedRows]
  <2>1. /\ bookRem' = bookRem /\ makerFill'[o] = 0 /\ late' = late \cup {n}
        /\ pc = "matched" /\ n.rows = UpdatedRows
    BY <1>10, DropMatchType DEF PersistLater, MatchIsWritten, bookVars
  <2> HIDE DEF n
  <2>2. o \notin Touched
    BY <1>1, <2>1 DEF MatchRunning, Touched
  <2>3. UpdatedRows[o] = NoRow
    BY <2>2 DEF UpdatedRows
  <2> QED
    BY <1>2, <2>1, <2>3 DEF Locked, Updates
<1>11. CASE RecoverBook \/ Restart
  <2>1. /\ makerFill' = makerFill /\ late' = late
        /\ bookRem' = [p \in OrderId |-> IF p \in Restorable THEN rows[p].rem ELSE 0]
    BY <1>11 DEF RecoverBook, Restart, RebuiltBook, storeVars, callVars, matchVars
  <2>2. bookRem'[o] = 0
    BY <2>1 DEF Restorable, Restable
  <2> QED
    BY <1>2, <2>1, <2>2 DEF Locked, Updates
<1>12. CASE Crash
  <2>1. bookRem'[o] = 0 /\ makerFill'[o] = 0 /\ late' = late
    BY <1>12, DropMatchType DEF Crash, EmptyBook, storeVars
  <2> QED
    BY <1>2, <2>1 DEF Locked, Updates
<1>13. CASE UNCHANGED vars
  BY <1>3, <1>13 DEF vars, storeVars, bookVars, callVars
<1> QED
  BY <1>3, <1>4, <1>5, <1>6, <1>7, <1>8, <1>9, <1>10, <1>11, <1>12, <1>13
     DEF Next, Requests, Work

\* The trades table only grows, and no event told before a match is of its taker.
LEMMA TradesOnlyGrow ==
  ASSUME RuntimeInv, RuntimeInv', [Next]_vars
  PROVE  /\ trades \subseteq trades' /\ created <= created'
         /\ MatchRunning' => (cur' = cur /\ MatchRunning) \/ cur' = created + 1
<1>1. created \in Nat
  BY RuntimeAssumption DEF RuntimeInv, TypeOK
<1>2. ASSUME NEW s \in Sides, NEW p \in Prices, NEW q \in Quantities, SubmitOrder(s, p, q)
      PROVE  /\ trades' = trades /\ created' = created + 1
             /\ MatchRunning' => cur' = created + 1
  BY <1>2 DEF SubmitOrder, Insert, MatchRunning
<1>3. CASE CancelOrder \/ CancelFails \/ \E o \in OrderId : ReadForCancel(o)
  BY <1>1, <1>3 DEF CancelOrder, CancelFails, ReadForCancel, Release, MatchRunning, storeVars
<1>4. CASE PublishEvent \/ MatchStep \/ MatchDone
  BY <1>1, <1>4 DEF PublishEvent, MatchStep, MatchDone, MatchRunning, storeVars, callVars
<1>5. CASE PersistMatchResult \/ PersistFails \/ PersistLater
  BY <1>1, <1>5 DEF PersistMatchResult, PersistFails, PersistLater, MatchRunning, storeVars
<1>6. CASE AnswerSubmit \/ AnswerCancel \/ CancelInBook \/ RecoverBook
  BY <1>1, <1>6 DEF AnswerSubmit, AnswerCancel, CancelInBook, RecoverBook, Release,
     MatchRunning, storeVars
<1>7. CASE FailClosed \/ Crash \/ Restart
  BY <1>1, <1>7 DEF FailClosed, Crash, Restart, MatchRunning, storeVars
<1>8. CASE UNCHANGED vars
  BY <1>1, <1>8 DEF vars, storeVars, callVars, MatchRunning
<1>9. CASE Landings
  BY <1>1, <1>9 DEF Landings, InsertLands, CancelLands, MatchLands, MatchRunning, callVars
<1> QED
  BY <1>1, <1>2, <1>3, <1>4, <1>5, <1>6, <1>7, <1>8, <1>9 DEF Next, Requests, Work

\* A match goes on hitting makers it has not hit: it leaves a maker only when the
\* book has nothing left of it.
LEMMA MakersStayDifferent ==
  ASSUME RuntimeInv, RuntimeInv', MakersDiffer, [Next]_vars
  PROVE  MakersDiffer'
<1>1. /\ takerRem \in Nat /\ fills \in Seq(Fills)
      /\ bookRem \in [OrderId -> Nat] /\ makerFill \in [OrderId -> Nat]
  BY DEF RuntimeInv, TypeOK
<1>2. CASE fills' = <<>>
  BY <1>2 DEF MakersDiffer
<1>3. CASE ~ MatchRunning'
  <2>1. fills' = <<>>
    BY <1>3 DEF RuntimeInv, CallInv
  <2> QED
    BY <1>2, <2>1
<1>4. CASE UNCHANGED vars \/ PublishEvent \/ Landings
  BY <1>4 DEF vars, PublishEvent, Landings, InsertLands, CancelLands, MatchLands, callVars,
     bookVars, MakersDiffer
<1>5. ASSUME NEW s \in Sides, NEW p \in Prices, NEW q \in Quantities, SubmitOrder(s, p, q)
      PROVE  MakersDiffer'
  <2>1. fills' = fills /\ pc = "idle"
    BY <1>5 DEF SubmitOrder, callVars
  <2>2. fills = <<>>
    BY <2>1 DEF RuntimeInv, CallInv, MatchRunning
  <2> QED
    BY <1>2, <2>1, <2>2
<1>6. CASE MatchStep
  <2>1. PICK m \in OrderId :
          /\ BestMaker(m)
          /\ bookRem' = [bookRem EXCEPT ![m] = @ - FillQty(m)]
          /\ takerRem' = takerRem - FillQty(m)
          /\ fills' = Append(fills, [maker |-> m, price |-> rows[m].price,
                                     qty |-> FillQty(m)])
    BY <1>6 DEF MatchStep
  <2>2. bookRem[m] > 0 /\ takerRem > 0
    BY <1>6, <2>1 DEF MatchStep, BestMaker, Opposite, InBook
  <2>3. \A i \in DOMAIN fills : bookRem[fills[i].maker] = 0
    BY <2>2 DEF MakersDiffer
  <2>4. \A i \in DOMAIN fills : fills[i].maker # m /\ fills[i].maker \in OrderId
    <3>1. \A i \in DOMAIN fills : fills[i].maker \in OrderId
      BY MakersAreOrders DEF RuntimeInv
    <3> QED
      BY <2>2, <2>3, <3>1
  <2>5. /\ DOMAIN fills = 1..Len(fills) /\ Len(fills) \in Nat
        /\ DOMAIN fills' = 1..(Len(fills) + 1)
        /\ \A i \in DOMAIN fills : fills'[i] = fills[i]
        /\ fills'[Len(fills) + 1].maker = m
    BY <1>1, <2>1
  <2>6. takerRem' > 0 => bookRem'[m] = 0
    BY <1>1, <2>1, <2>2 DEF FillQty
  <2>7. takerRem' > 0 => \A i \in DOMAIN fills' : bookRem'[fills'[i].maker] = 0
    <3>1. \A i \in DOMAIN fills : bookRem'[fills[i].maker] = 0
      BY <1>1, <2>1, <2>3, <2>4
    <3> QED
      BY <2>5, <2>6, <3>1
  <2>8. ASSUME NEW i \in DOMAIN fills', NEW j \in DOMAIN fills',
               fills'[i].maker = fills'[j].maker
        PROVE  i = j
    <3>1. CASE i \in DOMAIN fills /\ j \in DOMAIN fills
      BY <2>5, <2>8, <3>1 DEF MakersDiffer
    <3>2. CASE i = Len(fills) + 1 /\ j \in DOMAIN fills
      BY <2>4, <2>5, <2>8, <3>2
    <3>3. CASE j = Len(fills) + 1 /\ i \in DOMAIN fills
      BY <2>4, <2>5, <2>8, <3>3
    <3>4. CASE i = Len(fills) + 1 /\ j = Len(fills) + 1
      BY <3>4
    <3> QED
      BY <2>5, <3>1, <3>2, <3>3, <3>4
  <2> QED
    BY <2>7, <2>8 DEF MakersDiffer
<1>7. CASE MatchDone
  <2>1. /\ fills' = fills /\ takerRem' = takerRem /\ pc = "matching"
        /\ bookRem' = bookRem \/ bookRem' = [bookRem EXCEPT ![cur] = takerRem]
    BY <1>7 DEF MatchDone, Rest, bookVars, callVars
  <2>2. makerFill[cur] = 0 /\ \A i \in DOMAIN fills : makerFill[fills[i].maker] > 0
    BY <2>1 DEF RuntimeInv, CallInv, MatchRunning
  <2>3. \A i \in DOMAIN fills : fills[i].maker \in OrderId
    BY MakersAreOrders DEF RuntimeInv
  <2>4. \A i \in DOMAIN fills : bookRem'[fills[i].maker] = bookRem[fills[i].maker]
    BY <1>1, <2>1, <2>2, <2>3
  <2> QED
    BY <2>1, <2>4 DEF MakersDiffer
<1>8. CASE \/ PersistMatchResult \/ PersistFails \/ AnswerSubmit \/ CancelInBook
           \/ AnswerCancel \/ RecoverBook \/ FailClosed \/ Crash \/ Restart
           \/ PersistLater \/ CancelOrder \/ CancelFails \/ \E o \in OrderId : ReadForCancel(o)
  <2>1. ~ MatchRunning'
    BY <1>8 DEF PersistMatchResult, PersistFails, PersistLater, AnswerSubmit, CancelInBook,
       AnswerCancel, RecoverBook, FailClosed, Crash, Restart, CancelOrder, CancelFails,
       ReadForCancel, Release, MatchRunning
  <2> QED
    BY <1>3, <2>1
<1> QED
  BY <1>4, <1>5, <1>6, <1>7, <1>8 DEF Next, Requests, Work

----------------------------------------------------------------------------
(* The stream goes on *)

Events == OrderEvents \cup TradeEvents

\* A row that is there stays there.
LEMMA InsertedStays ==
  ASSUME RuntimeInv, [Next]_vars, NEW o \in OrderId, o <= created, rows[o].status # "inFlight"
  PROVE  rows'[o].status # "inFlight"
<1>1. \A r \in Nat : StatusAfterFill(r) # "inFlight"
  BY DEF StatusAfterFill
<1>2. ASSUME PersistMatchResult, o \in Touched PROVE rows'[o].status # "inFlight"
  <2>1. rows' = MatchedRows /\ pc = "matched" /\ DeltasFit
    BY <1>2 DEF PersistMatchResult, MatchIsWritten
  <2>2. o = cur => MatchedRows[o].status = TakerStatus
    BY <2>1, MatchedRow
  <2>3. o # cur => MatchedRows[o].status \in {StatusAfterFill(r) : r \in Nat}
    BY <1>2, <2>1, MatchedRow DEF Touched
  <2>4. TakerStatus # "inFlight"
    BY DEF TakerStatus, StatusAfterFill
  <2> QED
    BY <1>1, <2>1, <2>2, <2>3, <2>4
<1>3. ASSUME NEW t \in late, MatchLands(t), Updates(t, o) PROVE rows'[o].status # "inFlight"
  <2>1. rows'[o] = t.rows[o] \/ rows'[o] = rows[o]
    BY <1>3 DEF MatchLands
  <2>2. t.rows[o].status = rows[o].status \/ t.rows[o].status = StatusAfterFill(t.rows[o].rem)
    BY <1>3 DEF RuntimeInv, LateInv, LateRow
  <2> QED
    BY <2>1, <2>2 DEF StatusAfterFill
<1> QED
  BY <1>2, <1>3, RowChanges

\* What an event told is not taken back by any step.
LEMMA TruthIsKept ==
  ASSUME RuntimeInv, RuntimeInv', [Next]_vars
  PROVE  \A e \in Events : StillTrue(e) => StillTrue(e)'
<1> SUFFICES ASSUME NEW e \in Events, StillTrue(e)
             PROVE  /\ e.kind = "order" => OrderStillTrue(e)'
                    /\ e.kind = "trade" => TradeStillTrue(e)'
  BY DEF StillTrue, OrderStillTrue, TradeStillTrue, TradeIn,
     MatchRunning, Over, Locked, Updates
<1>1. ASSUME e.kind = "order" PROVE OrderStillTrue(e)'
  <2>1. e.id \in OrderId /\ e.rem \in Nat
    BY <1>1 DEF Events, OrderEvents, TradeEvents
  <2>2. /\ e.id <= created /\ rows[e.id].status # "inFlight" /\ rows[e.id].rem <= e.rem
        /\ e.status \in Terminal => Over(e.id)
    BY <1>1 DEF StillTrue, OrderStillTrue
  <2>3. /\ rows'[e.id].rem <= rows[e.id].rem
        /\ e.status \in Terminal => Over(e.id)'
        /\ rows'[e.id].status # "inFlight"
    BY <2>1, <2>2, RemOnlyShrinks, OverStaysOver, InsertedStays
  <2>5. e.id <= created'
    <3>1. created \in Nat /\ created' \in Nat
      BY RuntimeAssumption DEF RuntimeInv, TypeOK
    <3>2. e.id \in Nat
      BY <2>1, RuntimeAssumption DEF OrderId
    <3> QED
      BY <2>2, <3>1, <3>2, AnswersOnlyGrow
  <2>4. rows[e.id].rem \in Nat /\ rows'[e.id].rem \in Nat
    <3>1. rows \in [OrderId -> Row] /\ rows' \in [OrderId -> Row]
      BY DEF RuntimeInv, TypeOK
    <3> QED
      BY <2>1, <3>1 DEF Row
  <2> QED
    BY <2>1, <2>2, <2>3, <2>4, <2>5 DEF OrderStillTrue, Over, Locked, Updates
<1>2. ASSUME e.kind = "trade" PROVE TradeStillTrue(e)'
  <2>1. e.taker \in Nat /\ created \in Nat /\ created' \in Nat
    <3>1. e.taker \in OrderId
      BY <1>2 DEF Events, OrderEvents, TradeEvents
    <3>2. created \in Nat /\ created' \in Nat
      BY RuntimeAssumption DEF RuntimeInv, TypeOK
    <3> QED
      BY <3>1, <3>2, RuntimeAssumption DEF OrderId
  <2>2. TradeIn(e) \in trades /\ e.taker <= created /\ (MatchRunning => e.taker # cur)
    BY <1>2 DEF StillTrue, TradeStillTrue
  <2> HIDE DEF MatchRunning
  <2> QED
    BY <2>1, <2>2, TradesOnlyGrow DEF TradeStillTrue, TradeIn
<1> QED
  BY <1>1, <1>2

\* What waited is what waits, or is lost; the stream is as it was.
LEMMA WireUnchanged ==
  ASSUME RuntimeInv, RuntimeInv', StreamInv, [Next]_vars,
         stream' = stream, outbox' = outbox \/ outbox' = <<>>
  PROVE  InSequence' /\ AllStillTrue'
<1>1. /\ \A i \in DOMAIN stream : stream[i] \in Events
      /\ \A i \in DOMAIN outbox : outbox[i] \in Events
  BY DEF RuntimeInv, TypeOK, Events
<1>2. DOMAIN outbox' = {} \/ outbox' = outbox
  OBVIOUS
<1>3. \A e \in Events : StillTrue(e) => StillTrue(e)'
  BY TruthIsKept
<1>4. InSequence'
  BY <1>2 DEF StreamInv, InSequence, MayFollow, IsEventOf
<1>5. AllStillTrue'
  <2>1. \A i \in DOMAIN stream : StillTrue(stream[i])'
    <3> SUFFICES ASSUME NEW i \in DOMAIN stream, NEW e \in Events, e = stream[i]
                 PROVE  StillTrue(stream[i])'
      BY <1>1
    <3>1. StillTrue(e)'
      BY <1>3 DEF StreamInv, AllStillTrue
    <3> QED
      BY <3>1 DEF StillTrue, OrderStillTrue, TradeStillTrue, TradeIn,
     MatchRunning, Over, Locked, Updates
  <2>2. \A i \in DOMAIN outbox' : StillTrue(outbox[i])'
    <3> SUFFICES ASSUME NEW i \in DOMAIN outbox', NEW e \in Events, e = outbox[i],
                        outbox' = outbox
                 PROVE  StillTrue(outbox[i])'
      BY <1>1, <1>2
    <3>1. StillTrue(e)'
      BY <1>3 DEF StreamInv, AllStillTrue
    <3> QED
      BY <3>1 DEF StillTrue, OrderStillTrue, TradeStillTrue, TradeIn,
     MatchRunning, Over, Locked, Updates
  <2> QED
    BY <2>1, <2>2 DEF AllStillTrue
<1> QED
  BY <1>4, <1>5

\* Nothing waited, and a call queues events that may stand behind the stream's.
LEMMA WireQueued ==
  ASSUME RuntimeInv, RuntimeInv', StreamInv, [Next]_vars, outbox = <<>>, stream' = stream,
         \A i \in DOMAIN stream, j \in DOMAIN outbox' : MayFollow(stream[i], outbox'[j]),
         \A i, j \in DOMAIN outbox' : i < j => MayFollow(outbox'[i], outbox'[j]),
         \A j \in DOMAIN outbox' : StillTrue(outbox[j])'
  PROVE  InSequence' /\ AllStillTrue'
<1>1. \A i \in DOMAIN stream : stream[i] \in Events
  BY DEF RuntimeInv, TypeOK, Events
<1>2. \A e \in Events : StillTrue(e) => StillTrue(e)'
  BY TruthIsKept
<1>3. \A i \in DOMAIN stream' : StillTrue(stream[i])'
  <2> SUFFICES ASSUME NEW i \in DOMAIN stream, NEW e \in Events, e = stream[i]
               PROVE  StillTrue(stream[i])'
    BY <1>1
  <2>1. StillTrue(e)'
    BY <1>2 DEF StreamInv, AllStillTrue
  <2> QED
    BY <2>1 DEF StillTrue, OrderStillTrue, TradeStillTrue, TradeIn,
     MatchRunning, Over, Locked, Updates
<1>4. InSequence'
  BY DEF StreamInv, InSequence, MayFollow, IsEventOf
<1> QED
  BY <1>3, <1>4 DEF AllStillTrue

\* Where the events are after one of them was handed to the stream, or was lost.
LEMMA PublishShape ==
  ASSUME TypeOK, PublishEvent
  PROVE  /\ 1 \in DOMAIN outbox
         /\ \A j \in DOMAIN outbox' : j + 1 \in DOMAIN outbox /\ outbox'[j] = outbox[j + 1]
         /\ \A j \in DOMAIN outbox : j = 1 \/ j - 1 \in DOMAIN outbox'
         /\ Len(stream) \in Nat /\ DOMAIN stream = 1..Len(stream)
         /\ \/ stream' = stream
            \/ /\ DOMAIN stream' = 1..(Len(stream) + 1)
               /\ \A i \in DOMAIN stream : stream'[i] = stream[i]
               /\ stream'[Len(stream) + 1] = outbox[1]
<1>1. stream \in Seq(Events) /\ outbox \in Seq(Events) /\ outbox # <<>>
  BY DEF TypeOK, PublishEvent, Events
<1>2. /\ outbox' = Tail(outbox)
      /\ stream' = stream \/ stream' = Append(stream, Head(outbox))
  BY DEF PublishEvent
<1>3. Len(outbox) \in Nat /\ DOMAIN outbox = 1..Len(outbox) /\ Len(outbox) # 0
  BY <1>1, EmptySeq
<1>4. 1 \in DOMAIN outbox /\ Head(outbox) = outbox[1]
  BY <1>1, <1>3
<1>5. \A j \in DOMAIN outbox' : j + 1 \in DOMAIN outbox /\ outbox'[j] = outbox[j + 1]
  BY <1>1, <1>2, <1>3, HeadTailProperties
<1>6. \A j \in DOMAIN outbox : j = 1 \/ j - 1 \in DOMAIN outbox'
  <2>1. DOMAIN outbox' = 1..(Len(outbox) - 1)
    BY <1>1, <1>2, HeadTailProperties, LenProperties
  <2> QED
    BY <1>3, <2>1
<1>7. Len(stream) \in Nat /\ DOMAIN stream = 1..Len(stream)
  BY <1>1
<1>8. stream' = Append(stream, Head(outbox)) =>
        /\ DOMAIN stream' = 1..(Len(stream) + 1)
        /\ \A i \in DOMAIN stream : stream'[i] = stream[i]
        /\ stream'[Len(stream) + 1] = outbox[1]
  BY <1>1, <1>4, <1>7, AppendProperties
<1> QED
  BY <1>2, <1>4, <1>5, <1>7, <1>8, <1>6

\* The first that waits becomes the last of the stream, or is lost.
LEMMA PublishKeepsSequence ==
  ASSUME RuntimeInv, RuntimeInv', StreamInv, PublishEvent
  PROVE  InSequence' /\ AllStillTrue'
<1> DEFINE n == Len(stream)
<1>1. /\ 1 \in DOMAIN outbox
      /\ \A j \in DOMAIN outbox' : j + 1 \in DOMAIN outbox /\ outbox'[j] = outbox[j + 1]
      /\ n \in Nat /\ DOMAIN stream = 1..n
      /\ \/ stream' = stream
         \/ /\ DOMAIN stream' = 1..(n + 1)
            /\ \A i \in DOMAIN stream : stream'[i] = stream[i]
            /\ stream'[n + 1] = outbox[1]
  BY PublishShape DEF RuntimeInv
<1>2. \A j \in DOMAIN outbox' : j \in Nat /\ j >= 1
  BY DEF RuntimeInv, TypeOK
<1>3. /\ rows' = rows /\ created' = created /\ bookRem' = bookRem /\ makerFill' = makerFill
      /\ trades' = trades /\ pc' = pc /\ cur' = cur /\ late' = late
  BY DEF PublishEvent, storeVars, bookVars, callVars
<1> HIDE DEF n
\* What stands behind what, and what is still true, place by place.
<1>4. \A j \in DOMAIN outbox' : StillTrue(outbox[j])'
  <2> SUFFICES ASSUME NEW j \in DOMAIN outbox' PROVE StillTrue(outbox[j])'
    OBVIOUS
  <2>1. StillTrue(outbox[j + 1])
    BY <1>1 DEF StreamInv, AllStillTrue
  <2> QED
    BY <1>1, <1>3, <2>1 DEF StillTrue, OrderStillTrue, TradeStillTrue, TradeIn,
       MatchRunning, Over, Locked, Updates
<1>5. \A i, j \in DOMAIN outbox' : i < j => MayFollow(outbox'[i], outbox'[j])
  <2> SUFFICES ASSUME NEW i \in DOMAIN outbox', NEW j \in DOMAIN outbox', i < j
               PROVE  MayFollow(outbox'[i], outbox'[j])
    OBVIOUS
  <2>1. i + 1 < j + 1
    BY <1>2
  <2>2. MayFollow(outbox[i + 1], outbox[j + 1])
    BY <1>1, <2>1 DEF StreamInv, InSequence
  <2> QED
    BY <1>1, <2>2
<1>6. CASE stream' = stream
  <2>1. \A i \in DOMAIN stream : StillTrue(stream[i])'
    BY <1>3, <1>6 DEF StreamInv, AllStillTrue, StillTrue,
       OrderStillTrue, TradeStillTrue, TradeIn, MatchRunning, Over, Locked, Updates
  <2>2. \A i \in DOMAIN stream, j \in DOMAIN outbox' : MayFollow(stream[i], outbox'[j])
    BY <1>1 DEF StreamInv, InSequence
  <2>3. InSequence'
    BY <1>5, <1>6, <2>2 DEF StreamInv, InSequence, MayFollow, IsEventOf
  <2> QED
    BY <1>4, <1>6, <2>1, <2>3 DEF AllStillTrue
<1>7. CASE /\ DOMAIN stream' = 1..(n + 1)
           /\ \A i \in DOMAIN stream : stream'[i] = stream[i]
           /\ stream'[n + 1] = outbox[1]
  <2>1. \A i \in DOMAIN stream' : StillTrue(stream[i])'
    <3> SUFFICES ASSUME NEW i \in DOMAIN stream' PROVE StillTrue(stream[i])'
      OBVIOUS
    <3>1. CASE i \in DOMAIN stream
      <4>1. StillTrue(stream[i]) /\ stream'[i] = stream[i]
        BY <1>7, <3>1 DEF StreamInv, AllStillTrue
      <4> QED
        BY <1>3, <4>1 DEF StillTrue, OrderStillTrue, TradeStillTrue, TradeIn,
     MatchRunning, Over, Locked, Updates
    <3>2. CASE i = n + 1
      <4>1. StillTrue(outbox[1]) /\ stream'[i] = outbox[1]
        BY <1>1, <1>7, <3>2 DEF StreamInv, AllStillTrue
      <4> QED
        BY <1>3, <4>1 DEF StillTrue, OrderStillTrue, TradeStillTrue, TradeIn,
     MatchRunning, Over, Locked, Updates
    <3> QED
      BY <1>1, <1>7, <3>1, <3>2
  <2>2. \A i \in DOMAIN stream', j \in DOMAIN outbox' : MayFollow(stream'[i], outbox'[j])
    <3> SUFFICES ASSUME NEW i \in DOMAIN stream', NEW j \in DOMAIN outbox'
                 PROVE  MayFollow(stream'[i], outbox'[j])
      OBVIOUS
    <3>1. CASE i \in DOMAIN stream
      <4>1. MayFollow(stream[i], outbox[j + 1])
        BY <1>1, <3>1 DEF StreamInv, InSequence
      <4> QED
        BY <1>1, <1>7, <3>1, <4>1
    <3>2. CASE i = n + 1
      <4>1. 1 < j + 1
        BY <1>2
      <4>2. MayFollow(outbox[1], outbox[j + 1])
        BY <1>1, <4>1 DEF StreamInv, InSequence
      <4> QED
        BY <1>1, <1>7, <3>2, <4>2
    <3> QED
      BY <1>1, <1>7, <3>1, <3>2
  <2>3. \A i, j \in DOMAIN stream' : i < j => MayFollow(stream'[i], stream'[j])
    <3> SUFFICES ASSUME NEW i \in DOMAIN stream', NEW j \in DOMAIN stream', i < j
                 PROVE  MayFollow(stream'[i], stream'[j])
      OBVIOUS
    <3>1. i \in DOMAIN stream /\ i \in Nat
      BY <1>1, <1>7
    <3>2. CASE j \in DOMAIN stream
      <4>1. MayFollow(stream[i], stream[j])
        BY <3>1, <3>2 DEF StreamInv, InSequence
      <4> QED
        BY <1>7, <3>1, <3>2, <4>1
    <3>3. CASE j = n + 1
      <4>1. MayFollow(stream[i], outbox[1])
        BY <1>1, <3>1 DEF StreamInv, InSequence
      <4> QED
        BY <1>7, <3>1, <3>3, <4>1
    <3> QED
      BY <1>1, <1>7, <3>2, <3>3
  <2>4. InSequence'
    BY <1>5, <2>2, <2>3 DEF InSequence, MayFollow, IsEventOf
  <2> QED
    BY <1>4, <2>1, <2>4 DEF AllStillTrue
<1> QED
  BY <1>1, <1>6, <1>7

\* The one event of a submit or a cancel.
LEMMA SingletonQueued ==
  ASSUME RuntimeInv, RuntimeInv', StreamInv, [Next]_vars, outbox = <<>>, stream' = stream,
         NEW e \in OrderEvents, outbox' = <<e>>,
         \A i \in DOMAIN stream : MayFollow(stream[i], e),
         StillTrue(e)'
  PROVE  InSequence' /\ AllStillTrue'
<1>1. DOMAIN outbox' = {1} /\ outbox'[1] = e
  OBVIOUS
<1>2. \A j \in DOMAIN outbox' : StillTrue(outbox[j])'
  BY <1>1 DEF StillTrue, OrderStillTrue, TradeStillTrue, TradeIn,
     MatchRunning, Over, Locked, Updates
<1>3. \A i, j \in DOMAIN outbox' : ~ i < j
  BY <1>1
<1>4. \A i \in DOMAIN stream, j \in DOMAIN outbox' : MayFollow(stream[i], outbox'[j])
  BY <1>1
<1> QED
  BY <1>2, <1>3, <1>4, WireQueued

\* Nobody heard of a new order before.
LEMMA SubmitKeepsSequence ==
  ASSUME RuntimeInv, RuntimeInv', StreamInv,
         NEW s \in Sides, NEW p \in Prices, NEW q \in Quantities, SubmitOrder(s, p, q)
  PROVE  InSequence' /\ AllStillTrue'
<1>1. /\ stream' = stream
      /\ pc = "idle" /\ created' = created + 1 /\ created < MaxOrders
      /\ \/ outbox' = outbox
         \/ /\ outbox' = <<[kind |-> "order", id |-> created + 1, rem |-> q, status |-> "open"]>>
            /\ rows' = [rows EXCEPT ![created + 1] = [side |-> s, price |-> p, qty |-> q,
                                                      rem |-> q, status |-> "open"]]
  BY DEF SubmitOrder, Insert
<1>2. [Next]_vars
  BY DEF Next, Requests
<1>3. outbox = <<>>
  BY <1>1 DEF StreamInv, NothingQueued
<1>4. CASE outbox' = outbox
  BY <1>1, <1>2, <1>4, WireUnchanged
<1>5. CASE outbox' # outbox
  <2>1. created + 1 \in OrderId /\ created \in Nat /\ q \in Nat
    BY <1>1, RuntimeAssumption DEF RuntimeInv, TypeOK, OrderId
  <2> PICK e \in OrderEvents :
        e = [kind |-> "order", id |-> created + 1, rem |-> q, status |-> "open"]
    BY <2>1 DEF OrderEvents, Statuses
  <2>2. e.kind = "order" /\ e.id = created + 1 /\ e.rem = q /\ e.status = "open"
    OBVIOUS
  <2>3. \A i \in DOMAIN stream : MayFollow(stream[i], e)
    <3>1. \A i \in DOMAIN stream : stream[i].kind = "order" =>
            stream[i].id <= created /\ stream[i].id \in OrderId
      BY EventFields DEF StreamInv, AllStillTrue, StillTrue, OrderStillTrue, RuntimeInv
    <3>2. \A i \in DOMAIN stream : stream[i].kind = "order" => stream[i].id # created + 1
      BY <2>1, <3>1, RuntimeAssumption DEF OrderId
    <3> QED
      BY <2>2, <3>2 DEF MayFollow, IsEventOf
  <2>4. rows'[created + 1].rem = q /\ rows'[created + 1].status = "open"
    BY <1>1, <1>5, <2>1 DEF RuntimeInv, TypeOK
  <2>5. StillTrue(e)'
    BY <1>1, <2>1, <2>2, <2>4 DEF StillTrue, OrderStillTrue, Terminal
  <2> QED
    BY <1>1, <1>2, <1>3, <1>5, <2>3, <2>5, SingletonQueued
<1> QED
  BY <1>4, <1>5

\* The end of a cancelled order is told once.
LEMMA CancelledIsTold ==
  ASSUME RuntimeInv, RuntimeInv', StreamInv, CancelInBook \/ RecoverBook,
         pc \in {"cancelling", "recoverCancel"}, outbox' = <<CancelEvent>>,
         bookRem'[cur] = 0
  PROVE  InSequence' /\ AllStillTrue'
<1>1. /\ stream' = stream /\ rows' = rows /\ created' = created
      /\ makerFill' = makerFill /\ late' = late
  BY DEF CancelInBook, RecoverBook, storeVars, callVars, matchVars
<1>2. [Next]_vars
  BY DEF Next, Work
<1>3. outbox = <<>>
  BY DEF StreamInv, NothingQueued
<1>4. /\ cur \in OrderId /\ rows[cur].status = "cancelled" /\ makerFill[cur] = 0
      /\ cur <= created /\ rows[cur].rem <= copy /\ ~ Locked(cur)
  <2>1. rows \in [OrderId -> Row] /\ cur \in 0..created
    BY DEF RuntimeInv, TypeOK
  <2>2. cur \in OrderId /\ rows[cur].status = "cancelled" /\ makerFill[cur] = 0
    BY DEF RuntimeInv, CallInv, MatchRunning
  <2>3. ~ Locked(cur)
    BY <2>2, LockedFacts DEF Locked
  <2> QED
    BY <2>1, <2>2, <2>3 DEF StreamInv, CopyInPlace
<1> PICK e \in OrderEvents : e = CancelEvent
  BY <1>4, CancelEventType DEF Statuses, RuntimeInv
<1>5. e.kind = "order" /\ e.id = cur /\ e.rem = copy /\ e.status = "cancelled"
  BY <1>4 DEF CancelEvent, OrderEvent
<1>6. \A i \in DOMAIN stream : MayFollow(stream[i], e)
  BY <1>5 DEF StreamInv, CopyInPlace, MayFollow, IsEventOf
<1>7. StillTrue(e)'
  BY <1>1, <1>4, <1>5 DEF StillTrue, OrderStillTrue, Over, Locked, Updates
<1> QED
  BY <1>1, <1>2, <1>3, <1>6, <1>7, SingletonQueued

\* An order event of a match tells the row as the commit left it: that of a maker
\* that was hit, at its place among the fills, or behind them that of the taker.
LEMMA MatchTells ==
  ASSUME RuntimeInv, PersistMatchResult, outbox' = MatchEvents,
         NEW j \in DOMAIN outbox', outbox'[j].kind = "order"
  PROVE  /\ outbox'[j].id \in OrderId
         /\ \/ j \in DOMAIN fills /\ outbox'[j].id = fills[j].maker
               /\ makerFill[outbox'[j].id] > 0
            \/ j = Len(fills) + 1 /\ outbox'[j].id = cur
         /\ outbox'[j].rem = rows'[outbox'[j].id].rem
         /\ outbox'[j].status = rows'[outbox'[j].id].status
<1> DEFINE n == Len(fills)
<1>1. /\ n \in Nat /\ DOMAIN fills = 1..n
      /\ DOMAIN MatchEvents = 1..(2 * n + 1)
      /\ \A i \in 1..n : MatchEvents[i] = OrderEvent(MatchedRows, fills[i].maker)
      /\ MatchEvents[n + 1] = OrderEvent(MatchedRows, cur)
      /\ \A i \in (n + 2)..(2 * n + 1) :
           /\ i - n - 1 \in 1..n
           /\ MatchEvents[i] = TradeEvent(fills[i - n - 1])
  BY MatchEventsAt DEF RuntimeInv
<1> HIDE DEF n
<1>2. rows' = MatchedRows /\ pc = "matched"
  BY DEF PersistMatchResult, MatchIsWritten
<1>3. cur \in OrderId /\ \A i \in DOMAIN fills : makerFill[fills[i].maker] > 0
  BY <1>2 DEF RuntimeInv, CallInv, MatchRunning
<1>4. \A i \in DOMAIN fills : fills[i].maker \in OrderId
  BY MakersAreOrders DEF RuntimeInv
<1>5. CASE j \in 1..n
  BY <1>1, <1>2, <1>3, <1>4, <1>5, OrderEventFields
<1>6. CASE j = n + 1
  BY <1>1, <1>2, <1>3, <1>6, OrderEventFields DEF n
<1>7. CASE j \in (n + 2)..(2 * n + 1)
  BY <1>1, <1>7, TradeEventFields
<1> QED
  BY <1>1, <1>5, <1>6, <1>7

\* A trade event of a match tells one of its fills, each at a place of its own.
LEMMA MatchTellsTrades ==
  ASSUME RuntimeInv, PersistMatchResult, outbox' = MatchEvents,
         NEW j \in DOMAIN outbox', outbox'[j].kind = "trade"
  PROVE  LET k == j - Len(fills) - 1 IN
         /\ k \in DOMAIN fills
         /\ outbox'[j].taker = cur /\ outbox'[j].maker = fills[k].maker
         /\ TradeIn(outbox'[j]) = TradeOf(fills[k])
<1> DEFINE n == Len(fills)
<1>1. /\ n \in Nat /\ DOMAIN fills = 1..n
      /\ DOMAIN MatchEvents = 1..(2 * n + 1)
      /\ \A i \in 1..n : MatchEvents[i] = OrderEvent(MatchedRows, fills[i].maker)
      /\ MatchEvents[n + 1] = OrderEvent(MatchedRows, cur)
      /\ \A i \in (n + 2)..(2 * n + 1) :
           /\ i - n - 1 \in 1..n
           /\ MatchEvents[i] = TradeEvent(fills[i - n - 1])
  BY MatchEventsAt DEF RuntimeInv
<1> HIDE DEF n
<1>2. CASE j \in 1..(n + 1)
  <2>1. j \in 1..n \/ j = n + 1
    BY <1>1, <1>2
  <2> QED
    BY <1>1, <2>1, OrderEventFields
<1>3. CASE j \in (n + 2)..(2 * n + 1)
  <2>1. j - n - 1 \in DOMAIN fills /\ outbox'[j] = TradeEvent(fills[j - n - 1])
    BY <1>1, <1>3
  <2> QED
    BY <2>1, TradeEventFields DEF TradeIn, TradeOf, n
<1> QED
  BY <1>1, <1>2, <1>3

\* What a match tells may stand behind all that was told before.
LEMMA CommitKeepsSequence ==
  ASSUME RuntimeInv, RuntimeInv', StreamInv, PersistMatchResult
  PROVE  InSequence' /\ AllStillTrue'
<1>1. /\ stream' = stream /\ created' = created /\ rows' = MatchedRows
      /\ pc = "matched" /\ DeltasFit
      /\ outbox' = outbox \/ outbox' = MatchEvents
  BY DEF PersistMatchResult, MatchIsWritten
<1>2. [Next]_vars
  BY DEF Next, Work
<1>3. /\ cur' = cur /\ pc' \notin {"matching", "matched"}
      /\ trades' = trades \cup {TradeOf(fills[i]) : i \in DOMAIN fills}
  BY DEF PersistMatchResult, NewTrades
<1>4. outbox = <<>>
  BY <1>1 DEF StreamInv, NothingQueued
<1>5. CASE outbox' = outbox
  BY <1>1, <1>2, <1>5, WireUnchanged
<1>6. CASE outbox' = MatchEvents
  <2> DEFINE id(j) == outbox'[j].id
             Told(j) == outbox'[j].kind = "order"
  <2>1. \A j \in DOMAIN outbox' : Told(j) =>
          /\ id(j) \in OrderId
          /\ \/ j \in DOMAIN fills /\ id(j) = fills[j].maker /\ makerFill[id(j)] > 0
             \/ j = Len(fills) + 1 /\ id(j) = cur
          /\ outbox'[j].rem = rows'[id(j)].rem
          /\ outbox'[j].status = rows'[id(j)].status
    BY <1>6, MatchTells
  <2> HIDE DEF id
  <2>2. /\ cur \in OrderId /\ makerFill[cur] = 0 /\ rows[cur].status = "open"
        /\ bookRem[cur] = takerRem /\ takerRem \in Nat
        /\ cur <= created /\ created \in Nat
    <3>1. takerRem \in Nat /\ cur \in 0..created /\ created \in Nat
      BY RuntimeAssumption DEF RuntimeInv, TypeOK
    <3> QED
      BY <1>1, <3>1 DEF RuntimeInv, CallInv, MatchRunning
  <2>3. \A o \in OrderId : /\ bookRem[o] \in Nat /\ makerFill[o] \in Nat
                           /\ rows[o].rem \in Nat /\ o \in Nat
    BY RuntimeAssumption DEF RuntimeInv, TypeOK, Row, OrderId
  \* A maker that was hit.
  <2>4. ASSUME NEW o \in OrderId, makerFill[o] > 0
        PROVE  /\ o # cur /\ o <= created /\ rows'[o].rem \in Nat
               /\ rows'[o].status = StatusAfterFill(rows'[o].rem)
    BY <1>1, <2>2, <2>4, MatchedRow
  <2>5. rows'[cur].rem = takerRem /\ rows'[cur].status = TakerStatus
    BY <1>1, <2>2, MatchedRow
  \* The trades.
  <2>6. \A j \in DOMAIN outbox' : outbox'[j].kind = "trade" =>
          /\ j - Len(fills) - 1 \in DOMAIN fills
          /\ outbox'[j].taker = cur
          /\ outbox'[j].maker = fills[j - Len(fills) - 1].maker
          /\ TradeIn(outbox'[j]) = TradeOf(fills[j - Len(fills) - 1])
    BY <1>6, MatchTellsTrades
  <2>7. ASSUME NEW j \in DOMAIN outbox', outbox'[j].kind = "trade"
         PROVE  TradeStillTrue(outbox[j])'
    <3>1. TradeIn(outbox'[j]) \in trades' /\ outbox'[j].taker <= created'
      BY <1>1, <1>3, <2>2, <2>6, <2>7
    <3> QED
      BY <1>3, <3>1 DEF TradeStillTrue, TradeIn, MatchRunning
  <2>8. \A j \in DOMAIN outbox' : StillTrue(outbox[j])'
    <3> SUFFICES ASSUME NEW j \in DOMAIN outbox', Told(j)
                 PROVE  /\ id(j) <= created /\ rows'[id(j)].status # "inFlight"
                        /\ rows'[id(j)].rem <= outbox'[j].rem
                        /\ outbox'[j].status \in Terminal => rows'[id(j)].status = "filled"
      BY <1>1, <2>7 DEF StillTrue, OrderStillTrue, Over, id
    <3>1. /\ id(j) \in OrderId
          /\ makerFill[id(j)] > 0 \/ id(j) = cur
          /\ outbox'[j].rem = rows'[id(j)].rem
          /\ outbox'[j].status = rows'[id(j)].status
      BY <2>1
    <3>2. CASE makerFill[id(j)] > 0
      <4>1. rows'[id(j)].rem <= rows'[id(j)].rem
        BY <2>4, <3>1, <3>2
      <4> QED
        BY <2>4, <3>1, <3>2, <4>1 DEF StatusAfterFill, Terminal
    <3>3. CASE id(j) = cur
      <4>1. rows'[cur].rem <= rows'[cur].rem
        BY <2>2, <2>5
      <4> QED
        BY <2>2, <2>5, <3>1, <3>3, <4>1 DEF TakerStatus, StatusAfterFill, Terminal
    <3> QED
      BY <3>1, <3>2, <3>3
  <2>9. \A i, j \in DOMAIN outbox' : i < j => MayFollow(outbox'[i], outbox'[j])
    <3>1. Len(fills) \in Nat /\ DOMAIN fills = 1..Len(fills)
      BY DEF RuntimeInv, TypeOK
    <3>2. ASSUME NEW i \in DOMAIN outbox', NEW j \in DOMAIN outbox', i < j,
                 outbox'[i].kind = "trade", outbox'[j].kind = "trade"
          PROVE  outbox'[i].maker # outbox'[j].maker
      <4> DEFINE k == i - Len(fills) - 1
                 l == j - Len(fills) - 1
      <4>1. /\ k \in DOMAIN fills /\ l \in DOMAIN fills
            /\ outbox'[i].maker = fills[k].maker /\ outbox'[j].maker = fills[l].maker
        BY <2>6, <3>2
      <4>2. i \in Nat /\ j \in Nat
        BY SMTT(30) DEF RuntimeInv, TypeOK
      <4>3. k # l
        BY <3>1, <3>2, <4>2
      <4> QED
        BY <4>1, <4>3 DEF StreamInv, MakersDiffer
    <3> SUFFICES ASSUME NEW i \in DOMAIN outbox', NEW j \in DOMAIN outbox', i < j,
                        Told(i), Told(j), id(i) = id(j)
                 PROVE  FALSE
      BY <3>2 DEF MayFollow, IsEventOf, id
    <3>3. CASE i \in DOMAIN fills /\ j \in DOMAIN fills
      <4>1. fills[i].maker = fills[j].maker
        BY <2>1, <3>1, <3>3
      <4>2. i = j
        BY <3>3, <4>1 DEF StreamInv, MakersDiffer
      <4> QED
        BY <3>1, <3>3, <4>2
    <3>4. CASE i \in DOMAIN fills /\ j = Len(fills) + 1
      <4>1. id(j) = cur /\ makerFill[id(i)] > 0
        BY <2>1, <3>1, <3>4
      <4> QED
        BY <2>2, <4>1
    <3>5. CASE i = Len(fills) + 1
      <4>1. j \in DOMAIN fills \/ j = Len(fills) + 1
        BY <2>1
      <4> QED
        BY <3>1, <3>5, <4>1
    <3> QED
      BY <2>1, <3>3, <3>4, <3>5
  <2>10. \A i \in DOMAIN stream, j \in DOMAIN outbox' : MayFollow(stream[i], outbox'[j])
    <3>1. ASSUME NEW i \in DOMAIN stream, NEW j \in DOMAIN outbox',
                 stream[i].kind = "trade", outbox'[j].kind = "trade"
          PROVE  stream[i].taker # outbox'[j].taker
      <4>1. stream[i].taker # cur
        BY <1>1, <3>1 DEF StreamInv, AllStillTrue, StillTrue, TradeStillTrue, MatchRunning
      <4> QED
        BY <2>6, <3>1, <4>1
    <3> SUFFICES ASSUME NEW i \in DOMAIN stream, NEW j \in DOMAIN outbox',
                        stream[i].kind = "order", Told(j), id(j) = stream[i].id
                 PROVE  outbox'[j].rem <= stream[i].rem /\ stream[i].status \notin Terminal
      BY <3>1 DEF MayFollow, IsEventOf, id
    <3>2. /\ id(j) \in OrderId
          /\ makerFill[id(j)] > 0 \/ id(j) = cur
          /\ outbox'[j].rem = rows'[id(j)].rem
      BY <2>1
    <3>3. /\ id(j) <= created /\ rows[id(j)].rem <= stream[i].rem
          /\ stream[i].status \in Terminal => Over(id(j))
      BY DEF StreamInv, AllStillTrue, StillTrue, OrderStillTrue
    <3>4. rows'[id(j)].rem <= rows[id(j)].rem
      BY <1>2, <3>2, <3>3, RemOnlyShrinks
    <3>5. stream[i].rem \in Nat /\ rows[id(j)].rem \in Nat /\ rows'[id(j)].rem \in Nat
      <4>1. stream[i].rem \in Nat
        BY EventFields DEF RuntimeInv
      <4>2. rows'[id(j)].rem \in Nat
        <5>1. rows' \in [OrderId -> Row]
          BY DEF RuntimeInv, TypeOK
        <5> QED
          BY <3>2, <5>1 DEF Row
      <4> QED
        BY <2>3, <3>2, <4>1, <4>2
    <3>6. ~ Over(id(j))
      <4>1. makerFill[id(j)] > 0 => rows[id(j)].rem > 0
        BY <1>1, <2>3, <3>2 DEF DeltasFit
      <4>2. rows[id(j)].status = "filled" => rows[id(j)].rem = 0
        BY <2>2, <2>3, <3>2, <3>3 DEF RuntimeInv, RowsInv
      <4> QED
        BY <2>2, <2>3, <3>2, <4>1, <4>2 DEF Over
    <3> QED
      BY <3>2, <3>3, <3>4, <3>5, <3>6
  <2> QED
    BY <1>1, <1>2, <1>4, <2>8, <2>9, <2>10, WireQueued
<1> QED
  BY <1>1, <1>5, <1>6

\* Every step keeps the stream in sequence and true.
LEMMA StreamStep ==
  ASSUME RuntimeInv, RuntimeInv', StreamInv, [Next]_vars
  PROVE  StreamInv'
<1>1. NothingQueued'
  <2>1. CASE UNCHANGED vars
    BY <2>1 DEF vars, wireVars, StreamInv, NothingQueued
  <2>2. CASE PublishEvent
    <3>1. outbox # <<>> /\ pc' = pc
      BY <2>2 DEF PublishEvent
    <3> QED
      BY <3>1 DEF StreamInv, NothingQueued
  <2>3. ASSUME NEW s \in Sides, NEW p \in Prices, NEW q \in Quantities, SubmitOrder(s, p, q)
        PROVE  NothingQueued'
    BY <2>3 DEF SubmitOrder, StreamInv, NothingQueued
  <2>4. CASE \/ MatchStep \/ MatchDone \/ PersistMatchResult \/ PersistFails
             \/ AnswerSubmit \/ AnswerCancel
    BY <2>4 DEF MatchStep, MatchDone, PersistMatchResult, MatchIsWritten, PersistFails,
       AnswerSubmit, AnswerCancel, Release, wireVars, StreamInv, NothingQueued
  <2>6. CASE PersistLater \/ CancelOrder \/ CancelFails \/ Landings
             \/ \E o \in OrderId : ReadForCancel(o)
    BY <2>6 DEF PersistLater, MatchIsWritten, CancelOrder, CancelFails, ReadForCancel,
       Landings, InsertLands, CancelLands, MatchLands, Release, wireVars, StreamInv,
       NothingQueued
  <2>5. CASE CancelInBook \/ RecoverBook \/ FailClosed \/ Crash \/ Restart
    BY <2>5 DEF CancelInBook, RecoverBook, FailClosed, Crash, Restart, Release, wireVars,
       StreamInv, NothingQueued
  <2> QED
    BY <2>1, <2>2, <2>3, <2>4, <2>5, <2>6 DEF Next, Requests, Work
<1>2. MakersDiffer'
  BY MakersStayDifferent DEF StreamInv
<1>3. InSequence' /\ AllStillTrue'
  <2>1. CASE \/ UNCHANGED vars \/ MatchStep \/ MatchDone \/ PersistFails \/ AnswerSubmit
             \/ AnswerCancel \/ FailClosed \/ Crash \/ Restart
    <3>1. stream' = stream /\ (outbox' = outbox \/ outbox' = <<>>)
      BY <2>1 DEF vars, MatchStep, MatchDone, PersistFails, AnswerSubmit, AnswerCancel,
         FailClosed, Crash, Restart, wireVars
    <3> QED
      BY <3>1, WireUnchanged
  <2>4. CASE PersistLater \/ CancelOrder \/ CancelFails \/ Landings
             \/ \E o \in OrderId : ReadForCancel(o)
    <3>1. stream' = stream /\ outbox' = outbox
      BY <2>4 DEF PersistLater, CancelOrder, CancelFails, ReadForCancel, Landings,
         InsertLands, CancelLands, MatchLands, wireVars
    <3> QED
      BY <3>1, WireUnchanged
  <2>2. CASE CancelInBook
    <3>1. CASE pc' = "recoverCancel"
      <4>1. stream' = stream /\ outbox' = outbox
        BY <2>2, <3>1 DEF CancelInBook
      <4> QED
        BY <4>1, WireUnchanged
    <3>2. CASE pc' # "recoverCancel"
      <4>1. /\ bookRem' = [bookRem EXCEPT ![cur] = 0] /\ pc = "cancelling"
            /\ outbox' = <<CancelEvent>>
        BY <2>2, <3>2 DEF CancelInBook
      <4>2. cur \in OrderId /\ bookRem \in [OrderId -> Nat]
        BY <4>1 DEF RuntimeInv, CallInv, MatchRunning, TypeOK
      <4> QED
        BY <2>2, <4>1, <4>2, CancelledIsTold
    <3> QED
      BY <3>1, <3>2
  <2>3. CASE RecoverBook
    <3>1. CASE pc = "recoverSubmit"
      <4>1. stream' = stream /\ outbox' = outbox
        BY <2>3, <3>1 DEF RecoverBook
      <4> QED
        BY <4>1, WireUnchanged
    <3>2. CASE pc # "recoverSubmit"
      <4>1. /\ bookRem' = [o \in OrderId |-> IF o \in Restorable THEN rows[o].rem ELSE 0]
            /\ pc = "recoverCancel" /\ outbox' = <<CancelEvent>>
        BY <2>3, <3>2 DEF RecoverBook, RebuiltBook
      <4>2. cur \in OrderId /\ rows[cur].status = "cancelled"
        BY <4>1 DEF RuntimeInv, CallInv, MatchRunning
      <4>3. bookRem'[cur] = 0
        BY <4>1, <4>2 DEF Restorable, Restable
      <4> QED
        BY <2>3, <4>1, <4>3, CancelledIsTold
    <3> QED
      BY <3>1, <3>2
  <2> QED
    BY <2>1, <2>2, <2>3, <2>4, SubmitKeepsSequence, PublishKeepsSequence, CommitKeepsSequence
       DEF Next, Requests, Work
<1>4. CopyInPlace'
  <2> DEFINE Goal == /\ rows'[cur'].rem <= copy'
                     /\ \A i \in DOMAIN stream' : IsEventOf(stream'[i], cur') =>
                          copy' <= stream'[i].rem /\ stream'[i].status \notin Terminal
  <2> SUFFICES ASSUME pc' \in {"checked", "cancelling", "recoverCancel"} PROVE Goal
    BY DEF CopyInPlace, IsEventOf
  <2>0. rows \in [OrderId -> Row] /\ copy \in Nat
    BY DEF RuntimeInv, TypeOK
  <2>1. ASSUME NEW o \in OrderId, ReadForCancel(o) PROVE Goal
    <3>1. /\ stream' = stream /\ cur' = o /\ rows' = rows /\ copy' = rows[o].rem
          /\ rows[o].status \in Restable
      BY <2>1 DEF ReadForCancel, wireVars, storeVars
    <3>2. \A i \in DOMAIN stream : IsEventOf(stream[i], o) =>
            rows[o].rem <= stream[i].rem /\ (stream[i].status \in Terminal => Over(o))
      BY DEF StreamInv, AllStillTrue, StillTrue, OrderStillTrue, IsEventOf
    <3>3. ~ Over(o)
      BY <3>1 DEF Over, Restable
    <3>4. rows[o].rem <= rows[o].rem
      BY <2>0 DEF Row
    <3> QED
      BY <3>1, <3>2, <3>3, <3>4
  <2>2. CASE UNCHANGED vars \/ CancelInBook \/ CancelOrder \/ Landings
    <3>1. /\ stream' = stream /\ cur' = cur /\ copy' = copy
          /\ pc \in {"checked", "cancelling", "recoverCancel"}
      BY <2>2 DEF vars, callVars, wireVars, CancelInBook, CancelOrder, Landings,
         InsertLands, CancelLands, MatchLands
    <3>2. cur \in OrderId /\ cur <= created
      BY <3>1 DEF RuntimeInv, CallInv, Orders, TypeOK
    <3>3. rows'[cur].rem <= rows[cur].rem /\ rows'[cur].rem \in Nat /\ rows[cur].rem \in Nat
      <4>1. rows' \in [OrderId -> Row]
        BY DEF RuntimeInv, TypeOK
      <4> QED
        BY <2>0, <3>2, <4>1, RemOnlyShrinks DEF Row
    <3>4. /\ rows[cur].rem <= copy
          /\ \A i \in DOMAIN stream : IsEventOf(stream[i], cur) =>
               copy <= stream[i].rem /\ stream[i].status \notin Terminal
      BY <3>1 DEF StreamInv, CopyInPlace
    <3> QED
      BY <2>0, <3>1, <3>3, <3>4
  <2>3. CASE PublishEvent
    <3>1. outbox # <<>> /\ pc' = pc
      BY <2>3 DEF PublishEvent
    <3> QED
      BY <3>1 DEF StreamInv, NothingQueued
  <2>4. ASSUME NEW s \in Sides, NEW p \in Prices, NEW q \in Quantities, SubmitOrder(s, p, q)
        PROVE  FALSE
    BY <2>4 DEF SubmitOrder
  <2>5. CASE \/ MatchStep \/ MatchDone \/ PersistMatchResult \/ PersistFails \/ AnswerSubmit
             \/ AnswerCancel \/ RecoverBook \/ FailClosed \/ Crash \/ Restart
             \/ PersistLater \/ CancelFails
    BY <2>5 DEF MatchStep, MatchDone, PersistMatchResult, PersistFails, AnswerSubmit,
       AnswerCancel, RecoverBook, FailClosed, Crash, Restart, PersistLater, CancelFails,
       Release
  <2> QED
    BY <2>1, <2>2, <2>3, <2>4, <2>5 DEF Next, Requests, Work
<1> QED
  BY <1>1, <1>2, <1>3, <1>4 DEF StreamInv

\* What the stream and the waiting events tell is in sequence and still true of the
\* rows, whatever failed: the invariant behind the theorems about the stream.
THEOREM StreamInvariant == Spec => []StreamInv
<1>1. Init => StreamInv
  BY DEF Init, StreamInv, NothingQueued, MakersDiffer, InSequence, AllStillTrue,
     CopyInPlace
<1>2. RuntimeInv /\ RuntimeInv' /\ StreamInv /\ [Next]_vars => StreamInv'
  BY StreamStep
<1> QED
  BY <1>1, <1>2, RuntimeInvariant, PTL DEF Spec

\* The stream never tells an order's life backwards: what is left of it does not grow
\* and nothing follows its end, whatever events were lost and whatever failed.
THEOREM StreamOnlyAdvances == Spec => []StreamNeverGoesBack
<1>1. RuntimeInv /\ StreamInv => StreamNeverGoesBack
  <2> SUFFICES ASSUME RuntimeInv, StreamInv, NEW j \in DOMAIN stream, stream[j].kind = "order",
                      NEW i \in 1..(j - 1), IsEventOf(stream[i], stream[j].id)
               PROVE  /\ stream[j].rem <= stream[i].rem
                      /\ stream[i].status \notin {"filled", "cancelled"}
    BY DEF StreamNeverGoesBack
  <2>1. i \in DOMAIN stream /\ i < j
    BY DEF RuntimeInv, TypeOK
  <2>2. MayFollow(stream[i], stream[j])
    BY <2>1 DEF StreamInv, InSequence
  <2> QED
    BY <2>2 DEF MayFollow, IsEventOf, Terminal
<1> QED
  BY <1>1, RuntimeInvariant, StreamInvariant, PTL

----------------------------------------------------------------------------
(* Without faults the stream is complete *)

\* Event e is in s, and is the last of order o there.
LastIn(s, e, o) ==
  \E i \in DOMAIN s :
    /\ s[i] = e
    /\ \A j \in DOMAIN s : j > i => ~ IsEventOf(s[j], o)

Silent(s, o) == \A i \in DOMAIN s : ~ IsEventOf(s[i], o)

\* The last that was told of an order, or is about to be, is its row.
ToldLast(o) ==
  \/ LastIn(outbox, OrderEvent(rows, o), o)
  \/ Silent(outbox, o) /\ LastIn(stream, OrderEvent(rows, o), o)

Tells(s, t) == \E i \in DOMAIN s : s[i].kind = "trade" /\ TradeIn(s[i]) = t

\* The order that a cancel has written and not announced yet.
Unannounced(o) == o = cur /\ pc \in {"cancelling", "recoverCancel"}

\* Whatever a match took of a maker is among its fills.
HitsAreFills ==
  \A o \in OrderId : makerFill[o] > 0 => \E i \in DOMAIN fills : fills[i].maker = o

\* No call's effect is on its way, and a cancel's copy is its row.
Calm ==
  /\ late = {} /\ lateCancels = {}
  /\ \A o \in OrderId : rows[o].status # "inFlight"
  /\ pc \in {"checked", "cancelling", "recoverCancel"} => copy = rows[cur].rem

CompleteInv ==
  faults = 0 =>
       /\ Calm
       /\ \A o \in OrderId : o <= created /\ ~ Unannounced(o) => ToldLast(o)
       /\ \A t \in trades : Tells(stream, t) \/ Tells(outbox, t)

LEMMA HitsAreAmongFills ==
  ASSUME RuntimeInv PROVE HitsAreFills
<1>1. CASE MatchRunning
  BY <1>1 DEF RuntimeInv, CallInv, HitsAreFills
<1>2. CASE ~ MatchRunning
  BY <1>2 DEF RuntimeInv, CallInv, HitsAreFills
<1> QED
  BY <1>1, <1>2

\* Nothing is on its way that was not a fault.
LEMMA CalmStays ==
  ASSUME RuntimeInv, [Next]_vars, faults = 0, faults' = 0, Calm PROVE Calm'
<1>1. \A k \in AllFaults : ~ Fault(k)
  BY DEF Fault
<1>2. rows \in [OrderId -> Row] /\ created \in Nat /\ ~ Landings
  BY DEF RuntimeInv, TypeOK, Landings, Calm, InsertLands
<1>3. ASSUME rows' = rows, late' = late, lateCancels' = lateCancels,
             pc' \in {"checked", "cancelling", "recoverCancel"} =>
               copy' = rows[cur'].rem
      PROVE  Calm'
  BY <1>3 DEF Calm
<1>4. CASE \/ UNCHANGED vars \/ PublishEvent \/ MatchStep \/ MatchDone \/ CancelInBook
  <2>1. /\ rows' = rows /\ late' = late /\ lateCancels' = lateCancels
        /\ cur' = cur /\ copy' = copy
        /\ pc' \in {"checked", "cancelling", "recoverCancel"} =>
             pc \in {"checked", "cancelling", "recoverCancel"}
    BY <1>4 DEF vars, PublishEvent, MatchStep, MatchDone, CancelInBook, storeVars, callVars
  <2> QED
    BY <1>3, <2>1 DEF Calm
<1>5. CASE \/ PersistFails \/ AnswerSubmit \/ AnswerCancel \/ CancelFails \/ RecoverBook
           \/ FailClosed \/ Crash \/ Restart
  <2>1. /\ rows' = rows /\ late' = late /\ lateCancels' = lateCancels
        /\ pc' \notin {"checked", "cancelling", "recoverCancel"}
    BY <1>1, <1>5 DEF PersistFails, AnswerSubmit, AnswerCancel, CancelFails, RecoverBook,
       FailClosed, Crash, Restart, Release, storeVars, AllFaults
  <2> QED
    BY <1>3, <2>1
<1>6. ASSUME NEW o \in OrderId, ReadForCancel(o) PROVE Calm'
  BY <1>3, <1>6 DEF ReadForCancel, storeVars
<1>7. ASSUME NEW s \in Sides, NEW p \in Prices, NEW q \in Quantities, SubmitOrder(s, p, q)
      PROVE  Calm'
  <2> DEFINE new == [side |-> s, price |-> p, qty |-> q, rem |-> q, status |-> "open"]
  <2>1. /\ rows' = [rows EXCEPT ![created + 1] = new] /\ pc' = "matching"
        /\ late' = late /\ lateCancels' = lateCancels
    BY <1>1, <1>7 DEF SubmitOrder, Insert, AllFaults
  <2>2. \A o \in OrderId : rows'[o].status = rows[o].status \/ rows'[o].status = "open"
    BY <1>2, <2>1
  <2> QED
    BY <2>1, <2>2 DEF Calm
<1>8. CASE CancelOrder
  <2>1. /\ rows' = [rows EXCEPT ![cur].status = "cancelled"] /\ pc = "checked"
        /\ late' = late /\ lateCancels' = lateCancels /\ cur' = cur /\ copy' = copy
        /\ cur \in OrderId
    BY <1>8 DEF CancelOrder, callVars, RuntimeInv, CallInv, Orders
  <2>2. rows'[cur].rem = rows[cur].rem
    BY <1>2, <2>1 DEF Row
  <2>3. \A o \in OrderId : rows'[o].status = rows[o].status \/ rows'[o].status = "cancelled"
    BY <1>2, <2>1 DEF Row
  <2> QED
    BY <2>1, <2>2, <2>3 DEF Calm
<1>9. CASE PersistMatchResult \/ PersistLater
  <2>1. /\ PersistMatchResult /\ rows' = MatchedRows /\ pc = "matched" /\ pc' = "persisted"
        /\ late' = late /\ lateCancels' = lateCancels
    BY <1>1, <1>9 DEF PersistMatchResult, PersistLater, MatchIsWritten, AllFaults
  <2>2. \A o \in OrderId : MatchedRows[o].status # "inFlight"
    <3> SUFFICES ASSUME NEW o \in OrderId PROVE MatchedRows[o].status # "inFlight"
      OBVIOUS
    <3>1. rows[o].status # "inFlight" /\ rows[o] \in Row
      BY <1>2 DEF Calm
    <3>2. StatusAfterFill(rows[o].rem - makerFill[o]) # "inFlight" /\ TakerStatus # "inFlight"
      BY DEF StatusAfterFill, TakerStatus
    <3> QED
      BY <3>1, <3>2 DEF MatchedRows, Row
  <2> QED
    BY <2>1, <2>2 DEF Calm
<1> QED
  BY <1>2, <1>4, <1>5, <1>6, <1>7, <1>8, <1>9 DEF Next, Requests, Work

\* The first that waits is handed over: what was told last is told last still.
LEMMA PublishTellsAll ==
  ASSUME TypeOK, PublishEvent, faults' = faults
  PROVE  /\ \A o \in OrderId : ToldLast(o) => ToldLast(o)'
         /\ \A t : Tells(stream, t) \/ Tells(outbox, t) =>
                     Tells(stream', t) \/ Tells(outbox', t)
<1> DEFINE n == Len(stream)
<1>1. stream' = Append(stream, Head(outbox)) /\ stream \in Seq(Events) /\ rows' = rows
  <2>1. faults + 1 # faults
    BY DEF TypeOK
  <2> QED
    BY <2>1 DEF PublishEvent, Fault, TypeOK, Events, storeVars
<1>2. stream' # stream
  <2>1. Len(stream') = Len(stream) + 1 /\ Len(stream) \in Nat
    BY <1>1
  <2> QED
    BY <2>1
<1>3. /\ 1 \in DOMAIN outbox
      /\ \A j \in DOMAIN outbox' : j + 1 \in DOMAIN outbox /\ outbox'[j] = outbox[j + 1]
      /\ \A j \in DOMAIN outbox : j = 1 \/ j - 1 \in DOMAIN outbox'
      /\ n \in Nat /\ DOMAIN stream = 1..n /\ DOMAIN stream' = 1..(n + 1)
      /\ \A i \in DOMAIN stream : stream'[i] = stream[i]
      /\ stream'[n + 1] = outbox[1]
  BY <1>2, PublishShape
<1>4. /\ \A j \in DOMAIN outbox : j \in Nat /\ j >= 1
      /\ \A j \in DOMAIN outbox' : j \in Nat /\ j >= 1
  <2>1. outbox \in Seq(Events) /\ outbox # <<>> /\ outbox' = Tail(outbox)
    BY DEF TypeOK, Events, PublishEvent
  <2>2. outbox' \in Seq(Events)
    BY <2>1
  <2> QED
    BY <2>1, <2>2
<1>5. \A i \in DOMAIN stream : i \in DOMAIN stream' /\ n + 1 > i
  BY <1>3
<1> HIDE DEF n
<1>6. ASSUME NEW o \in OrderId, NEW e, LastIn(outbox, e, o)
      PROVE  LastIn(outbox', e, o) \/ (Silent(outbox', o) /\ LastIn(stream', e, o))
  <2>1. PICK i \in DOMAIN outbox :
          outbox[i] = e /\ \A j \in DOMAIN outbox : j > i => ~ IsEventOf(outbox[j], o)
    BY <1>6 DEF LastIn
  <2>2. \A j \in DOMAIN outbox' : j + 1 > i => ~ IsEventOf(outbox'[j], o)
    BY <1>3, <2>1 DEF IsEventOf
  <2>3. CASE i = 1
    <3>1. Silent(outbox', o)
      <4>1. \A j \in DOMAIN outbox' : j + 1 > i
        BY <1>4, <2>3
      <4> QED
        BY <2>2, <4>1 DEF Silent
    <3>2. stream'[n + 1] = e /\ n + 1 \in DOMAIN stream'
          /\ \A j \in DOMAIN stream' : ~ j > n + 1
      BY <1>3, <2>1, <2>3
    <3> QED
      BY <3>1, <3>2 DEF LastIn
  <2>4. CASE i # 1
    <3>1. i - 1 \in DOMAIN outbox' /\ outbox'[i - 1] = e
      <4>1. i - 1 \in DOMAIN outbox' /\ (i - 1) + 1 = i
        BY <1>3, <1>4, <2>4
      <4> QED
        BY <1>3, <2>1, <4>1
    <3>2. \A j \in DOMAIN outbox' : j > i - 1 => j + 1 > i
      BY <1>4
    <3> QED
      BY <2>2, <3>1, <3>2 DEF LastIn
  <2> QED
    BY <2>3, <2>4
<1>7. ASSUME NEW o \in OrderId, NEW e, Silent(outbox, o), LastIn(stream, e, o)
      PROVE  Silent(outbox', o) /\ LastIn(stream', e, o)
  <2>1. Silent(outbox', o)
    BY <1>3, <1>7 DEF Silent, IsEventOf
  <2>2. PICK i \in DOMAIN stream :
          stream[i] = e /\ \A j \in DOMAIN stream : j > i => ~ IsEventOf(stream[j], o)
    BY <1>7 DEF LastIn
  <2>3. ~ IsEventOf(stream'[n + 1], o)
    BY <1>3, <1>7 DEF Silent, IsEventOf
  <2>4. \A j \in DOMAIN stream' : j \in DOMAIN stream \/ j = n + 1
    BY <1>3
  <2>5. \A j \in DOMAIN stream' : j > i => ~ IsEventOf(stream'[j], o)
    BY <1>3, <2>2, <2>3, <2>4 DEF IsEventOf
  <2>6. i \in DOMAIN stream' /\ stream'[i] = e
    BY <1>3, <1>5, <2>2
  <2> QED
    BY <2>1, <2>5, <2>6 DEF LastIn
<1>8. ASSUME NEW o \in OrderId, ToldLast(o) PROVE ToldLast(o)'
  <2> PICK e : e = OrderEvent(rows, o)
    OBVIOUS
  <2>1. \/ LastIn(outbox, e, o)
        \/ Silent(outbox, o) /\ LastIn(stream, e, o)
    BY <1>8 DEF ToldLast
  <2>2. LastIn(outbox', e, o) \/ (Silent(outbox', o) /\ LastIn(stream', e, o))
    BY <1>6, <1>7, <2>1
  <2> QED
    BY <1>1, <2>2 DEF ToldLast, LastIn, Silent, IsEventOf, OrderEvent
<1>9. ASSUME NEW t, Tells(stream, t) \/ Tells(outbox, t)
      PROVE  Tells(stream', t) \/ Tells(outbox', t)
  <2>1. CASE Tells(stream, t)
    BY <1>3, <1>5, <2>1 DEF Tells, TradeIn
  <2>2. CASE Tells(outbox, t)
    <3>1. PICK i \in DOMAIN outbox : outbox[i].kind = "trade" /\ TradeIn(outbox[i]) = t
      BY <2>2 DEF Tells
    <3>2. CASE i = 1
      <4>1. n + 1 \in DOMAIN stream'
        BY <1>3
      <4> QED
        BY <1>3, <3>1, <3>2, <4>1 DEF Tells, TradeIn
    <3>3. CASE i # 1
      <4>1. i - 1 \in DOMAIN outbox' /\ (i - 1) + 1 = i
        BY <1>3, <1>4, <3>3
      <4>2. outbox'[i - 1] = outbox[i]
        BY <1>3, <4>1
      <4> QED
        BY <3>1, <4>1, <4>2 DEF Tells, TradeIn
    <3> QED
      BY <3>2, <3>3
  <2> QED
    BY <1>9, <2>1, <2>2
<1> QED
  BY <1>8, <1>9

\* What was told of an order is told of it still when neither the wire nor its row changed,
\* when a call queues nothing of it, or when a call queues its row last.
LEMMA ToldUnchanged ==
  ASSUME NEW o, ToldLast(o), outbox' = outbox, stream' = stream, rows'[o] = rows[o]
  PROVE  ToldLast(o)'
BY DEF ToldLast, LastIn, Silent, IsEventOf, OrderEvent

\* The same when a call queues nothing of the order.
LEMMA ToldBefore ==
  ASSUME NEW o, ToldLast(o), outbox = <<>>, stream' = stream, rows'[o] = rows[o],
         \A j \in DOMAIN outbox' : ~ IsEventOf(outbox'[j], o)
  PROVE  ToldLast(o)'
BY DEF ToldLast, LastIn, Silent, IsEventOf, OrderEvent

\* The same when a call queues its row last.
LEMMA ToldNow ==
  ASSUME NEW o, NEW i \in DOMAIN outbox', outbox'[i] = OrderEvent(rows', o),
         \A j \in DOMAIN outbox' : j > i => ~ IsEventOf(outbox'[j], o)
  PROVE  ToldLast(o)'
BY DEF ToldLast, LastIn, Silent, IsEventOf, OrderEvent

\* A call of one event: the row of its order is told, and nothing of another.
LEMMA ToldAlone ==
  ASSUME NEW o, NEW c, outbox = <<>>, stream' = stream,
         outbox' = <<OrderEvent(rows', c)>>,
         o # c => ToldLast(o) /\ rows'[o] = rows[o]
  PROVE  ToldLast(o)'
<1> PICK e : e = OrderEvent(rows', c)
  OBVIOUS
<1>1. DOMAIN outbox' = {1} /\ outbox'[1] = e /\ e.id = c
  BY DEF OrderEvent
<1>2. CASE o = c
  <2>1. \A j \in DOMAIN outbox' : ~ j > 1
    BY <1>1
  <2> QED
    BY <1>1, <1>2, <2>1, ToldNow
<1>3. CASE o # c
  <2>1. \A j \in DOMAIN outbox' : ~ IsEventOf(outbox'[j], o)
    BY <1>1, <1>3 DEF IsEventOf
  <2> QED
    BY <1>3, <2>1, ToldBefore
<1> QED
  BY <1>2, <1>3

\* Every row a commit changes is told, each by the last event of its order.
LEMMA CommitTellsOrders ==
  ASSUME RuntimeInv, StreamInv, HitsAreFills, PersistMatchResult, outbox' = MatchEvents,
         NEW o \in OrderId, o # cur => ToldLast(o)
  PROVE  ToldLast(o)'
<1> DEFINE n == Len(fills)
<1>1. /\ n \in Nat /\ DOMAIN fills = 1..n
      /\ DOMAIN outbox' = 1..(2 * n + 1)
      /\ \A i \in 1..n : outbox'[i] = OrderEvent(rows', fills[i].maker)
      /\ outbox'[n + 1] = OrderEvent(rows', cur)
  BY MatchEventsAt DEF RuntimeInv, PersistMatchResult, MatchIsWritten
<1>2. /\ stream' = stream /\ rows' = MatchedRows /\ pc = "matched"
  BY DEF PersistMatchResult, MatchIsWritten
<1>3. cur \in OrderId /\ makerFill[cur] = 0 /\ outbox = <<>>
  BY <1>2 DEF RuntimeInv, CallInv, MatchRunning, StreamInv, NothingQueued
<1>4. \A j \in DOMAIN outbox' : outbox'[j].kind = "order" =>
        \/ j \in DOMAIN fills /\ outbox'[j].id = fills[j].maker
           /\ makerFill[outbox'[j].id] > 0
        \/ j = n + 1 /\ outbox'[j].id = cur
  BY MatchTells
<1> HIDE DEF n
<1>5. CASE o = cur
  <2>1. n + 1 \in DOMAIN outbox'
    BY <1>1
  <2>2. \A j \in DOMAIN outbox' : j > n + 1 => ~ IsEventOf(outbox'[j], o)
    BY <1>1, <1>4 DEF IsEventOf
  <2> QED
    BY <1>1, <1>5, <2>1, <2>2, ToldNow
<1>6. CASE o # cur /\ makerFill[o] > 0
  <2>1. PICK i \in DOMAIN fills : fills[i].maker = o
    BY <1>6 DEF HitsAreFills
  <2>2. i \in 1..n /\ i \in DOMAIN outbox'
    BY <1>1
  <2>3. \A j \in DOMAIN outbox' : j > i => ~ IsEventOf(outbox'[j], o)
    <3> SUFFICES ASSUME NEW j \in DOMAIN outbox', j > i, IsEventOf(outbox'[j], o)
                 PROVE  FALSE
      OBVIOUS
    <3>1. j \in DOMAIN fills /\ fills[j].maker = o
      BY <1>4, <1>6 DEF IsEventOf
    <3>2. i = j
      BY <2>1, <3>1 DEF StreamInv, MakersDiffer
    <3> QED
      BY <2>2, <3>2, <1>1
  <2> QED
    BY <1>1, <2>1, <2>2, <2>3, ToldNow
<1>7. CASE o # cur /\ ~ makerFill[o] > 0
  <2>1. makerFill[o] = 0
    BY <1>7 DEF RuntimeInv, TypeOK
  <2>2. rows'[o] = rows[o]
    <3>1. DeltasFit
      BY DEF PersistMatchResult, MatchIsWritten
    <3> QED
      BY <1>2, <1>7, <2>1, <3>1, MatchedRow
  <2>3. \A j \in DOMAIN outbox' : ~ IsEventOf(outbox'[j], o)
    BY <1>4, <1>7 DEF IsEventOf
  <2> QED
    BY <1>2, <1>3, <1>7, <2>2, <2>3, ToldBefore
<1> QED
  BY <1>5, <1>6, <1>7

\* Every step without a fault tells the rows it changes, or leaves the change to be
\* told by the call that made it.
LEMMA OrdersToldStep ==
  ASSUME RuntimeInv, RuntimeInv', StreamInv, CompleteInv, [Next]_vars,
         faults = 0, faults' = 0,
         NEW o \in OrderId, o <= created', ~ Unannounced(o)'
  PROVE  ToldLast(o)'
<1>1. /\ created \in Nat /\ o \in Nat /\ rows \in [OrderId -> Row]
      /\ \A k \in AllFaults : ~ Fault(k)
  BY RuntimeAssumption DEF RuntimeInv, TypeOK, OrderId, Fault
<1>2. o <= created /\ ~ Unannounced(o) => ToldLast(o)
  BY DEF CompleteInv
<1>3. CASE \/ UNCHANGED vars \/ MatchStep \/ MatchDone \/ AnswerSubmit \/ AnswerCancel
           \/ PersistFails \/ Restart \/ (RecoverBook /\ pc = "recoverSubmit")
           \/ (CancelInBook /\ pc' = "recoverCancel") \/ CancelFails
           \/ \E c \in OrderId : ReadForCancel(c)
  <2>1. /\ stream' = stream /\ outbox' = outbox /\ rows' = rows /\ created' = created
        /\ Unannounced(o) => Unannounced(o)'
    BY <1>3 DEF vars, MatchStep, MatchDone, AnswerSubmit, AnswerCancel, PersistFails,
       Restart, CancelFails, ReadForCancel,
       RecoverBook, CancelInBook, Release, storeVars, wireVars, callVars, Unannounced
  <2> QED
    BY <1>2, <2>1, ToldUnchanged
<1>4. ASSUME NEW s \in Sides, NEW p \in Prices, NEW q \in Quantities, SubmitOrder(s, p, q)
      PROVE  ToldLast(o)'
  <2> DEFINE new == [side |-> s, price |-> p, qty |-> q, rem |-> q, status |-> "open"]
  <2>1. /\ rows' = [rows EXCEPT ![created + 1] = new] /\ created < MaxOrders
        /\ created' = created + 1 /\ stream' = stream /\ pc = "idle"
        /\ outbox' = <<[kind |-> "order", id |-> created + 1, rem |-> q, status |-> "open"]>>
    BY <1>1, <1>4 DEF SubmitOrder, Insert, AllFaults
  <2>2. created + 1 \in OrderId
    BY <1>1, <2>1, RuntimeAssumption DEF OrderId
  <2>3. rows'[created + 1] = new /\ (o # created + 1 => rows'[o] = rows[o])
    BY <1>1, <2>1, <2>2
  <2>4. outbox' = <<OrderEvent(rows', created + 1)>>
    BY <2>1, <2>3 DEF OrderEvent
  <2>5. outbox = <<>>
    BY <2>1 DEF StreamInv, NothingQueued
  <2>6. o # created + 1 => ToldLast(o)
    BY <1>1, <1>2, <2>1 DEF Unannounced
  <2> HIDE DEF new
  <2> QED
    BY <2>1, <2>3, <2>4, <2>5, <2>6, ToldAlone
<1>5. CASE CancelOrder
  <2>1. /\ rows' = [rows EXCEPT ![cur].status = "cancelled"] /\ created' = created
        /\ stream' = stream /\ outbox' = outbox /\ pc = "checked"
        /\ pc' = "cancelling" /\ cur' = cur
    BY <1>5 DEF CancelOrder, wireVars, callVars
  <2>2. o # cur
    BY <2>1 DEF Unannounced
  <2>3. rows'[o] = rows[o] /\ ~ Unannounced(o)
    BY <1>1, <2>1, <2>2 DEF Unannounced
  <2> QED
    BY <1>2, <2>1, <2>3, ToldUnchanged
<1>6. CASE \/ CancelInBook /\ pc' # "recoverCancel"
           \/ RecoverBook /\ pc # "recoverSubmit"
  <2>1. /\ rows' = rows /\ created' = created /\ stream' = stream
        /\ outbox' = <<OrderEvent(rows', cur)>> /\ pc \in {"cancelling", "recoverCancel"}
    <3>1. /\ rows' = rows /\ created' = created /\ stream' = stream
          /\ outbox' = <<CancelEvent>> /\ pc \in {"cancelling", "recoverCancel"}
      BY <1>6 DEF CancelInBook, RecoverBook, storeVars
    <3>2. copy = rows[cur].rem
      BY <3>1 DEF CompleteInv, Calm
    <3>3. CancelEvent = OrderEvent(rows, cur)
      BY <3>2 DEF CancelEvent, OrderEvent
    <3>4. OrderEvent(rows', cur) = OrderEvent(rows, cur)
      BY <3>1 DEF OrderEvent
    <3> QED
      BY <3>1, <3>3, <3>4
  <2>2. outbox = <<>>
    BY <2>1 DEF StreamInv, NothingQueued
  <2>3. o # cur => ToldLast(o)
    BY <1>2, <2>1 DEF Unannounced
  <2> QED
    BY <2>1, <2>2, <2>3, ToldAlone
<1>7. CASE PersistMatchResult
  <2>1. outbox' = MatchEvents /\ created' = created /\ pc = "matched"
    BY <1>1, <1>7 DEF PersistMatchResult, MatchIsWritten, AllFaults
  <2>2. ToldLast(o)
    BY <1>2, <2>1 DEF Unannounced
  <2> QED
    BY <1>7, <2>1, <2>2, HitsAreAmongFills, CommitTellsOrders
<1>8. CASE PublishEvent
  <2>1. created' = created /\ pc' = pc /\ cur' = cur
    BY <1>8 DEF PublishEvent, storeVars, callVars
  <2>2. ToldLast(o)
    BY <1>2, <2>1 DEF Unannounced
  <2> QED
    BY <1>8, <2>2, PublishTellsAll DEF RuntimeInv
<1>9. CASE FailClosed \/ Crash \/ PersistLater \/ Landings
  BY <1>1, <1>9, RowsAreRestorable DEF FailClosed, Crash, PersistLater, Landings, InsertLands,
     CompleteInv, Calm, AllFaults
<1> QED
  BY <1>3, <1>4, <1>5, <1>6, <1>7, <1>8, <1>9 DEF Next, Requests, Work

\* Every step without a fault tells the trades it adds.
LEMMA TradesToldStep ==
  ASSUME RuntimeInv, RuntimeInv', StreamInv, CompleteInv, [Next]_vars,
         faults = 0, faults' = 0, NEW t \in trades'
  PROVE  Tells(stream', t) \/ Tells(outbox', t)
<1>1. \A k \in AllFaults : ~ Fault(k)
  BY DEF Fault
<1>2. t \in trades => Tells(stream, t) \/ Tells(outbox, t)
  BY DEF CompleteInv
<1>3. outbox = <<>> => ~ Tells(outbox, t)
  BY DEF Tells
<1>4. CASE \/ UNCHANGED vars \/ MatchStep \/ MatchDone \/ AnswerSubmit \/ AnswerCancel
           \/ PersistFails \/ Restart \/ CancelOrder \/ CancelFails
           \/ \E o \in OrderId : ReadForCancel(o)
  <2>1. stream' = stream /\ outbox' = outbox /\ trades' = trades
    BY <1>4 DEF vars, MatchStep, MatchDone, AnswerSubmit, AnswerCancel, PersistFails,
       Restart, CancelOrder, CancelFails, ReadForCancel, storeVars, wireVars
  <2> QED
    BY <1>2, <2>1
<1>5. CASE CancelInBook \/ RecoverBook
  <2>1. /\ stream' = stream /\ trades' = trades
        /\ pc \in {"cancelling", "recoverSubmit", "recoverCancel"}
    BY <1>5 DEF CancelInBook, RecoverBook, storeVars
  <2>2. CASE outbox = <<>>
    BY <1>2, <1>3, <2>1, <2>2
  <2>3. CASE outbox # <<>>
    BY <2>1, <2>3 DEF StreamInv, NothingQueued
  <2> QED
    BY <2>2, <2>3
<1>6. ASSUME NEW s \in Sides, NEW p \in Prices, NEW q \in Quantities, SubmitOrder(s, p, q)
      PROVE  Tells(stream', t) \/ Tells(outbox', t)
  <2>1. stream' = stream /\ trades' = trades /\ outbox = <<>>
    BY <1>6 DEF SubmitOrder, Insert, StreamInv, NothingQueued
  <2> QED
    BY <1>2, <1>3, <2>1
<1>7. CASE PersistMatchResult
  <2>1. /\ outbox' = MatchEvents /\ stream' = stream /\ outbox = <<>>
        /\ trades' = trades \cup {TradeOf(fills[i]) : i \in DOMAIN fills}
    BY <1>1, <1>7 DEF PersistMatchResult, MatchIsWritten, NewTrades, AllFaults, StreamInv,
       NothingQueued
  <2>2. CASE t \in trades
    BY <1>2, <1>3, <2>1, <2>2
  <2>3. CASE t \notin trades
    <3> DEFINE n == Len(fills)
    <3>1. PICK i \in DOMAIN fills : t = TradeOf(fills[i])
      BY <2>1, <2>3
    <3>2. /\ n \in Nat /\ DOMAIN fills = 1..n
          /\ DOMAIN outbox' = 1..(2 * n + 1)
          /\ \A j \in (n + 2)..(2 * n + 1) : outbox'[j] = TradeEvent(fills[j - n - 1])
      BY <2>1, MatchEventsAt DEF RuntimeInv
    <3> HIDE DEF n
    <3>3. /\ n + 1 + i \in (n + 2)..(2 * n + 1) /\ n + 1 + i \in 1..(2 * n + 1)
          /\ (n + 1 + i) - n - 1 = i
      BY <3>2
    <3>4. outbox'[n + 1 + i] = TradeEvent(fills[i])
      BY <3>2, <3>3
    <3>5. TradeIn(outbox'[n + 1 + i]) = t
      BY <3>1, <3>4, TradeEventFields DEF TradeIn, TradeOf
    <3> QED
      BY <3>2, <3>3, <3>4, <3>5, TradeEventFields DEF Tells
  <2> QED
    BY <2>2, <2>3
<1>8. CASE PublishEvent
  <2>1. trades' = trades
    BY <1>8 DEF PublishEvent, storeVars
  <2> QED
    BY <1>2, <1>8, <2>1, PublishTellsAll DEF RuntimeInv
<1>9. CASE FailClosed \/ Crash \/ PersistLater \/ Landings
  BY <1>1, <1>9, RowsAreRestorable DEF FailClosed, Crash, PersistLater, Landings, InsertLands,
     CompleteInv, Calm, AllFaults
<1> QED
  BY <1>4, <1>5, <1>6, <1>7, <1>8, <1>9 DEF Next, Requests, Work

\* Nobody takes a fault back.
LEMMA FaultsOnlyGrow ==
  ASSUME RuntimeInv, [Next]_vars, faults' = 0 PROVE faults = 0
<1>1. faults \in Nat
  BY RuntimeAssumption DEF RuntimeInv, TypeOK
<1>2. CASE UNCHANGED vars \/ Requests \/ Landings
  BY <1>1, <1>2 DEF vars, Requests, SubmitOrder, ReadForCancel, Landings, InsertLands,
     CancelLands, MatchLands, NoFault, Fault
<1>3. CASE \/ MatchStep \/ MatchDone \/ AnswerSubmit \/ CancelInBook \/ AnswerCancel
           \/ RecoverBook \/ Restart \/ CancelOrder
  BY <1>1, <1>3 DEF MatchStep, MatchDone, AnswerSubmit, CancelInBook, AnswerCancel,
     RecoverBook, Restart, CancelOrder
<1>4. CASE \/ PublishEvent \/ PersistMatchResult \/ PersistFails \/ FailClosed \/ Crash
           \/ PersistLater \/ CancelFails
  BY <1>1, <1>4 DEF PublishEvent, PersistMatchResult, PersistFails, FailClosed, Crash,
     PersistLater, CancelFails, NoFault, Fault
<1> QED
  BY <1>2, <1>3, <1>4 DEF Next, Work

\* Every step keeps the stream complete, or was a fault.
LEMMA CompleteStep ==
  ASSUME RuntimeInv, RuntimeInv', StreamInv, CompleteInv, [Next]_vars PROVE CompleteInv'
<1>1. ASSUME faults' = 0 PROVE Calm'
  BY <1>1, FaultsOnlyGrow, CalmStays DEF CompleteInv
<1>2. ASSUME faults' = 0, NEW o \in OrderId, o <= created', ~ Unannounced(o)' PROVE ToldLast(o)'
  BY <1>2, FaultsOnlyGrow, OrdersToldStep
<1>3. ASSUME faults' = 0, NEW t \in trades' PROVE Tells(stream', t) \/ Tells(outbox', t)
  BY <1>3, FaultsOnlyGrow, TradesToldStep
<1>4. ASSUME faults' = 0, NEW t \in trades' PROVE (Tells(stream, t) \/ Tells(outbox, t))'
  BY <1>3, <1>4 DEF Tells, TradeIn
<1> QED
  BY <1>1, <1>2, <1>4 DEF CompleteInv

\* Without faults every row is told, or is about to be, and so is every trade: the
\* invariant behind the next theorem.
THEOREM CompleteInvariant == Spec => []CompleteInv
<1>1. Init => CompleteInv
  BY RuntimeAssumption DEF Init, CompleteInv, Calm, NoRow, OrderId
<1>2. RuntimeInv /\ RuntimeInv' /\ StreamInv /\ CompleteInv /\ [Next]_vars => CompleteInv'
  BY CompleteStep
<1> QED
  BY <1>1, <1>2, RuntimeInvariant, StreamInvariant, PTL DEF Spec

\* When nothing failed and the mutex is free, the last event of every order in the stream
\* is its row, and the trades of the stream are the trades table.
THEOREM StreamComplete == Spec => []StreamIsComplete
<1>1. RuntimeInv /\ StreamInv /\ CompleteInv => StreamIsComplete
  <2> SUFFICES ASSUME RuntimeInv, StreamInv, CompleteInv, pc = "idle", faults = 0
               PROVE  StreamIsComplete
    BY DEF StreamIsComplete
  <2>1. outbox = <<>> /\ DOMAIN outbox = {}
    BY DEF StreamInv, NothingQueued
  <2>2. stream \in Seq(Events) /\ Len(stream) \in Nat /\ DOMAIN stream = 1..Len(stream)
    BY DEF RuntimeInv, TypeOK, Events
  <2>3. ASSUME NEW o \in Orders
        PROVE  \E i \in DOMAIN stream :
                 /\ stream[i] = OrderEvent(rows, o)
                 /\ \A j \in (i + 1)..Len(stream) : ~ IsEventOf(stream[j], o)
    <3>1. o \in OrderId /\ o <= created
      <4>1. o \in OrderId /\ rows[o].status # "none"
        BY DEF Orders, Statuses
      <4>2. o \in Nat /\ created \in Nat
        BY <4>1, RuntimeAssumption DEF OrderId, RuntimeInv, TypeOK
      <4>3. rows[o] # NoRow
        BY <4>1 DEF NoRow
      <4> QED
        BY <4>1, <4>2, <4>3 DEF RuntimeInv, RowsInv
    <3>2. ToldLast(o)
      BY <3>1 DEF CompleteInv, Unannounced
    <3> PICK e : e = OrderEvent(rows, o)
      OBVIOUS
    <3>3. LastIn(stream, e, o)
      BY <2>1, <3>2 DEF ToldLast, LastIn
    <3>4. PICK i \in DOMAIN stream :
            stream[i] = e /\ \A j \in DOMAIN stream : j > i => ~ IsEventOf(stream[j], o)
      BY <3>3 DEF LastIn
    <3>5. \A j \in (i + 1)..Len(stream) : j \in DOMAIN stream /\ j > i
      BY <2>2
    <3> QED
      BY <3>4, <3>5
  <2>4. ASSUME NEW t \in trades
        PROVE  \E i \in DOMAIN stream : stream[i].kind = "trade" /\ TradeIn(stream[i]) = t
    <3>1. Tells(stream, t)
      BY <2>1 DEF CompleteInv, Tells
    <3> QED
      BY <3>1 DEF Tells
  <2>5. \A i \in DOMAIN stream : stream[i].kind = "trade" => TradeIn(stream[i]) \in trades
    BY DEF StreamInv, AllStillTrue, StillTrue, TradeStillTrue
  <2> QED
    BY <2>3, <2>4, <2>5 DEF StreamIsComplete, TradeIn
<1> QED
  BY <1>1, RuntimeInvariant, StreamInvariant, CompleteInvariant, PTL

----------------------------------------------------------------------------
(* What is filled, and that the runtime implements Exchange *)

Qty == [t \in Trades |-> t.qty]

TradesOf(o) == {t \in trades : o \in {t.taker, t.maker}}

\* The trades of the running match.
Hits == {TradeOf(fills[i]) : i \in DOMAIN fills}

\* What the trades table says was filled of an order is a sum of this module's kind.
LEMMA FilledIsSum ==
  ASSUME TypeOK, IsFiniteSet(trades), NEW o
  PROVE  FilledOf(o) = Sum(Qty, TradesOf(o))
<1> DEFINE S == TradesOf(o)
           g == CHOOSE h : h = [s \in SUBSET S |->
                  IF s = {} THEN 0
                  ELSE (CHOOSE t \in s : TRUE).qty + h[s \ {CHOOSE t \in s : TRUE}]]
<1>1. FilledOf(o) = g[S]
  BY DEF FilledOf, MapThenSumSet, MapThenFoldSet, TradesOf
<1>2. IsFiniteSet(S) /\ S \subseteq Trades
  BY FS_Subset DEF TradesOf, TypeOK
<1>3. \A t \in S : Qty[t] \in Nat /\ Qty[t] = t.qty
  BY <1>2 DEF Qty, Trades
<1> HIDE DEF S
<1>4. PICK h : SumsOver(Qty, h, S)
  BY <1>2, <1>3, SumsExist
<1>5. \A s \in SUBSET S : s # {} => Qty[CHOOSE t \in s : TRUE] = (CHOOSE t \in s : TRUE).qty
  BY <1>3, OneOf
<1>6. h = [s \in SUBSET S |->
                  IF s = {} THEN 0
                  ELSE (CHOOSE t \in s : TRUE).qty + h[s \ {CHOOSE t \in s : TRUE}]]
  BY <1>4, <1>5 DEF SumsOver, Turn
<1>7. g = [s \in SUBSET S |->
                  IF s = {} THEN 0
                  ELSE (CHOOSE t \in s : TRUE).qty + g[s \ {CHOOSE t \in s : TRUE}]]
  BY <1>6
<1> HIDE DEF g
<1>8. \A s \in SUBSET S : g[s] = Turn(Qty, g, s)
  BY <1>5, <1>7 DEF Turn
<1> QED
  BY <1>1, <1>2, <1>3, <1>8, SumOf DEF S

\* Nothing is filled twice and nothing is lost, with what a running match took in
\* between: every fill is what was taken of its maker, and what is left of the taker
\* and its fills add up.
FillInv ==
  /\ IsFiniteSet(trades)
  /\ \A t \in trades : t.taker <= created /\ t.maker <= created
  /\ MatchRunning =>
       /\ IsFiniteSet(Hits)
       /\ \A t \in trades : cur \notin {t.taker, t.maker}
       /\ \A i \in DOMAIN fills : /\ fills[i].qty = makerFill[fills[i].maker]
                                  /\ fills[i].price = rows[fills[i].maker].price
       /\ takerRem + Sum(Qty, Hits) = rows[cur].qty
  /\ \A o \in OrderId : o <= created => rows[o].rem + Sum(Qty, TradesOf(o)) = rows[o].qty

\* A transaction with taker c, trades T and the rows r it leaves takes of each order
\* what its trades say, and none of them was told before.
Books(c, T, r) ==
  /\ IsFiniteSet(T) /\ T \subseteq Trades
  /\ \A x \in trades : c \notin {x.taker, x.maker}
  /\ \A u \in T : u.taker = c /\ u.maker # c
  /\ r[c].rem + Sum(Qty, T) = rows[c].rem
  /\ \A o \in OrderId \ {c} :
       \/ r[o].rem = rows[o].rem /\ \A u \in T : u.maker # o
       \/ \E w \in T : /\ w.maker = o /\ \A u \in T : u.maker = o => u = w
                       /\ r[o].rem + w.qty = rows[o].rem

\* The rows as a transaction on its way will leave them.
After(t) == [o \in OrderId |-> IF Updates(t, o) THEN t.rows[o] ELSE rows[o]]

\* The same of those on their way.
LateFills == \A t \in late : Books(t.taker, t.trades, After(t))

\* A step that leaves the trades, the rows' quantities and the match alone.
LEMMA FillsKept ==
  ASSUME FillInv, trades' = trades, created' = created,
         \A o \in OrderId : rows'[o].rem = rows[o].rem /\ rows'[o].qty = rows[o].qty
                            /\ rows'[o].price = rows[o].price,
         \/ ~ MatchRunning'
         \/ MatchRunning /\ callVars' = callVars /\ cur \in OrderId
              /\ \A i \in DOMAIN fills : fills[i].maker \in OrderId
  PROVE  FillInv'
<1>1. \A o : TradesOf(o)' = TradesOf(o)
  BY DEF TradesOf
<1>2. \A o \in OrderId : o <= created' => rows'[o].rem + Sum(Qty, TradesOf(o)') = rows'[o].qty
  BY <1>1 DEF FillInv
<1>3. CASE ~ MatchRunning'
  BY <1>2, <1>3 DEF FillInv
<1>4. CASE /\ MatchRunning /\ callVars' = callVars /\ cur \in OrderId
           /\ \A i \in DOMAIN fills : fills[i].maker \in OrderId
  <2>1. Hits' = Hits
    BY <1>4 DEF Hits, TradeOf, callVars
  <2> QED
    BY <1>2, <1>4, <2>1 DEF FillInv, callVars
<1> QED
  BY <1>3, <1>4

\* A new row has nothing filled yet.
LEMMA FillsSubmit ==
  ASSUME RuntimeInv, RuntimeInv', FillInv,
         NEW s \in Sides, NEW p \in Prices, NEW q \in Quantities, SubmitOrder(s, p, q)
  PROVE  FillInv'
<1> DEFINE o == created + 1
           new(st) == [side |-> s, price |-> p, qty |-> q, rem |-> q, status |-> st]
<1>1. /\ \E st \in {"open", "inFlight"} : rows' = [rows EXCEPT ![o] = new(st)]
      /\ created' = o /\ trades' = trades
      /\ created < MaxOrders /\ pc = "idle" /\ fills' = fills
      /\ \/ pc' = "matching" /\ cur' = o /\ takerRem' = q
         \/ pc' = "idle"
  BY DEF SubmitOrder, Insert, callVars
<1>2. /\ created \in Nat /\ o \in OrderId /\ rows \in [OrderId -> Row] /\ q \in Nat
      /\ \A x \in OrderId : x \in Nat
  <2>1. created \in Nat /\ created < MaxOrders /\ MaxOrders \in Nat /\ q \in Nat
    BY <1>1, RuntimeAssumption DEF RuntimeInv, TypeOK
  <2>2. o \in OrderId /\ \A x \in OrderId : x \in Nat
    BY <2>1 DEF OrderId
  <2>3. rows \in [OrderId -> Row]
    BY DEF RuntimeInv, TypeOK
  <2> QED
    BY <2>1, <2>2, <2>3
<1>3. /\ rows'[o].rem = q /\ rows'[o].qty = q
      /\ \A x \in OrderId \ {o} : rows'[x] = rows[x]
  BY <1>1, <1>2
<1> HIDE DEF new
<1>4. \A x : TradesOf(x)' = TradesOf(x)
  BY <1>1 DEF TradesOf
<1>5. \A t \in trades : /\ t.taker <= created /\ t.maker <= created
                        /\ t.taker \in Nat /\ t.maker \in Nat
  BY <1>2 DEF FillInv, RuntimeInv, TypeOK, Trades
<1>6. TradesOf(o) = {}
  BY <1>2, <1>5 DEF TradesOf
<1>7. fills = <<>> /\ Hits' = {}
  BY <1>1 DEF RuntimeInv, CallInv, MatchRunning, Hits
<1>8. \A x \in OrderId : x <= created' => rows'[x].rem + Sum(Qty, TradesOf(x)') = rows'[x].qty
  <2> SUFFICES ASSUME NEW x \in OrderId, x <= created'
               PROVE  rows'[x].rem + Sum(Qty, TradesOf(x)) = rows'[x].qty
    BY <1>4
  <2>1. CASE x = o
    <3>1. Sum(Qty, TradesOf(x)) = 0
      BY <1>6, <2>1, SumOfNothing
    <3>2. rows'[x].rem = q /\ rows'[x].qty = q
      BY <1>3, <2>1
    <3> HIDE DEF o
    <3> QED
      BY <1>2, <3>1, <3>2
  <2>2. CASE x # o
    <3>1. x <= created
      BY <1>1, <1>2, <2>2
    <3> QED
      BY <1>3, <2>2, <3>1 DEF FillInv
  <2> QED
    BY <2>1, <2>2
<1>9. MatchRunning' => /\ IsFiniteSet(Hits')
                       /\ \A t \in trades' : cur' \notin {t.taker, t.maker}
                       /\ takerRem' + Sum(Qty, Hits') = rows'[cur'].qty
  <2>1. IsFiniteSet(Hits')
    BY <1>7, FS_EmptySet
  <2>2. \A t \in trades : o \notin {t.taker, t.maker}
    BY <1>2, <1>5
  <2>3. q + Sum(Qty, Hits') = rows'[o].qty
    BY <1>2, <1>3, <1>7, SumOfNothing
  <2> QED
    BY <1>1, <2>1, <2>2, <2>3 DEF MatchRunning
<1>10. \A t \in trades' : t.taker <= created' /\ t.maker <= created'
  BY <1>1, <1>2, <1>5
<1>11. \A i \in DOMAIN fills' : FALSE
  BY <1>1, <1>7
<1> HIDE DEF o
<1> QED
  BY <1>1, <1>8, <1>9, <1>10, <1>11 DEF FillInv

\* What a turn of the match takes of the taker is the fill it adds.
LEMMA FillsMatchStep ==
  ASSUME RuntimeInv, RuntimeInv', StreamInv, HitsAreFills, FillInv, MatchStep
  PROVE  FillInv'
<1>1. PICK m \in OrderId :
        /\ BestMaker(m)
        /\ bookRem' = [bookRem EXCEPT ![m] = @ - FillQty(m)]
        /\ takerRem' = takerRem - FillQty(m)
        /\ fills' = Append(fills, [maker |-> m, price |-> rows[m].price,
                                   qty |-> FillQty(m)])
        /\ makerFill' = [makerFill EXCEPT ![m] = @ + FillQty(m)]
  BY DEF MatchStep
<1> DEFINE n == Len(fills)
           q == FillQty(m)
           new == [taker |-> cur, maker |-> m, price |-> rows[m].price, qty |-> FillQty(m)]
<1>2. /\ rows' = rows /\ created' = created /\ trades' = trades /\ cur' = cur
      /\ takerRem > 0 /\ MatchRunning /\ MatchRunning'
  BY DEF MatchStep, storeVars, MatchRunning
<1>3. /\ bookRem[m] > 0 /\ bookRem[m] \in Nat /\ takerRem \in Nat
      /\ makerFill \in [OrderId -> Nat] /\ fills \in Seq(Fills)
      /\ cur \in OrderId
  BY <1>1, <1>2 DEF BestMaker, Opposite, InBook, RuntimeInv, TypeOK, CallInv
<1>4. q \in Nat /\ q <= takerRem
  BY <1>3 DEF FillQty
<1>5. \A i \in DOMAIN fills : fills[i].maker # m /\ fills[i].maker \in OrderId
  <2>1. \A i \in DOMAIN fills : bookRem[fills[i].maker] = 0
    BY <1>2 DEF StreamInv, MakersDiffer
  <2>2. \A i \in DOMAIN fills : fills[i].maker \in OrderId
    BY MakersAreOrders DEF RuntimeInv
  <2> QED
    BY <1>3, <2>1, <2>2
<1>6. makerFill[m] = 0
  BY <1>3, <1>5 DEF HitsAreFills
<1>7. /\ n \in Nat /\ DOMAIN fills = 1..n /\ DOMAIN fills' = 1..(n + 1)
      /\ \A i \in DOMAIN fills : fills'[i] = fills[i]
      /\ fills'[n + 1] = [maker |-> m, price |-> rows[m].price, qty |-> q]
  BY <1>1, <1>3
<1> HIDE DEF n, q
<1>8. fills'[n + 1].maker = m /\ fills'[n + 1].qty = q /\ fills'[n + 1].price = rows[m].price
  BY <1>7
<1>9. makerFill'[m] = q /\ \A x \in OrderId \ {m} : makerFill'[x] = makerFill[x]
  BY <1>1, <1>3, <1>4, <1>6 DEF q
<1>10. \A i \in DOMAIN fills' : /\ fills'[i].qty = makerFill'[fills'[i].maker]
                                /\ fills'[i].price = rows'[fills'[i].maker].price
  BY <1>2, <1>5, <1>7, <1>8, <1>9 DEF FillInv
<1>11. /\ new.maker = m /\ new.qty = q /\ new.taker = cur /\ new.price = rows[m].price
       /\ TradeOf(fills'[n + 1]) = new
  BY <1>7 DEF TradeOf, q
<1>12. new \in Trades /\ Hits \subseteq Trades
  <2>1. \A i \in DOMAIN fills : TradeOf(fills[i]) \in Trades
    <3>1. \A i \in DOMAIN fills : fills[i] \in Fills
      BY <1>3
    <3> QED
      BY <1>3, <3>1 DEF Fills, Trades, TradeOf
  <2>2. rows[m].price \in Nat
    BY DEF RuntimeInv, TypeOK, Row
  <2> QED
    BY <1>3, <1>4, <2>1, <2>2 DEF Hits, Trades, q
<1> HIDE DEF new
<1>13. Hits' = Hits \cup {new} /\ new \notin Hits
  <2>1. Hits' = {TradeOf(fills'[i]) : i \in DOMAIN fills'}
    BY <1>2 DEF Hits, TradeOf
  <2>2. DOMAIN fills' = DOMAIN fills \cup {n + 1}
    BY <1>7
  <2>3. \A i \in DOMAIN fills : TradeOf(fills'[i]) = TradeOf(fills[i])
    BY <1>7
  <2>4. Hits' = Hits \cup {new}
    BY <1>11, <2>1, <2>2, <2>3 DEF Hits
  <2>5. \A i \in DOMAIN fills : TradeOf(fills[i]).maker # m
    BY <1>5 DEF TradeOf
  <2> QED
    BY <1>11, <2>4, <2>5 DEF Hits
<1>14. IsFiniteSet(Hits') /\ Sum(Qty, Hits') = q + Sum(Qty, Hits) /\ Sum(Qty, Hits) \in Nat
  <2>1. \A t \in Trades : Qty[t] = t.qty /\ t.qty \in Nat
    BY DEF Qty, Trades
  <2>2. IsFiniteSet(Hits)
    BY <1>2 DEF FillInv
  <2>3. Qty[new] = q /\ \A t \in Hits : Qty[t] \in Nat
    BY <1>11, <1>12, <2>1
  <2> QED
    BY <1>4, <1>13, <2>2, <2>3, SumWith, SumType, FS_AddElement
<1>15. takerRem' + Sum(Qty, Hits') = rows'[cur'].qty
  <2>1. takerRem' = takerRem - q /\ takerRem + Sum(Qty, Hits) = rows[cur].qty
    BY <1>1, <1>2 DEF FillInv, q
  <2> QED
    BY <1>2, <1>3, <1>4, <1>14, <2>1
<1>16. \A o \in OrderId : o <= created' => rows'[o].rem + Sum(Qty, TradesOf(o)') = rows'[o].qty
  BY <1>2 DEF FillInv, TradesOf
<1> QED
  BY <1>2, <1>10, <1>14, <1>15, <1>16 DEF FillInv

\* What the transaction of a match books.
LEMMA MatchBooks ==
  ASSUME RuntimeInv, StreamInv, HitsAreFills, FillInv, pc = "matched", DeltasFit
  PROVE  Books(cur, Hits, MatchedRows)
<1>1. /\ cur \in OrderId /\ rows[cur].status = "open" /\ makerFill[cur] = 0
      /\ \A i \in DOMAIN fills : makerFill[fills[i].maker] > 0 /\ fills[i].maker \in OrderId
      /\ MatchRunning
  <2>1. \A i \in DOMAIN fills : fills[i].maker \in OrderId
    BY MakersAreOrders DEF RuntimeInv
  <2> QED
    BY <2>1 DEF RuntimeInv, CallInv, MatchRunning
<1>2. makerFill \in [OrderId -> Nat] /\ Hits \subseteq Trades
  BY NewTradesFacts DEF RuntimeInv, TypeOK, Hits, NewTrades
<1>3. /\ IsFiniteSet(Hits)
      /\ \A t \in trades : cur \notin {t.taker, t.maker}
      /\ \A i \in DOMAIN fills : fills[i].qty = makerFill[fills[i].maker]
      /\ takerRem + Sum(Qty, Hits) = rows[cur].qty
  BY <1>1 DEF FillInv
<1>4. \A u \in Hits : u.taker = cur /\ \E i \in DOMAIN fills : u = TradeOf(fills[i])
  BY DEF Hits, TradeOf
<1>5. \A u \in Hits : u.maker # cur
  BY <1>1, <1>4 DEF TradeOf
<1>6. MatchedRows[cur].rem = takerRem /\ rows[cur].rem = rows[cur].qty
  <2>1. cur <= created /\ rows[cur] # NoRow
    BY <1>1 DEF RuntimeInv, TypeOK, NoRow
  <2> QED
    BY <1>1, <2>1, MatchedRow DEF RuntimeInv, RowsInv
<1>7. ASSUME NEW o \in OrderId \ {cur}
      PROVE  \/ MatchedRows[o].rem = rows[o].rem /\ \A u \in Hits : u.maker # o
             \/ \E w \in Hits : /\ w.maker = o /\ \A u \in Hits : u.maker = o => u = w
                               /\ MatchedRows[o].rem + w.qty = rows[o].rem
  <2>1. CASE makerFill[o] = 0
    <3>1. MatchedRows[o] = rows[o]
      BY <2>1, MatchedRow
    <3>2. \A u \in Hits : u.maker # o
      BY <1>1, <1>4, <2>1 DEF TradeOf
    <3> QED
      BY <3>1, <3>2
  <2>2. CASE makerFill[o] > 0
    <3>1. PICK i \in DOMAIN fills : fills[i].maker = o
      BY <2>2 DEF HitsAreFills
    <3> DEFINE w == TradeOf(fills[i])
    <3>2. w \in Hits /\ w.maker = o /\ w.qty = makerFill[o]
      BY <1>3, <3>1 DEF Hits, TradeOf
    <3>3. \A u \in Hits : u.maker = o => u = w
      BY <1>4, <3>1 DEF TradeOf, StreamInv, MakersDiffer
    <3>4. MatchedRows[o].rem + makerFill[o] = rows[o].rem
      BY <2>2, MatchedRow
    <3> QED
      BY <3>2, <3>3, <3>4
  <2> QED
    BY <1>2, <2>1, <2>2
<1> QED
  BY <1>2, <1>3, <1>4, <1>5, <1>6, <1>7 DEF Books

\* Executed, it books every trade on both its rows.
LEMMA BooksCommitted ==
  ASSUME TypeOK, TypeOK', FillInv, NEW c \in OrderId, NEW T, Books(c, T, rows'),
         trades' = trades \cup T, created' = created,
         \A o \in OrderId : rows'[o].qty = rows[o].qty,
         NEW o \in OrderId, o <= created, rows[c].rem = rows[c].qty
  PROVE  rows'[o].rem + Sum(Qty, TradesOf(o)') = rows'[o].qty
<1>1. /\ IsFiniteSet(trades) /\ trades \subseteq Trades
      /\ rows[o].rem + Sum(Qty, TradesOf(o)) = rows[o].qty
  BY DEF FillInv, TypeOK
<1>2. /\ IsFiniteSet(T) /\ T \subseteq Trades
      /\ \A x \in trades : c \notin {x.taker, x.maker}
      /\ \A u \in T : u.taker = c /\ u.maker # c
  BY DEF Books
<1>3. \A t \in Trades : Qty[t] = t.qty /\ t.qty \in Nat
  BY DEF Qty, Trades
<1>4. CASE o = c
  <2>1. TradesOf(o)' = T
    BY <1>2, <1>4 DEF TradesOf
  <2> QED
    BY <1>4, <2>1 DEF Books
<1>5. CASE o # c
  <2>1. IsFiniteSet(TradesOf(o)) /\ \A t \in TradesOf(o) : t \in trades /\ Qty[t] \in Nat
    BY <1>1, <1>3, FS_Subset DEF TradesOf
  <2>2. TradesOf(o)' = TradesOf(o) \cup {u \in T : u.maker = o}
    BY <1>2, <1>5 DEF TradesOf
  <2>3. CASE rows'[o].rem = rows[o].rem /\ \A u \in T : u.maker # o
    <3>1. TradesOf(o)' = TradesOf(o)
      BY <2>2, <2>3
    <3> QED
      BY <1>1, <2>3, <3>1
  <2>4. CASE \E w \in T : /\ w.maker = o /\ \A u \in T : u.maker = o => u = w
                          /\ rows'[o].rem + w.qty = rows[o].rem
    <3>1. PICK w \in T : /\ w.maker = o /\ \A u \in T : u.maker = o => u = w
                         /\ rows'[o].rem + w.qty = rows[o].rem
      BY <2>4
    <3>2. TradesOf(o)' = TradesOf(o) \cup {w}
      BY <2>2, <3>1
    <3>3. w \notin TradesOf(o)
      BY <1>2 DEF TradesOf
    <3>4. Qty[w] = w.qty /\ w.qty \in Nat
      BY <1>2, <1>3
    <3>5. Sum(Qty, TradesOf(o)') = w.qty + Sum(Qty, TradesOf(o))
      BY <2>1, <3>2, <3>3, <3>4, SumWith
    <3>6. Sum(Qty, TradesOf(o)) \in Nat
      BY <2>1, SumType
    <3>7. rows'[o].rem \in Nat /\ rows[o].rem \in Nat /\ rows'[o].qty = rows[o].qty
      <4>1. rows' \in [OrderId -> Row] /\ rows \in [OrderId -> Row]
        BY DEF TypeOK
      <4> QED
        BY <4>1 DEF Row
    <3> QED
      BY <1>1, <3>1, <3>4, <3>5, <3>6, <3>7
  <2> QED
    BY <1>5, <2>3, <2>4 DEF Books
<1> QED
  BY <1>4, <1>5

\* The commit books every fill on both its rows.
LEMMA FillsCommit ==
  ASSUME RuntimeInv, RuntimeInv', StreamInv, HitsAreFills, FillInv, PersistMatchResult
  PROVE  FillInv'
<1>1. /\ pc = "matched" /\ DeltasFit /\ rows' = MatchedRows /\ created' = created
      /\ trades' = trades \cup Hits /\ ~ MatchRunning'
  BY DEF PersistMatchResult, MatchIsWritten, Hits, NewTrades, MatchRunning
<1>2. /\ cur \in OrderId /\ cur <= created /\ rows[cur].rem = rows[cur].qty
      /\ \A i \in DOMAIN fills : makerFill[fills[i].maker] > 0 /\ fills[i].maker \in OrderId
  <2>1. /\ cur \in 0..created /\ created \in Nat
        /\ \A i \in DOMAIN fills : fills[i].maker \in OrderId
    <3>1. \A i \in DOMAIN fills : fills[i].maker \in OrderId
      BY MakersAreOrders DEF RuntimeInv
    <3>2. created \in 0..MaxOrders /\ cur \in 0..created
      BY DEF RuntimeInv, TypeOK
    <3> QED
      BY <3>1, <3>2, RuntimeAssumption
  <2>2. cur \in OrderId /\ rows[cur].status = "open"
    BY <1>1 DEF RuntimeInv, CallInv, MatchRunning
  <2>3. rows[cur].rem = rows[cur].qty
    BY <2>1, <2>2 DEF RuntimeInv, RowsInv, NoRow
  <2>4. \A i \in DOMAIN fills : makerFill[fills[i].maker] > 0
    BY <1>1 DEF RuntimeInv, CallInv, MatchRunning
  <2> QED
    BY <2>1, <2>2, <2>3, <2>4
<1>3. Books(cur, Hits, rows')
  BY <1>1, MatchBooks
<1>4. IsFiniteSet(trades')
  <2>1. IsFiniteSet(trades) /\ IsFiniteSet(Hits)
    BY <1>3 DEF FillInv, Books
  <2> QED
    BY <1>1, <2>1, FS_Union
<1>5. \A t \in trades' : t.taker <= created' /\ t.maker <= created'
  <2>1. \A i \in DOMAIN fills : fills[i].maker <= created
    BY <1>1, <1>2, MatchedRow DEF RuntimeInv, CallInv, MatchRunning
  <2>2. \A t \in Hits : t.taker <= created /\ t.maker <= created
    BY <1>2, <2>1 DEF Hits, TradeOf
  <2> QED
    BY <1>1, <2>2 DEF FillInv
<1>6. \A o \in OrderId : rows'[o].qty = rows[o].qty
  BY <1>1, MatchedRow
<1>7. \A o \in OrderId : o <= created => rows'[o].rem + Sum(Qty, TradesOf(o)') = rows'[o].qty
  BY <1>1, <1>2, <1>3, <1>6, BooksCommitted DEF RuntimeInv
<1> QED
  BY <1>1, <1>4, <1>5, <1>7 DEF FillInv

\* So does the commit of a transaction that was on its way.
LEMMA FillsLand ==
  ASSUME RuntimeInv, RuntimeInv', FillInv, LateFills, NEW t \in late, MatchLands(t)
  PROVE  FillInv'
<1>1. /\ created' = created /\ pc' = pc /\ cur' = cur /\ takerRem' = takerRem
      /\ fills' = fills /\ makerFill' = makerFill /\ copy' = copy
      /\ \A o \in OrderId : rows'[o].qty = rows[o].qty /\ rows'[o].price = rows[o].price
  BY LandingFacts
<1>2. MatchRunning => cur \in OrderId /\ \A i \in DOMAIN fills : fills[i].maker \in OrderId
  BY MakersAreOrders DEF RuntimeInv, CallInv
<1>3. CASE UNCHANGED <<rows, trades>>
  BY <1>1, <1>2, <1>3, FillsKept DEF callVars, MatchRunning
<1>4. CASE rows' = After(t) /\ trades' = trades \cup t.trades
  <2>1. /\ t.taker \in OrderId /\ Updates(t, t.taker) /\ rows[t.taker].status = "open"
        /\ \A u \in t.trades : u.taker = t.taker /\ Updates(t, u.maker) /\ u.maker \in OrderId
        /\ t.trades \subseteq Trades
    <3>1. t \in Transactions
      BY DEF RuntimeInv, TypeOK
    <3>2. t.taker \in OrderId /\ t.trades \subseteq Trades
      BY <3>1 DEF Transactions
    <3>3. /\ Updates(t, t.taker) /\ rows[t.taker].status = "open"
          /\ \A u \in t.trades : u.taker = t.taker /\ Updates(t, u.maker)
      BY DEF RuntimeInv, LateInv
    <3>4. \A u \in t.trades : u.maker \in OrderId
      BY <3>2 DEF Trades
    <3> QED
      BY <3>2, <3>3, <3>4
  <2>2. t.taker <= created /\ rows[t.taker].rem = rows[t.taker].qty
    <3>1. t.taker <= created
      BY <2>1, LockedFacts
    <3>2. t.taker \in Nat /\ created \in Nat
      BY <2>1, RuntimeAssumption DEF OrderId, RuntimeInv, TypeOK
    <3> QED
      BY <2>1, <3>1, <3>2 DEF RuntimeInv, RowsInv
  <2>3. Books(t.taker, t.trades, rows')
    BY <1>4 DEF LateFills
  <2>4. \A o \in OrderId : o <= created => rows'[o].rem + Sum(Qty, TradesOf(o)') = rows'[o].qty
    BY <1>1, <1>4, <2>1, <2>2, <2>3, BooksCommitted DEF RuntimeInv
  <2>5. IsFiniteSet(trades')
    <3>1. IsFiniteSet(trades) /\ IsFiniteSet(t.trades)
      BY <2>3 DEF FillInv, Books
    <3> QED
      BY <1>4, <3>1, FS_Union
  <2>6. \A u \in t.trades : u.taker <= created /\ u.maker <= created
    BY <2>1, LockedFacts
  <2>7. \A u \in trades' : u.taker <= created' /\ u.maker <= created'
    BY <1>1, <1>4, <2>6 DEF FillInv
  <2>8. MatchRunning => \A u \in t.trades : cur \notin {u.taker, u.maker}
    <3> SUFFICES ASSUME MatchRunning, NEW u \in t.trades, cur \in {u.taker, u.maker}
                 PROVE  FALSE
      OBVIOUS
    <3>1. cur \in OrderId /\ Updates(t, cur)
      BY <2>1
    <3> QED
      BY <3>1, LockedFacts DEF MatchRunning
  <2>9. Hits' = Hits
    BY <1>1 DEF Hits, TradeOf
  <2> QED
    BY <1>1, <1>2, <1>4, <2>4, <2>5, <2>7, <2>8, <2>9 DEF FillInv, MatchRunning
<1> QED
  BY <1>3, <1>4 DEF MatchLands, After

\* Every step keeps the books.
LEMMA FillsStep ==
  ASSUME RuntimeInv, RuntimeInv', StreamInv, HitsAreFills, FillInv, LateFills, [Next]_vars
  PROVE  FillInv'
<1>1. rows \in [OrderId -> Row] /\ trades \subseteq Trades
  BY DEF RuntimeInv, TypeOK
<1>2. MatchRunning => cur \in OrderId /\ \A i \in DOMAIN fills : fills[i].maker \in OrderId
  BY MakersAreOrders DEF RuntimeInv, CallInv
<1>3. CASE UNCHANGED vars \/ PublishEvent \/ MatchDone
  <2>1. /\ trades' = trades /\ created' = created /\ rows' = rows /\ callVars' = callVars
        /\ MatchRunning' => MatchRunning
    BY <1>3 DEF vars, PublishEvent, MatchDone, storeVars, callVars, MatchRunning
  <2> QED
    BY <1>2, <2>1, FillsKept
<1>4. CASE \/ PersistFails \/ AnswerSubmit \/ CancelInBook \/ AnswerCancel \/ RecoverBook
           \/ FailClosed \/ Crash \/ Restart \/ PersistLater \/ CancelFails
           \/ \E o \in OrderId : ReadForCancel(o)
  <2>1. trades' = trades /\ created' = created /\ rows' = rows /\ ~ MatchRunning'
    BY <1>4 DEF PersistFails, AnswerSubmit, CancelInBook, AnswerCancel, RecoverBook,
       FailClosed, Crash, Restart, PersistLater, CancelFails, ReadForCancel, storeVars,
       MatchRunning, Release
  <2> QED
    BY <2>1, FillsKept
<1>5. ASSUME NEW c \in OrderId, NEW st, rows' = [rows EXCEPT ![c].status = st],
             trades' = trades, created' = created, callVars' = callVars,
             MatchRunning' => MatchRunning
      PROVE  FillInv'
  <2>1. \A o \in OrderId : rows'[o].rem = rows[o].rem /\ rows'[o].qty = rows[o].qty
                           /\ rows'[o].price = rows[o].price
    BY <1>1, <1>5 DEF Row
  <2> QED
    BY <1>2, <1>5, <2>1, FillsKept
<1>6. CASE CancelOrder
  <2>1. cur \in OrderId
    BY <1>6 DEF CancelOrder, RuntimeInv, CallInv, Orders
  <2>2. /\ trades' = trades /\ created' = created /\ callVars' = callVars
        /\ ~ MatchRunning' /\ rows' = [rows EXCEPT ![cur].status = "cancelled"]
    BY <1>6 DEF CancelOrder, MatchRunning
  <2> QED
    BY <1>5, <2>1, <2>2
<1>7. ASSUME NEW o \in OrderId, InsertLands(o) PROVE FillInv'
  <2>1. /\ trades' = trades /\ created' = created /\ callVars' = callVars /\ pc' = pc
        /\ rows' = [rows EXCEPT ![o].status = "open"]
    BY <1>7 DEF InsertLands
  <2> QED
    BY <1>5, <2>1 DEF MatchRunning
<1>8. ASSUME NEW o \in lateCancels, CancelLands(o) PROVE FillInv'
  <2>1. /\ trades' = trades /\ created' = created /\ callVars' = callVars /\ pc' = pc
        /\ rows' = [rows EXCEPT ![o].status = "cancelled"] /\ o \in OrderId
    BY <1>8 DEF CancelLands, RuntimeInv, TypeOK
  <2> QED
    BY <1>5, <2>1 DEF MatchRunning
<1> QED
  BY <1>3, <1>4, <1>6, <1>7, <1>8, FillsSubmit, FillsMatchStep, FillsCommit, FillsLand
     DEF Next, Requests, Work, Landings

\* The rows a transaction on its way has locked keep what it will book on them, and its
\* taker is in no other trade.
LEMMA LateFillsKept ==
  ASSUME RuntimeInv, RuntimeInv', FillInv, LateFills, [Next]_vars,
         NEW t \in late, t \in late'
  PROVE  Books(t.taker, t.trades, After(t))'
<1>1. /\ t.taker \in OrderId /\ Updates(t, t.taker)
      /\ \A u \in t.trades : u.taker = t.taker /\ Updates(t, u.maker)
      /\ \A u \in late : \A o \in OrderId : Updates(t, o) /\ Updates(u, o) => t = u
  BY DEF RuntimeInv, LateInv, TypeOK, Transactions
<1>2. ASSUME NEW o \in OrderId, Updates(t, o)
      PROVE  /\ Locked(o) /\ rows'[o].rem = rows[o].rem
             /\ \A u \in late : MatchLands(u) => ~ Updates(u, o)
  <2>1. Locked(o) /\ o <= created
    BY <1>2, LockedFacts DEF Locked
  <2>2. \A u \in late : MatchLands(u) => ~ Updates(u, o)
    BY <1>1, <1>2 DEF MatchLands
  <2>3. ~ (PersistMatchResult /\ o \in Touched)
    BY <2>1 DEF PersistMatchResult, MatchIsWritten
  <2> QED
    BY <2>1, <2>2, <2>3, RowChanges
<1>3. \A x \in trades' : t.taker \notin {x.taker, x.maker}
  <2> SUFFICES ASSUME NEW x \in trades' \ trades PROVE t.taker \notin {x.taker, x.maker}
    BY DEF LateFills, Books
  <2>1. CASE PersistMatchResult
    <3>1. /\ pc = "matched" /\ x \in NewTrades /\ \A o \in Touched : ~ Locked(o)
      BY <2>1 DEF PersistMatchResult, MatchIsWritten
    <3>2. x.taker \in Touched /\ x.maker \in Touched
      BY <3>1, NewTradesFacts DEF Touched
    <3>3. Locked(t.taker)
      BY <1>1 DEF Locked
    <3> QED
      BY <3>1, <3>2, <3>3
  <2>2. ASSUME NEW u \in late, MatchLands(u) PROVE t.taker \notin {x.taker, x.maker}
    <3>1. x \in u.trades /\ ~ Updates(u, t.taker)
      BY <1>1, <1>2, <2>2 DEF MatchLands
    <3>2. u.taker = x.taker /\ Updates(u, x.taker) /\ Updates(u, x.maker)
      BY <3>1 DEF RuntimeInv, LateInv
    <3> QED
      BY <3>1, <3>2
  <2> QED
    BY <2>1, <2>2, TradesComeFrom
<1>4. \A o \in OrderId : After(t)[o] = IF Updates(t, o) THEN t.rows[o] ELSE rows[o]
  BY DEF After
<1>5. \A o \in OrderId : After(t)'[o] = IF Updates(t, o) THEN t.rows[o] ELSE rows'[o]
  BY DEF After, Updates
<1>6. /\ IsFiniteSet(t.trades) /\ t.trades \subseteq Trades
      /\ \A u \in t.trades : u.taker = t.taker /\ u.maker # t.taker
      /\ After(t)'[t.taker].rem + Sum(Qty, t.trades) = rows'[t.taker].rem
  BY <1>1, <1>2, <1>4, <1>5 DEF LateFills, Books
<1>7. ASSUME NEW o \in OrderId \ {t.taker}
      PROVE  \/ After(t)'[o].rem = rows'[o].rem /\ \A u \in t.trades : u.maker # o
             \/ \E w \in t.trades : /\ w.maker = o /\ \A u \in t.trades : u.maker = o => u = w
                                   /\ After(t)'[o].rem + w.qty = rows'[o].rem
  <2>1. CASE Updates(t, o)
    BY <1>2, <1>4, <1>5, <2>1 DEF LateFills, Books
  <2>2. CASE ~ Updates(t, o)
    BY <1>1, <1>5, <2>2
  <2> QED
    BY <2>1, <2>2
<1> QED
  BY <1>3, <1>6, <1>7 DEF Books

\* And one that comes on its way books what the match took.
LEMMA LateFillsStep ==
  ASSUME RuntimeInv, RuntimeInv', StreamInv, HitsAreFills, FillInv, LateFills, [Next]_vars
  PROVE  LateFills'
<1> SUFFICES ASSUME NEW t \in late' PROVE Books(t.taker, t.trades, After(t))'
  BY DEF LateFills
<1>1. CASE t \in late
  BY <1>1, LateFillsKept
<1>2. CASE t \notin late
  <2>1. PersistLater
    BY <1>2, LateComesFrom
  <2>2. /\ pc = "matched" /\ DeltasFit /\ rows' = rows /\ trades' = trades
        /\ t = [taker |-> cur, trades |-> NewTrades, rows |-> UpdatedRows]
    BY <1>2, <2>1 DEF PersistLater, MatchIsWritten
  <2>3. t.taker = cur /\ t.trades = Hits /\ t.rows = UpdatedRows
    BY <2>2 DEF Hits, NewTrades
  <2>4. ASSUME NEW o \in OrderId PROVE After(t)'[o] = MatchedRows[o]
    <3>1. After(t)'[o] = IF UpdatedRows[o] # NoRow THEN UpdatedRows[o] ELSE rows[o]
      BY <2>2, <2>3 DEF After, Updates
    <3>2. CASE o \in Touched
      <4>1. UpdatedRows[o] = MatchedRows[o]
        BY <3>2 DEF UpdatedRows
      <4>2. MatchedRows[o].status # "none"
        <5>1. MatchedRows[o].status \in {TakerStatus, StatusAfterFill(MatchedRows[o].rem)}
          BY <2>2, <3>2, MatchedRow DEF Touched
        <5> QED
          BY <5>1 DEF TakerStatus, StatusAfterFill
      <4>3. MatchedRows[o] # NoRow
        BY <4>2 DEF NoRow
      <4> QED
        BY <3>1, <4>1, <4>3
    <3>3. CASE o \notin Touched
      <4>1. UpdatedRows[o] = NoRow
        BY <3>3 DEF UpdatedRows
      <4>2. o # cur /\ makerFill[o] = 0
        <5>1. makerFill \in [OrderId -> Nat]
          BY DEF RuntimeInv, TypeOK
        <5>2. o # cur /\ ~ makerFill[o] > 0
          BY <3>3 DEF Touched
        <5> QED
          BY <5>1, <5>2
      <4> QED
        BY <2>2, <3>1, <4>1, <4>2, MatchedRow
    <3> QED
      BY <3>2, <3>3
  <2>5. Books(cur, Hits, MatchedRows) /\ cur \in OrderId
    BY <2>2, MatchBooks DEF RuntimeInv, CallInv, MatchRunning
  <2> QED
    BY <2>2, <2>3, <2>4, <2>5 DEF Books
<1> QED
  BY <1>1, <1>2

\* Every fill is booked on both its orders, once: the invariant behind the next theorem.
THEOREM FillInvariant == Spec => [](FillInv /\ LateFills)
<1>1. Init => FillInv
  <2> SUFFICES ASSUME Init PROVE FillInv
    OBVIOUS
  <2>1. trades = {} /\ ~ MatchRunning /\ created = 0
    BY DEF Init, MatchRunning
  <2>2. \A o \in OrderId : ~ o <= created
    BY <2>1, RuntimeAssumption DEF OrderId
  <2> QED
    BY <2>1, <2>2, FS_EmptySet DEF FillInv
<1>2. Init => LateFills
  BY DEF Init, LateFills
<1>3. RuntimeInv /\ RuntimeInv' /\ StreamInv /\ FillInv /\ LateFills /\ [Next]_vars =>
        FillInv' /\ LateFills'
  BY FillsStep, LateFillsStep, HitsAreAmongFills
<1> QED
  BY <1>1, <1>2, <1>3, RuntimeInvariant, StreamInvariant, PTL DEF Spec

\* Nothing is filled twice and nothing is lost: of every row, what is left and what the
\* trades table says was filled add up to the quantity ordered, whatever failed.
THEOREM NothingIsLost == Spec => []FillsConserved
<1>1. RuntimeInv /\ FillInv => FillsConserved
  <2> SUFFICES ASSUME RuntimeInv, FillInv, NEW o \in Orders
               PROVE  rows[o].rem + FilledOf(o) = rows[o].qty
    BY DEF FillsConserved
  <2>1. o \in OrderId /\ rows[o].status # "none" /\ o \in Nat /\ created \in Nat
    BY RuntimeAssumption DEF Orders, Statuses, OrderId, RuntimeInv, TypeOK
  <2>2. rows[o] # NoRow
    BY <2>1 DEF NoRow
  <2>3. o <= created
    BY <2>1, <2>2 DEF RuntimeInv, RowsInv
  <2> QED
    BY <2>1, <2>3, FilledIsSum DEF RuntimeInv, FillInv
<1> QED
  BY <1>1, RuntimeInvariant, FillInvariant, PTL

\* The orders that the running match took something of.
Hit == {o \in OrderId : makerFill[o] > 0}

\* A running match has taken of the other side only, at prices the taker accepts,
\* and what it took is what the taker has less.
MatchInv ==
  MatchRunning =>
    /\ takerRem + Sum(makerFill, Hit) = rows[cur].qty
    /\ \A m \in Hit : rows[m].side # rows[cur].side /\ Crosses(cur, m)

\* A turn of the match adds what it takes of the maker.
LEMMA MatchInvStep ==
  ASSUME RuntimeInv, RuntimeInv', StreamInv, HitsAreFills, MatchInv, MatchStep
  PROVE  MatchInv'
<1>1. PICK m \in OrderId :
        /\ BestMaker(m) /\ Crosses(cur, m)
        /\ takerRem' = takerRem - FillQty(m)
        /\ makerFill' = [makerFill EXCEPT ![m] = @ + FillQty(m)]
  BY DEF MatchStep
<1> DEFINE q == FillQty(m)
<1>2. rows' = rows /\ cur' = cur /\ takerRem > 0 /\ MatchRunning
  BY DEF MatchStep, storeVars, MatchRunning
<1>3. /\ bookRem[m] > 0 /\ bookRem[m] \in Nat /\ takerRem \in Nat
      /\ makerFill \in [OrderId -> Nat] /\ rows[m].side # rows[cur].side
      /\ cur \in OrderId /\ rows \in [OrderId -> Row]
  BY <1>1, <1>2 DEF BestMaker, Opposite, InBook, RuntimeInv, TypeOK, CallInv
<1>4. q \in Nat /\ q <= takerRem /\ q > 0
  BY <1>2, <1>3 DEF FillQty
<1>5. makerFill[m] = 0
  <2>1. \A i \in DOMAIN fills : bookRem[fills[i].maker] = 0
    BY <1>2 DEF StreamInv, MakersDiffer
  <2> QED
    BY <1>3, <2>1 DEF HitsAreFills
<1> HIDE DEF q
<1>6. makerFill'[m] = q /\ \A x \in OrderId \ {m} : makerFill'[x] = makerFill[x]
  BY <1>1, <1>3, <1>4, <1>5 DEF q
<1>7. Hit' = Hit \cup {m} /\ m \notin Hit /\ Hit \subseteq OrderId
  BY <1>4, <1>5, <1>6 DEF Hit
<1>8. Sum(makerFill', Hit') = q + Sum(makerFill, Hit) /\ Sum(makerFill, Hit) \in Nat
  <2>1. IsFiniteSet(Hit)
    <3>1. IsFiniteSet(OrderId)
      BY RuntimeAssumption, FS_Interval DEF OrderId
    <3> QED
      BY <1>7, <3>1, FS_Subset
  <2>2. \A x \in Hit : makerFill[x] \in Nat
    BY <1>3, <1>7
  <2>3. \A x \in Hit : makerFill'[x] = makerFill[x]
    BY <1>6, <1>7
  <2>4. Sum(makerFill', Hit) = Sum(makerFill, Hit)
    BY <2>1, <2>2, <2>3, SumSame
  <2>5. \A x \in Hit : makerFill'[x] \in Nat
    BY <2>2, <2>3
  <2>6. makerFill'[m] \in Nat
    BY <1>4, <1>6
  <2>7. Sum(makerFill', Hit \cup {m}) = makerFill'[m] + Sum(makerFill', Hit)
    BY <1>7, <2>1, <2>5, <2>6, SumWith
  <2>8. Sum(makerFill, Hit) \in Nat
    BY <2>1, <2>2, SumType
  <2> QED
    BY <1>6, <1>7, <2>4, <2>7, <2>8
<1>9. takerRem' + Sum(makerFill', Hit') = rows'[cur'].qty
  <2>1. takerRem' = takerRem - q /\ takerRem + Sum(makerFill, Hit) = rows[cur].qty
    BY <1>1, <1>2 DEF MatchInv, q
  <2> QED
    BY <1>2, <1>3, <1>4, <1>8, <2>1
<1>10. \A x \in Hit' : rows'[x].side # rows'[cur'].side /\ Crosses(cur, x)'
  BY <1>1, <1>2, <1>3, <1>7 DEF MatchInv, Crosses
<1> QED
  BY <1>2, <1>9, <1>10 DEF MatchInv, Crosses

\* Every step keeps what is known of the running match.
LEMMA MatchInvKeeps ==
  ASSUME RuntimeInv, RuntimeInv', StreamInv, HitsAreFills, MatchInv, [Next]_vars
  PROVE  MatchInv'
<1>1. CASE UNCHANGED vars \/ PublishEvent \/ MatchDone
  <2>1. rows' = rows /\ callVars' = callVars /\ (MatchRunning' => MatchRunning)
    BY <1>1 DEF vars, PublishEvent, MatchDone, storeVars, callVars, MatchRunning
  <2>2. rows' = rows /\ cur' = cur /\ takerRem' = takerRem /\ makerFill' = makerFill /\ Hit' = Hit
    BY <2>1 DEF callVars, Hit
  <2> QED
    BY <2>1, <2>2 DEF MatchInv, Crosses
<1>2. CASE \/ PersistFails \/ AnswerSubmit \/ CancelInBook \/ AnswerCancel \/ RecoverBook
           \/ FailClosed \/ Crash \/ Restart \/ PersistMatchResult \/ PersistLater
           \/ CancelOrder \/ CancelFails \/ \E c \in OrderId : ReadForCancel(c)
  <2>1. ~ MatchRunning'
    BY <1>2 DEF PersistFails, AnswerSubmit, CancelInBook, AnswerCancel, RecoverBook,
       FailClosed, Crash, Restart, storeVars, MatchRunning, Release, PersistMatchResult,
       PersistLater, CancelOrder, CancelFails, ReadForCancel
  <2> QED
    BY <2>1 DEF MatchInv
<1>3. ASSUME NEW s \in Sides, NEW p \in Prices, NEW q \in Quantities, SubmitOrder(s, p, q)
      PROVE MatchInv'
  <2> SUFFICES ASSUME MatchRunning'
               PROVE  takerRem' + Sum(makerFill', Hit') = rows'[cur'].qty /\ Hit' = {}
    BY DEF MatchInv
  <2>1. /\ pc = "idle" /\ pc' = "matching" /\ makerFill' = makerFill /\ cur' = created + 1
        /\ rows' = [rows EXCEPT ![created + 1] =
                      [side |-> s, price |-> p, qty |-> q, rem |-> q, status |-> "open"]]
        /\ takerRem' = q /\ created < MaxOrders
    BY <1>3 DEF SubmitOrder, MatchRunning, Insert, callVars
  <2>2. created + 1 \in OrderId /\ rows \in [OrderId -> Row] /\ q \in Nat
    <3>1. created \in Nat /\ MaxOrders \in Nat /\ q \in Nat /\ rows \in [OrderId -> Row]
      BY RuntimeAssumption DEF RuntimeInv, TypeOK
    <3> QED
      BY <2>1, <3>1 DEF OrderId
  <2>3. Hit' = {}
    BY <2>1 DEF RuntimeInv, CallInv, Hit, MatchRunning
  <2>4. rows'[cur'].qty = q
    BY <2>1, <2>2
  <2>5. Sum(makerFill', Hit') = 0
    BY <2>3, SumOfNothing
  <2> QED
    BY <2>1, <2>2, <2>3, <2>4, <2>5
<1>4. CASE Landings
  <2> SUFFICES ASSUME MatchRunning' PROVE MatchInv'
    BY DEF MatchInv
  <2>1. callVars' = callVars /\ MatchRunning
    BY <1>4 DEF Landings, InsertLands, CancelLands, MatchLands, MatchRunning
  <2>2. cur' = cur /\ takerRem' = takerRem /\ makerFill' = makerFill /\ Hit' = Hit
    BY <2>1 DEF callVars, Hit
  <2>3. /\ cur \in OrderId /\ cur <= created /\ makerFill[cur] = 0
        /\ bookRem \in [OrderId -> Nat] /\ makerFill \in [OrderId -> Nat]
    <3>1. created \in Nat /\ cur \in 0..created
      BY RuntimeAssumption DEF RuntimeInv, TypeOK
    <3>2. cur <= created
      BY <3>1
    <3>3. cur \in OrderId /\ makerFill[cur] = 0
      BY <2>1 DEF RuntimeInv, CallInv
    <3> QED
      BY <3>2, <3>3 DEF RuntimeInv, TypeOK
  <2>4. \A m \in Hit : m \in OrderId /\ m <= created
    <3> SUFFICES ASSUME NEW m \in Hit PROVE m \in OrderId /\ m <= created
      OBVIOUS
    <3>1. m \in OrderId /\ m # cur /\ InPlayQty(m) > 0
      BY <2>3 DEF Hit, InPlayQty
    <3> QED
      BY <2>1, <3>1 DEF RuntimeInv, BookInv, BookIsLive, MatchRunning
  <2>5. \A o \in OrderId : o <= created =>
          /\ rows'[o].side = rows[o].side /\ rows'[o].price = rows[o].price
          /\ rows'[o].qty = rows[o].qty
    BY RowChanges
  <2> QED
    BY <2>1, <2>2, <2>3, <2>4, <2>5 DEF MatchInv, Crosses
<1> QED
  BY <1>1, <1>2, <1>3, <1>4, MatchInvStep DEF Next, Requests, Work

\* What the running match took, for the refinement.
THEOREM MatchInvariant == Spec => []MatchInv
<1>1. Init => MatchInv
  BY DEF Init, MatchInv, MatchRunning
<1>2. RuntimeInv /\ RuntimeInv' /\ StreamInv /\ MatchInv /\ [Next]_vars => MatchInv'
  BY MatchInvKeeps, HitsAreAmongFills
<1> QED
  BY <1>1, <1>2, RuntimeInvariant, StreamInvariant, PTL DEF Spec

\* What the refinement needs to know of a state in which a match is about to be
\* committed: nothing is in doubt between the book and the table.
MatchReady ==
  /\ RuntimeInv /\ QueueInv /\ ExactInv /\ StreamInv /\ HitsAreFills /\ FillInv /\ MatchInv
  /\ InsertsAreAnswered /\ CancelsAreAnswered /\ CommitsAreTimely
  /\ pc = "matched" /\ DeltasFit

\* The makers the exchange would match the order at the mutex with, and the part of
\* them that comes before m.
Eligible == {m \in 1..created : m \in Restorable /\ rows[m].side # rows[cur].side /\ Crosses(cur, m)}
AheadOf(m) == {n \in Eligible : EarlierInQueue(n, m)}
Rem == [o \in OrderId |-> rows[o].rem]

\* What the invariants say of the taker at the commit.
LEMMA ReadyFacts ==
  ASSUME MatchReady
  PROVE  /\ MaxOrders \in Nat /\ created \in 1..MaxOrders /\ cur = created
         /\ rows \in [OrderId -> Row]
         /\ makerFill \in [OrderId -> Nat] /\ bookRem \in [OrderId -> Nat]
         /\ takerRem \in Nat /\ fills \in Seq(Fills)
         /\ rows[cur].status = "open" /\ rows[cur].rem = rows[cur].qty
         /\ (fills = <<>> <=> takerRem = rows[cur].qty) /\ takerRem <= rows[cur].qty
         /\ makerFill[cur] = 0
         /\ takerRem + Sum(makerFill, Hit) = rows[cur].qty
<1>1. /\ MaxOrders \in Nat /\ created \in 0..MaxOrders /\ MatchRunning
      /\ rows \in [OrderId -> Row]
      /\ makerFill \in [OrderId -> Nat] /\ bookRem \in [OrderId -> Nat]
      /\ takerRem \in Nat /\ fills \in Seq(Fills)
  BY RuntimeAssumption DEF MatchReady, RuntimeInv, TypeOK, MatchRunning
<1>2. cur = created /\ cur \in OrderId
  BY <1>1 DEF MatchReady, RuntimeInv, CallInv, QueueInv, TakerIsNewest
<1>3. /\ rows[cur].status = "open" /\ makerFill[cur] = 0 /\ takerRem <= rows[cur].qty
      /\ (fills = <<>> <=> takerRem = rows[cur].qty)
  BY <1>1 DEF MatchReady, RuntimeInv, CallInv
<1>4. rows[cur].rem = rows[cur].qty
  BY <1>1, <1>2, <1>3 DEF MatchReady, RuntimeInv, RowsInv
<1>5. created \in 1..MaxOrders
  BY <1>1, <1>2 DEF OrderId
<1>6. takerRem + Sum(makerFill, Hit) = rows[cur].qty
  BY <1>1 DEF MatchReady, MatchInv
<1> QED
  BY <1>1, <1>2, <1>3, <1>4, <1>5, <1>6

\* A maker's row is what the book still holds of it and what the match took.
LEMMA EligibleFacts ==
  ASSUME MatchReady
  PROVE  /\ IsFiniteSet(Eligible) /\ Eligible \subseteq OrderId /\ Hit \subseteq Eligible
         /\ cur \notin Eligible
         /\ \A m \in Eligible : /\ bookRem[m] + makerFill[m] = rows[m].rem
                                /\ rows[m].rem \in Nat /\ rows[m].rem > 0
                                /\ rows[m].side \in Sides /\ rows[m].price \in Nat
         /\ \A m, n \in Eligible : rows[m].side = rows[n].side
         /\ takerRem > 0 => \A m \in Eligible : m \in Hit /\ bookRem[m] = 0
<1>1. /\ MaxOrders \in Nat /\ created \in 1..MaxOrders /\ cur = created
      /\ rows \in [OrderId -> Row] /\ makerFill \in [OrderId -> Nat]
      /\ bookRem \in [OrderId -> Nat] /\ makerFill[cur] = 0
  BY ReadyFacts
<1>2. Eligible \subseteq 1..created /\ 1..created \subseteq OrderId /\ OrderId \subseteq Nat
  BY <1>1 DEF Eligible, OrderId
<1>3. IsFiniteSet(Eligible)
  <2>1. IsFiniteSet(1..created)
    BY <1>1, FS_Interval
  <2> QED
    BY <1>2, <2>1, FS_Subset
<1>4. cur \notin Eligible
  BY DEF Eligible
<1>5. BookIsLive /\ MatchRunning /\ \A o \in OrderId \ {cur} : ~ InTransit(o)
  BY DEF MatchReady, BookIsLive, MatchRunning, InTransit
<1>6. \A o \in OrderId \ {cur} : /\ InPlayQty(o) > 0 => o \in Restorable
                                 /\ o \in Restorable => InPlayQty(o) = rows[o].rem
  BY <1>5 DEF MatchReady, ExactInv
<1>7. Hit \subseteq Eligible
  <2> SUFFICES ASSUME NEW m \in Hit PROVE m \in Eligible
    OBVIOUS
  <2>1. m \in OrderId /\ makerFill[m] > 0 /\ m # cur /\ InPlayQty(m) > 0
    BY <1>1 DEF Hit, InPlayQty
  <2>2. m \in Restorable
    BY <1>6, <2>1
  <2>3. m \in 1..created
    <3>1. RowsInv /\ ~ (m > created)
      BY <2>1, <2>2 DEF MatchReady, RuntimeInv, RowsInv, Restorable, Restable, NoRow
    <3> QED
      BY <1>1, <1>2, <2>1, <3>1 DEF OrderId
  <2>4. rows[m].side # rows[cur].side /\ Crosses(cur, m)
    BY <1>5 DEF MatchReady, MatchInv
  <2> QED
    BY <2>2, <2>3, <2>4 DEF Eligible
<1>8. \A o \in OrderId : rows[o].side \in Sides /\ rows[o].price \in Nat /\ rows[o].rem \in Nat
  BY <1>1 DEF Row
<1>9. \A m \in Eligible : bookRem[m] + makerFill[m] = rows[m].rem /\ rows[m].rem > 0
  <2> SUFFICES ASSUME NEW m \in Eligible
               PROVE  bookRem[m] + makerFill[m] = rows[m].rem /\ rows[m].rem > 0
    OBVIOUS
  <2>1. m \in OrderId /\ m # cur /\ m \in Restorable /\ m <= created
    BY <1>1, <1>2, <1>4 DEF Eligible
  <2>2. InPlayQty(m) = rows[m].rem
    BY <1>6, <2>1
  <2>3. rows[m].rem # 0
    <3>1. ~ (m > created)
      BY <1>1, <1>2, <2>1
    <3> QED
      BY <2>1, <3>1 DEF MatchReady, RuntimeInv, RowsInv, Restorable, Restable
  <2> QED
    BY <1>8, <2>1, <2>2, <2>3 DEF InPlayQty
<1>10. \A m, n \in Eligible : rows[m].side = rows[n].side
  <2>1. \A m \in Eligible : rows[m].side \in Sides /\ rows[m].side # rows[cur].side
    BY <1>2, <1>8 DEF Eligible
  <2>2. rows[cur].side \in Sides
    BY <1>1, <1>2, <1>8
  <2> QED
    BY <2>1, <2>2 DEF Sides
<1>11. ASSUME takerRem > 0, NEW m \in Eligible PROVE m \in Hit /\ bookRem[m] = 0
  <2>1. m \notin Opposite(cur)
    BY <1>11 DEF MatchReady, RuntimeInv, CrossInv, Eligible
  <2>2. m \in OrderId /\ bookRem[m] \in Nat /\ rows[m].side # rows[cur].side
    BY <1>1, <1>2 DEF Eligible
  <2>3. bookRem[m] = 0
    BY <2>1, <2>2 DEF Opposite, InBook
  <2>4. makerFill[m] > 0
    BY <1>1, <1>9, <2>2, <2>3
  <2> QED
    BY <2>2, <2>3, <2>4 DEF Hit
<1> QED
  BY <1>2, <1>3, <1>4, <1>7, <1>8, <1>9, <1>10, <1>11

\* Who is ahead of a maker that was hit was used up, and who is hit is ahead of a maker
\* that was not used up.
LEMMA AheadOfHits ==
  ASSUME MatchReady, NEW m \in Eligible, NEW n \in Eligible
  PROVE  /\ m \in Hit /\ EarlierInQueue(n, m) => bookRem[n] = 0 /\ n \in Hit
         /\ n \in Hit /\ bookRem[m] > 0 => n = m \/ EarlierInQueue(n, m)
         /\ ~ EarlierInQueue(m, m)
<1>1. /\ Eligible \subseteq OrderId /\ cur \notin Eligible /\ rows[m].side = rows[n].side
      /\ \A x \in Eligible : bookRem[x] + makerFill[x] = rows[x].rem /\ rows[x].rem > 0
                             /\ rows[x].price \in Nat
  BY EligibleFacts
<1>2. /\ OrderId \subseteq Nat /\ makerFill \in [OrderId -> Nat] /\ bookRem \in [OrderId -> Nat]
  BY ReadyFacts DEF OrderId
<1>3. ASSUME NEW x \in Eligible, NEW y \in Eligible, x \in Hit, rows[y].side = rows[x].side,
             EarlierInQueue(y, x)
      PROVE  bookRem[y] = 0
  <2>1. PICK i \in DOMAIN fills : fills[i].maker = x
    BY <1>3 DEF MatchReady, HitsAreFills, Hit
  <2> QED
    BY <1>1, <1>3, <2>1 DEF MatchReady, QueueInv, NobodyPassedOver
<1>4. ASSUME m \in Hit, EarlierInQueue(n, m) PROVE bookRem[n] = 0 /\ n \in Hit
  <2>1. bookRem[n] = 0
    BY <1>1, <1>3, <1>4
  <2> QED
    BY <1>1, <1>2, <2>1 DEF Hit
<1>5. ASSUME n \in Hit, bookRem[m] > 0, n # m PROVE EarlierInQueue(n, m)
  <2>1. ~ EarlierInQueue(m, n)
    BY <1>1, <1>3, <1>5
  <2>2. m \in Nat /\ n \in Nat /\ rows[m].price \in Nat /\ rows[n].price \in Nat
    BY <1>1, <1>2
  <2> QED
    BY <1>1, <1>5, <2>1, <2>2 DEF EarlierInQueue, BetterPrice
<1>6. ~ EarlierInQueue(m, m)
  <2>1. m \in Nat /\ rows[m].price \in Nat
    BY <1>1, <1>2
  <2> QED
    BY <2>1 DEF EarlierInQueue, BetterPrice
<1> QED
  BY <1>4, <1>5, <1>6

\* What the exchange owes a maker is what the match took of it.
LEMMA MatchIsOwed ==
  ASSUME MatchReady, NEW m \in Eligible
  PROVE  LET ahead == Sum(Rem, AheadOf(m))
         IN  /\ ahead \in Nat
             /\ makerFill[m] = IF ahead >= rows[cur].rem THEN 0
                               ELSE IF rows[m].rem <= rows[cur].rem - ahead THEN rows[m].rem
                               ELSE rows[cur].rem - ahead
<1> DEFINE ahead == Sum(Rem, AheadOf(m))
           Q == rows[cur].rem
           taken == Sum(makerFill, Hit)
<1>1. /\ IsFiniteSet(Eligible) /\ Eligible \subseteq OrderId /\ Hit \subseteq Eligible
      /\ \A x \in Eligible : bookRem[x] + makerFill[x] = rows[x].rem /\ rows[x].rem \in Nat
                             /\ rows[x].rem > 0
      /\ takerRem > 0 => m \in Hit /\ bookRem[m] = 0
  BY EligibleFacts
<1>2. /\ makerFill \in [OrderId -> Nat] /\ bookRem \in [OrderId -> Nat] /\ takerRem \in Nat
      /\ takerRem + taken = Q /\ Q = rows[cur].qty
  BY ReadyFacts
<1>3. \A x \in Eligible : /\ makerFill[x] \in Nat /\ bookRem[x] \in Nat /\ Rem[x] = rows[x].rem
                          /\ Rem[x] \in Nat /\ makerFill[x] <= Rem[x]
  <2> SUFFICES ASSUME NEW x \in Eligible
               PROVE  /\ makerFill[x] \in Nat /\ bookRem[x] \in Nat /\ Rem[x] = rows[x].rem
                      /\ Rem[x] \in Nat /\ makerFill[x] <= Rem[x]
    OBVIOUS
  <2>1. x \in OrderId /\ makerFill[x] \in Nat /\ bookRem[x] \in Nat /\ Rem[x] = rows[x].rem
    BY <1>1, <1>2 DEF Rem
  <2> QED
    BY <1>1, <2>1
<1>4. AheadOf(m) \subseteq Eligible /\ m \notin AheadOf(m)
  BY AheadOfHits DEF AheadOf
<1>5. IsFiniteSet(Hit) /\ IsFiniteSet(AheadOf(m))
  BY <1>1, <1>4, FS_Subset
<1>6. ahead \in Nat /\ taken \in Nat
  <2>1. \A x \in AheadOf(m) : Rem[x] \in Nat
    BY <1>3, <1>4
  <2>2. \A x \in Hit : makerFill[x] \in Nat
    BY <1>1, <1>3
  <2> QED
    BY <1>5, <2>1, <2>2, SumType
<1>7. ASSUME m \in Hit
      PROVE  /\ makerFill[m] > 0 /\ ahead + makerFill[m] <= taken
             /\ bookRem[m] > 0 => ahead + makerFill[m] = taken
  <2>1. \A x \in AheadOf(m) : bookRem[x] = 0 /\ x \in Hit /\ x \in Eligible
    BY <1>7, AheadOfHits DEF AheadOf
  <2>2. \A x \in AheadOf(m) : makerFill[x] = Rem[x] /\ Rem[x] \in Nat
    BY <1>1, <1>3, <2>1
  <2>3. ahead = Sum(makerFill, AheadOf(m))
    <3>1. \A x \in AheadOf(m) : Rem[x] \in Nat
      BY <2>2
    <3>2. \A x \in AheadOf(m) : makerFill[x] = Rem[x]
      BY <2>2
    <3> QED
      BY <1>5, <3>1, <3>2, SumSame
  <2>4. Sum(makerFill, AheadOf(m) \cup {m}) = makerFill[m] + Sum(makerFill, AheadOf(m))
    <3>1. \A x \in AheadOf(m) : makerFill[x] \in Nat
      BY <2>2
    <3>2. makerFill[m] \in Nat
      BY <1>3
    <3> QED
      BY <1>4, <1>5, <3>1, <3>2, SumWith
  <2>5. AheadOf(m) \cup {m} \in SUBSET Hit
    BY <1>7, <2>1
  <2>6. \A x \in Hit : makerFill[x] \in Nat
    BY <1>1, <1>3
  <2>7. Sum(makerFill, AheadOf(m) \cup {m}) <= taken
    BY <1>5, <2>5, <2>6, SumOfPart
  <2>8. ahead + makerFill[m] = Sum(makerFill, AheadOf(m) \cup {m})
    BY <1>3, <1>6, <2>3, <2>4
  <2>9. bookRem[m] > 0 => AheadOf(m) \cup {m} = Hit
    BY <1>1, <1>7, <2>5, AheadOfHits DEF AheadOf
  <2>10. makerFill[m] > 0
    BY <1>7 DEF Hit
  <2> HIDE DEF ahead, taken
  <2>11. bookRem[m] > 0 => ahead + makerFill[m] = taken
    BY <2>8, <2>9 DEF taken
  <2> QED
    BY <2>7, <2>8, <2>10, <2>11
<1>8. ASSUME m \notin Hit
      PROVE  takerRem = 0 /\ makerFill[m] = 0 /\ ahead >= taken
  <2>1. makerFill[m] = 0 /\ bookRem[m] > 0
    BY <1>1, <1>3, <1>8 DEF Hit
  <2>2. Hit \in SUBSET AheadOf(m)
    BY <1>1, <1>8, <2>1, AheadOfHits DEF AheadOf
  <2>3. \A x \in AheadOf(m) : Rem[x] \in Nat
    BY <1>3, <1>4
  <2>4. Sum(Rem, Hit) <= ahead
    BY <1>5, <2>2, <2>3, SumOfPart
  <2>5. \A x \in Hit : makerFill[x] \in Nat /\ Rem[x] \in Nat
    BY <1>1, <1>3
  <2>6. \A x \in Hit : makerFill[x] <= Rem[x]
    BY <1>1, <1>3
  <2>7. taken <= Sum(Rem, Hit)
    BY <1>5, <2>5, <2>6, SumLess
  <2>8. Sum(Rem, Hit) \in Nat
    BY <1>5, <2>5, SumType
  <2>9. ahead >= taken
    BY <1>6, <2>4, <2>7, <2>8
  <2>10. takerRem = 0
    BY <1>1, <1>2, <1>8
  <2> QED
    BY <2>1, <2>9, <2>10
<1>9. bookRem[m] > 0 => takerRem = 0
  BY <1>1, <1>2, <1>3
<1>10. /\ bookRem[m] + makerFill[m] = rows[m].rem /\ bookRem[m] \in Nat /\ makerFill[m] \in Nat
       /\ takerRem \in Nat /\ takerRem + taken = Q
  BY <1>1, <1>2, <1>3
<1> HIDE DEF ahead, taken, Q
<1>11. makerFill[m] = IF ahead >= Q THEN 0
                      ELSE IF rows[m].rem <= Q - ahead THEN rows[m].rem ELSE Q - ahead
  BY <1>6, <1>7, <1>8, <1>9, <1>10
<1> QED
  BY <1>6, <1>11 DEF ahead, Q

\* The orders of the exchange, as the table has them.
Listed == [o \in 1..created |-> rows[o]]

\* The list of the rows is as long as there are rows.
LEMMA ListedFacts ==
  ASSUME created \in Nat
  PROVE  Len(Listed) = created /\ DOMAIN Listed = 1..created
         /\ \A o \in 1..created : Listed[o] = rows[o]
BY DEF Listed

\* The exchange's notions are the runtime's, for the order that is being matched.
LEMMA SameMakers ==
  ASSUME MatchReady
  PROVE  /\ Abstract!Makers(created) = Eligible
         /\ \A m \in Eligible : {n \in Eligible : Abstract!Before(n, m)} = AheadOf(m)
<1>1. created \in Nat /\ created \in 1..created /\ cur = created
  BY ReadyFacts
<1>2. \A o \in 1..created : Listed[o] = rows[o] /\ o \in OrderId
  BY <1>1, ListedFacts, ReadyFacts DEF OrderId
<1>3. DOMAIN Listed = 1..created
  BY DEF Listed
<1> HIDE DEF Listed
<1>4. \A o \in 1..created : Abstract!Live(o) <=> o \in Restorable
  BY <1>2 DEF Abstract!Live, Restorable, Restable, Listed
<1>5. \A m \in 1..created : Abstract!Crosses(created, m) <=> Crosses(cur, m)
  BY <1>1, <1>2 DEF Abstract!Crosses, Crosses, Listed
<1>6. Abstract!Makers(created) = {m \in 1..created : /\ Abstract!Live(m)
                                                     /\ rows[m].side # rows[created].side
                                                     /\ Abstract!Crosses(created, m)}
  BY <1>1, <1>2, <1>3 DEF Abstract!Makers, Listed
<1>7. Abstract!Makers(created) = Eligible
  BY <1>1, <1>4, <1>5, <1>6 DEF Eligible
<1>8. ASSUME NEW m \in Eligible, NEW n \in Eligible
      PROVE  Abstract!Before(n, m) <=> EarlierInQueue(n, m)
  <2>1. m \in 1..created /\ n \in 1..created
    BY DEF Eligible
  <2>2. rows[n].side \in Sides /\ rows[n].price \in Nat /\ rows[m].price \in Nat
    BY EligibleFacts
  <2> QED
    BY <1>2, <2>1, <2>2 DEF Abstract!Before, EarlierInQueue, BetterPrice, Sides, Listed
<1> QED
  BY <1>7, <1>8 DEF AheadOf

\* What is ahead of a maker is the same sum.
LEMMA SameAhead ==
  ASSUME MatchReady, NEW m \in Eligible
  PROVE  Abstract!AheadOf(created, m) = Sum(Rem, AheadOf(m))
<1> DEFINE S == AheadOf(m)
           g == CHOOSE h : h = [s \in SUBSET S |->
                  IF s = {} THEN 0
                  ELSE Listed[CHOOSE n \in s : TRUE].rem + h[s \ {CHOOSE n \in s : TRUE}]]
<1>1. S = {n \in Abstract!Makers(created) : Abstract!Before(n, m)}
  BY SameMakers
<1>2. Abstract!AheadOf(created, m) = g[S]
  BY <1>1 DEF Abstract!AheadOf, Abstract!MapThenSumSet, Abstract!MapThenFoldSet, Listed
<1>3. IsFiniteSet(S) /\ \A n \in S : Rem[n] \in Nat /\ Rem[n] = Listed[n].rem
  <2>1. S \subseteq Eligible /\ Eligible \subseteq 1..created
    BY DEF AheadOf, Eligible
  <2>2. IsFiniteSet(Eligible) /\ Eligible \subseteq OrderId
        /\ \A n \in Eligible : rows[n].rem \in Nat
    BY EligibleFacts
  <2>3. \A n \in S : Listed[n] = rows[n]
    BY <2>1 DEF Listed
  <2>4. IsFiniteSet(S)
    BY <2>1, <2>2, FS_Subset
  <2> HIDE DEF S
  <2> QED
    BY <2>1, <2>2, <2>3, <2>4 DEF Rem
<1> HIDE DEF S
<1>4. PICK h : SumsOver(Rem, h, S)
  BY <1>3, SumsExist
<1>5. \A s \in SUBSET S : s # {} => Rem[CHOOSE n \in s : TRUE] = Listed[CHOOSE n \in s : TRUE].rem
  BY <1>3, OneOf
<1>6. h = [s \in SUBSET S |->
                  IF s = {} THEN 0
                  ELSE Listed[CHOOSE n \in s : TRUE].rem + h[s \ {CHOOSE n \in s : TRUE}]]
  BY <1>4, <1>5 DEF SumsOver, Turn
<1>7. g = [s \in SUBSET S |->
                  IF s = {} THEN 0
                  ELSE Listed[CHOOSE n \in s : TRUE].rem + g[s \ {CHOOSE n \in s : TRUE}]]
  BY <1>6
<1> HIDE DEF g
<1>8. \A s \in SUBSET S : g[s] = Turn(Rem, g, s)
  BY <1>5, <1>7 DEF Turn
<1> QED
  BY <1>2, <1>3, <1>8, SumOf DEF S

\* The fills of the exchange are the fills of the match.
LEMMA SameFills ==
  ASSUME MatchReady
  PROVE  /\ \A m \in Eligible : Abstract!Fill(created, m) = makerFill[m]
         /\ {m \in Abstract!Makers(created) : Abstract!Fill(created, m) > 0} = Hit
<1>1. Abstract!Makers(created) = Eligible /\ Hit \subseteq Eligible /\ Eligible \subseteq OrderId
  BY SameMakers, EligibleFacts
<1>2. cur = created /\ created \in 1..created
  BY ReadyFacts
<1>3. ASSUME NEW m \in Eligible PROVE Abstract!Fill(created, m) = makerFill[m]
  <2>1. Listed[created] = rows[cur] /\ Listed[m] = rows[m]
    BY <1>2 DEF Listed, Eligible
  <2>2. Abstract!AheadOf(created, m) = Sum(Rem, AheadOf(m))
    BY SameAhead
  <2>3. makerFill[m] = IF Sum(Rem, AheadOf(m)) >= rows[cur].rem THEN 0
                       ELSE IF rows[m].rem <= rows[cur].rem - Sum(Rem, AheadOf(m)) THEN rows[m].rem
                       ELSE rows[cur].rem - Sum(Rem, AheadOf(m))
    BY MatchIsOwed
  <2> QED
    BY <2>1, <2>2, <2>3 DEF Abstract!Fill, Listed
<1> QED
  BY <1>1, <1>3 DEF Hit

\* What the exchange's match takes of order i.
Owed(i) ==
  LET o      == Len(Listed)
      makers == {m \in Abstract!Makers(o) : Abstract!Fill(o, m) > 0}
  IN  IF i = o THEN Abstract!MapThenSumSet(LAMBDA m : Abstract!Fill(o, m), makers)
      ELSE IF i \in makers THEN Abstract!Fill(o, i)
      ELSE 0

\* It is what the match took: of the makers each fill, of the taker their sum.
LEMMA SameTaken ==
  ASSUME MatchReady
  PROVE  /\ Owed(cur) = rows[cur].rem - takerRem
         /\ \A i \in (1..created) \ {cur} : Owed(i) = makerFill[i]
<1> DEFINE len == Len(Listed)
           g == CHOOSE h : h = [s \in SUBSET Hit |->
                  IF s = {} THEN 0
                  ELSE Abstract!Fill(len, CHOOSE m \in s : TRUE) + h[s \ {CHOOSE m \in s : TRUE}]]
<1>1. /\ created \in Nat /\ cur = created /\ makerFill \in [OrderId -> Nat] /\ takerRem \in Nat
      /\ takerRem + Sum(makerFill, Hit) = rows[cur].rem /\ 1..created \subseteq OrderId
  BY ReadyFacts DEF OrderId
<1>2. len = created
  BY <1>1, ListedFacts
<1>3. {m \in Abstract!Makers(len) : Abstract!Fill(len, m) > 0} = Hit
  BY <1>2, SameFills
<1>4. IsFiniteSet(Hit) /\ \A m \in Hit : makerFill[m] \in Nat
                                         /\ makerFill[m] = Abstract!Fill(len, m)
  <2>1. IsFiniteSet(Eligible) /\ Hit \subseteq Eligible /\ Eligible \subseteq OrderId
    BY EligibleFacts
  <2>2. \A m \in Eligible : Abstract!Fill(len, m) = makerFill[m]
    BY <1>2, SameFills
  <2> QED
    BY <1>1, <2>1, <2>2, FS_Subset
<1>5. Owed(cur) = g[Hit]
  <2>1. Owed(cur) = Abstract!MapThenSumSet(LAMBDA m : Abstract!Fill(len, m),
                      {m \in Abstract!Makers(len) : Abstract!Fill(len, m) > 0})
    BY <1>1, <1>2 DEF Owed
  <2> QED
    BY <1>3, <2>1 DEF Abstract!MapThenSumSet, Abstract!MapThenFoldSet
<1>6. \A i \in (1..created) \ {cur} : Owed(i) = makerFill[i]
  <2>1. \A i : i # len => Owed(i) = IF i \in {m \in Abstract!Makers(len) : Abstract!Fill(len, m) > 0}
                                    THEN Abstract!Fill(len, i) ELSE 0
    BY DEF Owed
  <2>2. \A i : i # len => Owed(i) = IF i \in Hit THEN Abstract!Fill(len, i) ELSE 0
    BY <1>3, <2>1
  <2>3. \A i \in OrderId : i \notin Hit => makerFill[i] = 0
    BY <1>1 DEF Hit
  <2> HIDE DEF len
  <2> QED
    BY <1>1, <1>2, <1>4, <2>2, <2>3
<1> HIDE DEF len
<1>7. PICK h : SumsOver(makerFill, h, Hit)
  BY <1>4, SumsExist
<1>8. \A s \in SUBSET Hit : s # {} => makerFill[CHOOSE m \in s : TRUE]
                                      = Abstract!Fill(len, CHOOSE m \in s : TRUE)
  BY <1>4, OneOf
<1>9. h = [s \in SUBSET Hit |->
                  IF s = {} THEN 0
                  ELSE Abstract!Fill(len, CHOOSE m \in s : TRUE) + h[s \ {CHOOSE m \in s : TRUE}]]
  BY <1>7, <1>8 DEF SumsOver, Turn
<1>10. g = [s \in SUBSET Hit |->
                  IF s = {} THEN 0
                  ELSE Abstract!Fill(len, CHOOSE m \in s : TRUE) + g[s \ {CHOOSE m \in s : TRUE}]]
  BY <1>9
<1> HIDE DEF g
<1>11. \A s \in SUBSET Hit : g[s] = Turn(makerFill, g, s)
  BY <1>8, <1>10 DEF Turn
<1>12. g[Hit] = Sum(makerFill, Hit) /\ Sum(makerFill, Hit) \in Nat
  BY <1>4, <1>11, SumOf, SumType
<1> QED
  BY <1>1, <1>5, <1>6, <1>12

\* A committed match is the match of the exchange.
LEMMA CommitIsMatch ==
  ASSUME MatchReady, RuntimeInv', PersistMatchResult
  PROVE  Abstract!Match
<1>1. /\ created \in Nat /\ created \in 1..created /\ cur = created /\ rows \in [OrderId -> Row]
      /\ takerRem \in Nat /\ makerFill \in [OrderId -> Nat]
      /\ rows[cur].status = "open" /\ rows[cur].rem = rows[cur].qty
      /\ (fills = <<>> <=> takerRem = rows[cur].qty) /\ takerRem <= rows[cur].qty
      /\ takerRem + Sum(makerFill, Hit) = rows[cur].qty
      /\ fills \in Seq(Fills) /\ 1..created \subseteq OrderId /\ makerFill[cur] = 0
  BY ReadyFacts DEF OrderId
<1>2. created' = created /\ rows' = MatchedRows
      /\ trades' = trades \cup {TradeOf(fills[i]) : i \in DOMAIN fills}
  BY DEF PersistMatchResult, NewTrades
<1>3. Len(Listed) = created /\ DOMAIN Listed = 1..created
      /\ \A o \in 1..created : Listed[o] = rows[o]
  BY <1>1, ListedFacts
<1>4. /\ Hit \subseteq Eligible /\ Eligible \subseteq 1..created /\ cur \notin Hit
      /\ \A m \in Eligible : Abstract!Fill(created, m) = makerFill[m]
      /\ {m \in Abstract!Makers(created) : Abstract!Fill(created, m) > 0} = Hit
  BY EligibleFacts, SameFills DEF Eligible
<1>5. Owed(cur) = rows[cur].rem - takerRem
  BY SameTaken
<1>6. \A i \in (1..created) \ {cur} : Owed(i) = makerFill[i]
  BY SameTaken
<1>7. ASSUME NEW i \in 1..created
      PROVE  MatchedRows[i] = Abstract!Filled(rows[i], Owed(i))
  <2>1. rows[i] \in Row /\ i \in OrderId /\ makerFill[i] \in Nat
    BY <1>1
  <2>2. CASE i = cur
    <3>1. MatchedRows[i] = [rows[cur] EXCEPT !.rem = takerRem, !.status = TakerStatus]
      BY <2>1, <2>2 DEF MatchedRows
    <3>2. CASE takerRem = rows[cur].qty
      <4>1. TakerStatus = "open" /\ Owed(i) = 0
        BY <1>1, <1>5, <2>1, <2>2, <3>2 DEF TakerStatus, Row
      <4>2. takerRem = rows[cur].rem /\ rows[cur].status = "open" /\ rows[cur] \in Row
        BY <1>1, <2>1, <2>2, <3>2
      <4>3. [rows[cur] EXCEPT !.rem = takerRem, !.status = "open"] = rows[cur]
        BY <4>2 DEF Row
      <4>4. Abstract!Filled(rows[i], Owed(i)) = rows[i]
        BY <4>1 DEF Abstract!Filled
      <4> QED
        BY <2>2, <3>1, <4>1, <4>3, <4>4
    <3>3. CASE takerRem # rows[cur].qty
      <4>1. rows[cur].rem \in Nat /\ rows[cur].qty \in Nat
        BY <2>1, <2>2 DEF Row
      <4>2. Owed(i) # 0 /\ rows[i].rem - Owed(i) = takerRem
            /\ (rows[i].rem = Owed(i) <=> takerRem = 0)
        BY <1>1, <1>5, <2>2, <3>3, <4>1
      <4>3. TakerStatus = IF takerRem = 0 THEN "filled" ELSE "partially_filled"
        BY <1>1, <3>3 DEF TakerStatus, StatusAfterFill
      <4> QED
        BY <2>1, <2>2, <3>1, <4>2, <4>3 DEF Abstract!Filled, Row
    <3> QED
      BY <3>2, <3>3
  <2>3. CASE i # cur
    <3>1. Owed(i) = makerFill[i]
      BY <1>6, <2>3
    <3>2. CASE makerFill[i] = 0
      BY <2>1, <2>3, <3>1, <3>2 DEF MatchedRows, Abstract!Filled
    <3>3. CASE makerFill[i] > 0
      <4>1. rows[i].rem \in Nat
        BY <2>1 DEF Row
      <4>2. makerFill[i] <= rows[i].rem
        BY <2>1 DEF MatchReady, DeltasFit
      <4>3. rows[i].rem - makerFill[i] = 0 <=> rows[i].rem = makerFill[i]
        BY <2>1, <4>1
      <4>4. MatchedRows[i] = [rows[i] EXCEPT !.rem = rows[i].rem - makerFill[i],
                                !.status = StatusAfterFill(rows[i].rem - makerFill[i])]
        BY <2>1, <2>3, <3>3 DEF MatchedRows
      <4>5. Abstract!Filled(rows[i], makerFill[i])
            = [rows[i] EXCEPT !.rem = rows[i].rem - makerFill[i],
                              !.status = IF rows[i].rem = makerFill[i] THEN "filled"
                                         ELSE "partially_filled"]
        BY <2>1, <3>3 DEF Abstract!Filled, Row
      <4>6. StatusAfterFill(rows[i].rem - makerFill[i])
            = IF rows[i].rem = makerFill[i] THEN "filled" ELSE "partially_filled"
        BY <4>3 DEF StatusAfterFill
      <4> QED
        BY <3>1, <4>4, <4>5, <4>6
    <3> QED
      BY <2>1, <3>2, <3>3
  <2> QED
    BY <2>2, <2>3
<1>8. Listed' = [i \in DOMAIN Listed |-> Abstract!Filled(Listed[i], Owed(i))]
  <2>1. Listed' = [o \in 1..created |-> MatchedRows[o]]
    BY <1>2 DEF Listed
  <2> QED
    BY <1>3, <1>7, <2>1
<1>9. {TradeOf(fills[i]) : i \in DOMAIN fills}
       = {[taker |-> created, maker |-> m, price |-> Listed[m].price,
           qty |-> Abstract!Fill(created, m)] : m \in Hit}
  <2> DEFINE new(m) == [taker |-> created, maker |-> m, price |-> Listed[m].price,
                        qty |-> Abstract!Fill(created, m)]
  <2>1. ASSUME NEW i \in DOMAIN fills
        PROVE  fills[i].maker \in Hit /\ TradeOf(fills[i]) = new(fills[i].maker)
    <3>1. /\ fills[i].qty = makerFill[fills[i].maker]
          /\ fills[i].price = rows[fills[i].maker].price
          /\ makerFill[fills[i].maker] > 0
      BY DEF MatchReady, FillInv, MatchRunning, RuntimeInv, CallInv
    <3>2. fills[i].maker \in OrderId
      BY MakersAreOrders DEF MatchReady, RuntimeInv
    <3>3. fills[i].maker \in Hit
      BY <3>1, <3>2 DEF Hit
    <3>4. fills[i].maker \in Eligible /\ fills[i].maker \in 1..created
      BY <1>4, <3>3
    <3> QED
      BY <1>1, <1>3, <1>4, <3>1, <3>3, <3>4 DEF TradeOf
  <2>2. \A m \in Hit : \E i \in DOMAIN fills : fills[i].maker = m
    BY DEF MatchReady, HitsAreFills, Hit
  <2> HIDE DEF new
  <2>3. {TradeOf(fills[i]) : i \in DOMAIN fills} = {new(m) : m \in Hit}
    BY <2>1, <2>2
  <2> QED
    BY <2>3 DEF new
<1>10. Listed # <<>> /\ Listed[created].status = "open"
  BY <1>1, <1>3
<1>11. [o \in 1..created' |-> rows'[o]] = Listed'
  BY DEF Listed
<1>12. trades' = trades \cup {[taker |-> Len(Listed), maker |-> m, price |-> Listed[m].price,
                               qty |-> Abstract!Fill(Len(Listed), m)] :
                  m \in {n \in Abstract!Makers(Len(Listed)) : Abstract!Fill(Len(Listed), n) > 0}}
  <2>1. Len(Listed) = created
    BY <1>3
  <2> QED
    BY <1>2, <1>4, <1>9, <2>1
<1>13. Listed # <<>> /\ Listed[Len(Listed)].status = "open"
  BY <1>3, <1>10
<1> QED
  BY <1>8, <1>12, <1>13 DEF Abstract!Match, Listed, Owed

\* An insert is the arrival of an order.
LEMMA SubmitIsPlace ==
  ASSUME TypeOK, InsertsAreAnswered,
         NEW s \in Sides, NEW p \in Prices, NEW q \in Quantities, SubmitOrder(s, p, q)
  PROVE  Abstract!Place(s, p, q)
<1> DEFINE new == [side |-> s, price |-> p, qty |-> q, rem |-> q, status |-> "open"]
<1>1. /\ rows' = [rows EXCEPT ![created + 1] = new] /\ created' = created + 1
      /\ trades' = trades /\ created \in Nat /\ created < MaxOrders
  BY DEF SubmitOrder, Insert, Fault, InsertsAreAnswered, TypeOK
<1>2. created + 1 \in OrderId /\ rows \in [OrderId -> Row] /\ 1..created \subseteq OrderId
  <2>1. MaxOrders \in Nat /\ rows \in [OrderId -> Row]
    BY RuntimeAssumption DEF TypeOK
  <2> QED
    BY <1>1, <2>1 DEF OrderId
<1> HIDE DEF new
<1>3. rows'[created + 1] = new /\ \A o \in 1..created : rows'[o] = rows[o]
  BY <1>1, <1>2
<1>4. Len(Listed) = created /\ \A o \in 1..created : Listed[o] = rows[o]
  BY <1>1, ListedFacts
<1>5. [o \in 1..(created + 1) |-> rows'[o]] = Append(Listed, new)
  <2> PICK l : l = Listed
    OBVIOUS
  <2>1. l \in Seq(Row) /\ Len(l) = created /\ \A o \in 1..created : l[o] = rows[o]
    BY <1>1, <1>2, <1>4 DEF Listed
  <2>2. new \in Row
    <3>1. p \in Nat /\ q \in Nat
      BY RuntimeAssumption
    <3> QED
      BY <3>1 DEF new, Row, Statuses
  <2>3. /\ DOMAIN Append(l, new) = 1..(created + 1)
        /\ \A o \in 1..created : Append(l, new)[o] = rows[o]
        /\ Append(l, new)[created + 1] = new
        /\ Append(l, new) \in Seq(Row)
    BY <1>1, <2>1, <2>2
  <2>4. \A o \in 1..(created + 1) : rows'[o] = Append(l, new)[o]
    BY <1>1, <1>3, <2>3
  <2>5. [o \in 1..(created + 1) |-> rows'[o]] \in Seq(Row)
        /\ Len([o \in 1..(created + 1) |-> rows'[o]]) = created + 1
    BY <1>1, <1>2, <1>3, <2>2
  <2>6. Len(Append(l, new)) = created + 1
    BY <2>1
  <2> PICK a : a = Append(l, new)
    OBVIOUS
  <2> PICK b : b = [o \in 1..(created + 1) |-> rows'[o]]
    OBVIOUS
  <2>7. /\ a \in Seq(Row) /\ b \in Seq(Row) /\ Len(a) = Len(b)
        /\ \A i \in 1..Len(a) : a[i] = b[i]
    BY <2>3, <2>4, <2>5, <2>6
  <2>8. a = b
    BY <2>7, SeqEqual
  <2> QED
    BY <2>8
<1>6. [o \in 1..created' |-> rows'[o]] = Append(Listed, new)
  BY <1>1, <1>5
<1> QED
  BY <1>1, <1>6 DEF Abstract!Place, Listed, new

\* A guarded UPDATE is the exchange's cancel.
LEMMA CancelIsCancel ==
  ASSUME TypeOK, RowsInv, NEW c \in OrderId, c = cur, CancelOrder
  PROVE  c \in DOMAIN Listed /\ Abstract!Cancel(c)
<1>1. /\ rows[c].status \in Restable /\ rows' = [rows EXCEPT ![c].status = "cancelled"]
      /\ created' = created /\ trades' = trades /\ created \in Nat
  BY DEF CancelOrder, TypeOK
<1>2. c \in 1..created /\ 1..created \subseteq OrderId /\ rows \in [OrderId -> Row]
  <2>1. MaxOrders \in Nat /\ rows \in [OrderId -> Row] /\ created \in 0..MaxOrders
    BY RuntimeAssumption DEF TypeOK
  <2>2. ~ (c > created)
    BY <1>1 DEF RowsInv, Restable, NoRow
  <2> QED
    BY <1>1, <2>1, <2>2 DEF OrderId
<1>3. DOMAIN Listed = 1..created /\ \A o \in 1..created : Listed[o] = rows[o]
  BY DEF Listed
<1>4. Abstract!Live(c)
  BY <1>1, <1>2, <1>3 DEF Abstract!Live, Listed, Restable
<1>5. [o \in 1..created' |-> rows'[o]] = [Listed EXCEPT ![c].status = "cancelled"]
  BY <1>1, <1>2, <1>3 DEF Listed
<1> QED
  BY <1>1, <1>2, <1>3, <1>4, <1>5 DEF Abstract!Cancel, Listed

\* What the invariants say together, of every reachable state.
Known ==
  RuntimeInv /\ QueueInv /\ AnsweredInv /\ ExactInv /\ StreamInv /\ FillInv /\ MatchInv

\* Every step is a step of the exchange, or one it does not see.
LEMMA StepIsExchangeStep ==
  ASSUME Known, RuntimeInv', InsertsAreAnswered, CancelsAreAnswered, CommitsAreTimely,
         [Next]_vars
  PROVE  [Abstract!Next]_(Abstract!vars)
<1>1. ASSUME NEW s \in Sides, NEW p \in Prices, NEW q \in Quantities, SubmitOrder(s, p, q)
      PROVE  Abstract!Next
  <2>1. Abstract!Place(s, p, q)
    BY <1>1, SubmitIsPlace DEF Known, RuntimeInv
  <2> QED
    BY <2>1 DEF Abstract!Next, Sides
<1>2. ASSUME CancelOrder
      PROVE  Abstract!Next
  <2>1. cur \in OrderId
    BY <1>2 DEF CancelOrder, Known, RuntimeInv, CallInv, Orders
  <2>2. PICK c \in OrderId : c = cur
    BY <2>1
  <2>3. TypeOK /\ RowsInv
    BY DEF Known, RuntimeInv
  <2>4. c \in DOMAIN Listed /\ Abstract!Cancel(c)
    BY <1>2, <2>2, <2>3, CancelIsCancel
  <2> QED
    BY <2>4 DEF Abstract!Next, Listed
<1>3. ASSUME PersistMatchResult
      PROVE  Abstract!Next
  <2>1. MatchReady
    BY <1>3, HitsAreAmongFills DEF PersistMatchResult, MatchIsWritten, MatchReady, Known
  <2>2. Abstract!Match
    BY <1>3, <2>1, CommitIsMatch
  <2> QED
    BY <2>2 DEF Abstract!Next
<1>4. CASE \/ UNCHANGED vars \/ PublishEvent \/ MatchStep \/ MatchDone \/ PersistFails
           \/ AnswerSubmit \/ CancelInBook \/ AnswerCancel \/ RecoverBook \/ FailClosed
           \/ Crash \/ Restart \/ PersistLater \/ CancelFails
           \/ \E c \in OrderId : ReadForCancel(c)
  <2>1. rows' = rows /\ created' = created /\ trades' = trades
    BY <1>4 DEF vars, storeVars, PublishEvent, MatchStep, MatchDone, PersistFails,
       AnswerSubmit, CancelInBook, AnswerCancel, RecoverBook, FailClosed, Crash, Restart,
       PersistLater, CancelFails, ReadForCancel
  <2> QED
    BY <2>1 DEF Abstract!vars
<1>5. ~ Landings
  <2>1. late = {} /\ lateCancels = {} /\ \A o \in OrderId : rows[o].status # "inFlight"
    BY DEF Known, RuntimeInv, LateInv, AnsweredInv, CommitsAreTimely
  <2> QED
    BY <2>1 DEF Landings, InsertLands
<1> QED
  BY <1>1, <1>2, <1>3, <1>4, <1>5 DEF Next, Requests, Work

\* The runtime implements the exchange, through every rollback, recovery and crash, as
\* long as no insert or cancel that took effect is answered as a failure, and a commit
\* that is answered as one is over by then: otherwise an order could be live in the
\* table and not in the book, or the other way round, or be matched later than it
\* arrived, and the exchange knows no such order (the run cancel_resurrected shows one).
THEOREM RuntimeImplementsExchange ==
  ASSUME InsertsAreAnswered, CancelsAreAnswered, CommitsAreTimely
  PROVE  Spec => ImplementsExchange
<1>1. Init => Abstract!Init
  <2> SUFFICES ASSUME Init PROVE Abstract!Init
    OBVIOUS
  <2>1. created = 0 /\ trades = {} /\ [o \in 1..created |-> rows[o]] = <<>>
    BY DEF Init
  <2> QED
    BY <2>1 DEF Abstract!Init
<1>2. InsertsAreAnswered /\ CancelsAreAnswered /\ CommitsAreTimely
  OBVIOUS
<1>3. Known /\ RuntimeInv' /\ [Next]_vars => [Abstract!Next]_(Abstract!vars)
  BY <1>2, StepIsExchangeStep
<1>4. Spec => []Known
  BY RuntimeInvariant, QueueInvariant, AnsweredInvariant, ExactInvariant, StreamInvariant,
     FillInvariant, MatchInvariant, PTL DEF Known
<1>5. Known => RuntimeInv
  BY DEF Known
<1> QED
  BY <1>1, <1>3, <1>4, <1>5, PTL DEF Spec, ImplementsExchange, Abstract!Spec

----------------------------------------------------------------------------
(* The runtime uses its book as PriceTimeBook allows *)

KnownTerms == [o \in OrderId |-> TermsInBook(o)]

\* The row's side and price are those the book knows an order by.
LEMMA TermsAreTheRows ==
  ASSUME NEW o \in OrderId, InBook(o) \/ (pc = "matching" /\ o = cur)
  PROVE  KnownTerms[o].side = rows[o].side /\ KnownTerms[o].price = rows[o].price
<1>1. PICK s, p : s = rows[o].side /\ p = rows[o].price
  OBVIOUS
<1>2. KnownTerms[o] = [side |-> s, price |-> p]
  BY <1>1 DEF KnownTerms, TermsInBook
<1>3. PICK r : r = KnownTerms[o]
  OBVIOUS
<1>4. r = [side |-> s, price |-> p]
  BY <1>2, <1>3
<1> QED
  BY <1>1, <1>3, <1>4

\* Whoever knows the same orders as before, at the same terms, has the same book.
LEMMA SameBook ==
  ASSUME \A o \in OrderId : InBook(o)' <=> InBook(o),
         pc' = "matching" <=> pc = "matching", pc = "matching" => UNCHANGED <<cur, takerRem>>,
         \A o \in OrderId : InBook(o) \/ o = cur =>
           rows'[o].side = rows[o].side /\ rows'[o].price = rows[o].price,
         UNCHANGED bookVars
  PROVE  UNCHANGED PT!ptVars
<1>1. \A o \in OrderId : TermsInBook(o)' = TermsInBook(o)
  BY DEF TermsInBook
<1> QED
  BY <1>1 DEF PT!ptVars, bookVars

\* A row is inserted, and its order is matched, or nobody knows of it.
LEMMA SubmitUsesBook ==
  ASSUME RuntimeInv, NEW s \in Sides, NEW p \in Prices, NEW q \in Quantities, SubmitOrder(s, p, q)
  PROVE  PT!Next \/ UNCHANGED PT!ptVars
<1>1. PICK n : n = created + 1
  OBVIOUS
<1>2. /\ pc = "idle" /\ n \in OrderId /\ n # 0 /\ UNCHANGED bookVars
      /\ rows \in [OrderId -> Row] /\ bookRem \in [OrderId -> Nat]
      /\ \A o \in OrderId \ {n} : rows'[o] = rows[o]
      /\ rows'[n].side = s /\ rows'[n].price = p
  <2>1. /\ created \in 0..MaxOrders /\ rows \in [OrderId -> Row] /\ bookRem \in [OrderId -> Nat]
    BY DEF RuntimeInv, TypeOK
  <2>2. pc = "idle" /\ created < MaxOrders /\ UNCHANGED bookVars
    BY DEF SubmitOrder
  <2>3. n \in OrderId /\ n # 0
    BY <1>1, <2>1, <2>2, RuntimeAssumption DEF OrderId
  <2>4. PICK st \in {"open", "inFlight"} :
          rows' = [rows EXCEPT ![n] = [side |-> s, price |-> p, qty |-> q, rem |-> q,
                                       status |-> st]]
    BY <1>1 DEF SubmitOrder, Insert
  <2> QED
    BY <2>1, <2>2, <2>3, <2>4
<1>3. ~ InBook(n)
  <2>1. bookRem[n] > 0 => bookRem[n] + makerFill[n] > 0
    BY <1>2 DEF RuntimeInv, TypeOK
  <2>2. ~ (n <= created)
    BY <1>1 DEF RuntimeInv, TypeOK
  <2> QED
    BY <1>2, <2>1, <2>2 DEF RuntimeInv, BookInv, BookIsLive, MatchRunning, InPlayQty, InBook
<1>4. \A o \in OrderId \ {n} : rows'[o] = rows[o]
  BY <1>2
<1>5. \A o \in OrderId : InBook(o)' <=> InBook(o)
  BY <1>2 DEF InBook, bookVars
<1>6. CASE pc' = "matching" /\ cur' = n /\ takerRem' = q
  <2>1. \A o \in OrderId : TermsInBook(o)' = IF o = n THEN [side |-> s, price |-> p]
                                                      ELSE TermsInBook(o)
    BY <1>2, <1>3, <1>4, <1>5, <1>6 DEF TermsInBook
  <2>2. KnownTerms' = [KnownTerms EXCEPT ![n] = PT!Terms(s, p)]
    BY <2>1 DEF KnownTerms, PT!Terms
  <2>3. PT!Unknown(n)
    BY <1>2, <1>3 DEF PT!Unknown, PT!NoOrder, TermsInBook
  <2>4. PT!Submit(n, s, p, q)
    BY <1>2, <1>6, <2>2, <2>3 DEF PT!Submit, KnownTerms, bookVars
  <2>5. n \in PT!OrderId /\ s \in PT!Sides
    BY <1>2 DEF PT!OrderId, OrderId, PT!Sides, Sides
  <2> QED
    BY <2>4, <2>5 DEF PT!Next
<1>7. CASE pc' = "idle"
  <2>1. \A o \in OrderId : TermsInBook(o)' = TermsInBook(o)
    BY <1>2, <1>3, <1>4, <1>5, <1>7 DEF TermsInBook
  <2> QED
    BY <1>2, <1>7, <2>1 DEF PT!ptVars, bookVars
<1> QED
  BY <1>1, <1>2, <1>6, <1>7 DEF SubmitOrder

\* Who may be matched, and who is due, by the book and by PriceTimeBook.
LEMMA OppositeIsOpposite ==
  ASSUME RuntimeInv, pc = "matching"
  PROVE  /\ cur \in OrderId /\ cur # 0 /\ ~ InBook(cur)
         /\ PT!Opposite(cur) = Opposite(cur)
         /\ \A m \in Opposite(cur) :
              /\ PT!Crosses(cur, m) <=> Crosses(cur, m)
              /\ \A n \in Opposite(cur) : PT!Ahead(m, n) <=> Ahead(m, n)
<1>1. cur \in OrderId /\ cur # 0 /\ ~ InBook(cur)
  BY DEF RuntimeInv, CallInv, MatchRunning, OrderId, InBook
<1>2. \A o \in OrderId : InBook(o) \/ o = cur =>
        KnownTerms[o].side = rows[o].side /\ KnownTerms[o].price = rows[o].price
  BY TermsAreTheRows
<1>3. PT!Opposite(cur) =
        {m \in OrderId : bookRem[m] > 0 /\ KnownTerms[m].side # KnownTerms[cur].side}
  BY DEF PT!Opposite, PT!Resting, PT!OrderId, OrderId, KnownTerms
<1>4. PT!Opposite(cur) = Opposite(cur)
  BY <1>1, <1>2, <1>3 DEF Opposite, InBook
<1>5. ASSUME NEW m \in Opposite(cur) PROVE PT!Crosses(cur, m) <=> Crosses(cur, m)
  <2>1. PT!Crosses(cur, m) <=>
          IF KnownTerms[cur].side = "buy" THEN KnownTerms[m].price <= KnownTerms[cur].price
                                          ELSE KnownTerms[m].price >= KnownTerms[cur].price
    BY DEF PT!Crosses, KnownTerms
  <2> QED
    BY <1>1, <1>2, <2>1 DEF Crosses, Opposite
<1>6. ASSUME NEW m \in Opposite(cur), NEW n \in Opposite(cur)
      PROVE  PT!Ahead(m, n) <=> Ahead(m, n)
  <2>1. PT!Ahead(m, n) <=>
          \/ IF KnownTerms[m].side = "sell" THEN KnownTerms[m].price < KnownTerms[n].price
                                            ELSE KnownTerms[m].price > KnownTerms[n].price
          \/ KnownTerms[m].price = KnownTerms[n].price /\ bookSeq[m] < bookSeq[n]
    BY DEF PT!Ahead, KnownTerms
  <2> QED
    BY <1>2, <2>1 DEF Ahead, BetterPrice, Opposite
<1> QED
  BY <1>1, <1>4, <1>5, <1>6

\* One turn of the matching loop hits the order that is due.
LEMMA MatchUsesBook ==
  ASSUME RuntimeInv, MatchStep
  PROVE  PT!Next
<1>1. PICK m \in OrderId :
        /\ pc = "matching" /\ takerRem > 0 /\ BestMaker(m) /\ Crosses(cur, m)
        /\ bookRem' = [bookRem EXCEPT ![m] = @ - FillQty(m)]
        /\ bookSeq' = [bookSeq EXCEPT ![m] = IF bookRem[m] = FillQty(m) THEN 0 ELSE @]
        /\ takerRem' = takerRem - FillQty(m)
        /\ UNCHANGED <<rows, nextSeq, pc, cur>>
  BY DEF MatchStep, storeVars
<1>2. PICK q : q = FillQty(m)
  OBVIOUS
<1>3. /\ q = IF takerRem < bookRem[m] THEN takerRem ELSE bookRem[m]
      /\ bookRem \in [OrderId -> Nat] /\ bookSeq \in [OrderId -> Nat] /\ takerRem \in Nat
  BY <1>2 DEF FillQty, RuntimeInv, TypeOK
<1>4. /\ cur \in OrderId /\ cur # 0 /\ ~ InBook(cur) /\ InBook(m) /\ m # cur
      /\ PT!Best(m) /\ PT!Crosses(cur, m)
  BY <1>1, OppositeIsOpposite DEF BestMaker, PT!Best, Opposite, InBook
<1>5. \A o \in OrderId : InBook(o)' <=> InBook(o) /\ ~ (o = m /\ bookRem[m] = q)
  BY <1>1, <1>2, <1>3, <1>4 DEF InBook
<1>6. CASE bookRem[m] = q
  <2>1. \A o \in OrderId : TermsInBook(o)' = IF o = m THEN PT!NoOrder ELSE TermsInBook(o)
    BY <1>1, <1>4, <1>5, <1>6 DEF TermsInBook, PT!NoOrder
  <2>2. KnownTerms' = [KnownTerms EXCEPT ![m] = PT!NoOrder]
    BY <2>1 DEF KnownTerms
  <2>3. bookSeq' = [bookSeq EXCEPT ![m] = 0]
    BY <1>1, <1>2, <1>6
  <2>4. PT!Hit(m)
    BY <1>1, <1>2, <1>3, <1>4, <1>6, <2>2, <2>3 DEF PT!Hit, KnownTerms
  <2> QED
    BY <2>4 DEF PT!Next, PT!OrderId, OrderId
<1>7. CASE bookRem[m] # q
  <2>1. \A o \in OrderId : TermsInBook(o)' = TermsInBook(o)
    BY <1>1, <1>5, <1>7 DEF TermsInBook
  <2>2. KnownTerms' = KnownTerms
    BY <2>1 DEF KnownTerms
  <2>3. bookSeq' = bookSeq
    BY <1>1, <1>2, <1>3, <1>7
  <2>4. PT!Hit(m)
    BY <1>1, <1>2, <1>3, <1>4, <1>7, <2>2, <2>3 DEF PT!Hit, KnownTerms
  <2> QED
    BY <2>4 DEF PT!Next, PT!OrderId, OrderId
<1> QED
  BY <1>6, <1>7

\* The loop ends, and the taker rests or is gone.
LEMMA DoneUsesBook ==
  ASSUME RuntimeInv, MatchDone
  PROVE  PT!Next
<1>1. /\ pc = "matching" /\ pc' = "matched"
      /\ takerRem = 0 \/ ~ \E m \in Opposite(cur) : Crosses(cur, m)
      /\ IF takerRem > 0 THEN Rest(cur, takerRem) ELSE UNCHANGED bookVars
      /\ UNCHANGED <<rows, cur, takerRem>>
  BY DEF MatchDone, storeVars, callVars
<1>2. /\ cur \in OrderId /\ cur # 0 /\ ~ InBook(cur)
      /\ bookRem \in [OrderId -> Nat] /\ bookSeq \in [OrderId -> Nat] /\ takerRem \in Nat
  BY <1>1, OppositeIsOpposite DEF RuntimeInv, TypeOK
<1>3. takerRem = 0 \/ ~ \E m \in PT!Opposite(cur) : PT!Crosses(cur, m)
  BY <1>1, OppositeIsOpposite
<1>4. CASE takerRem > 0
  <2>1. Rest(cur, takerRem)
    BY <1>1, <1>4
  <2>2. \A o \in OrderId : InBook(o)' <=> InBook(o) \/ o = cur
    BY <1>2, <1>4, <2>1 DEF Rest, InBook
  <2>3. \A o \in OrderId : TermsInBook(o)' = TermsInBook(o)
    BY <1>1, <2>2 DEF TermsInBook
  <2>4. PT!Arrive(cur, takerRem)
    BY <2>1 DEF PT!Arrive, Rest
  <2>5. PT!Finish
    BY <1>1, <1>2, <1>3, <1>4, <2>3, <2>4 DEF PT!Finish, PT!Arrive
  <2> QED
    BY <2>5 DEF PT!Next
<1>5. CASE ~ (takerRem > 0)
  <2>1. UNCHANGED bookVars
    BY <1>1, <1>5
  <2>2. \A o \in OrderId : TermsInBook(o)' = IF o = cur THEN PT!NoOrder ELSE TermsInBook(o)
    BY <1>1, <1>2, <2>1 DEF TermsInBook, InBook, bookVars, PT!NoOrder
  <2>3. KnownTerms' = [KnownTerms EXCEPT ![cur] = PT!NoOrder]
    BY <2>2 DEF KnownTerms
  <2>4. PT!Finish
    BY <1>1, <1>2, <1>3, <1>5, <2>1, <2>3 DEF PT!Finish, KnownTerms, bookVars
  <2> QED
    BY <2>4 DEF PT!Next
<1> QED
  BY <1>4, <1>5

\* A cancel takes the order out, if the book has it.
LEMMA CancelUsesBook ==
  ASSUME RuntimeInv, CancelInBook
  PROVE  PT!Next \/ UNCHANGED PT!ptVars
<1>1. /\ pc = "cancelling" /\ pc' # "matching" /\ UNCHANGED <<rows, nextSeq>>
      /\ cur \in OrderId
      /\ bookRem \in [OrderId -> Nat] /\ bookSeq \in [OrderId -> Nat]
  BY DEF CancelInBook, storeVars, RuntimeInv, TypeOK, CallInv
<1>2. CASE InBook(cur)
  <2>1. bookRem' = [bookRem EXCEPT ![cur] = 0] /\ bookSeq' = [bookSeq EXCEPT ![cur] = 0]
    BY <1>2 DEF CancelInBook
  <2>2. \A o \in OrderId : InBook(o)' <=> InBook(o) /\ o # cur
    BY <1>1, <2>1 DEF InBook
  <2>3. \A o \in OrderId : TermsInBook(o)' = IF o = cur THEN PT!NoOrder ELSE TermsInBook(o)
    BY <1>1, <2>2 DEF TermsInBook, PT!NoOrder
  <2>4. KnownTerms' = [KnownTerms EXCEPT ![cur] = PT!NoOrder]
    BY <2>3 DEF KnownTerms
  <2>5. PT!Cancel(cur)
    BY <1>1, <1>2, <2>1, <2>4 DEF PT!Cancel, PT!Resting, InBook, KnownTerms
  <2> QED
    BY <1>1, <2>5 DEF PT!Next, PT!OrderId, OrderId
<1>3. CASE ~ InBook(cur)
  <2>1. UNCHANGED bookVars
    BY <1>3 DEF CancelInBook, bookVars
  <2>2. \A o \in OrderId : TermsInBook(o)' = TermsInBook(o)
    BY <1>1, <2>1 DEF TermsInBook, InBook, bookVars
  <2> QED
    BY <1>1, <2>1, <2>2 DEF PT!ptVars, bookVars
<1> QED
  BY <1>2, <1>3

\* Commits, cancels and what lands late change the rows, but not what the book knows of
\* them.
LEMMA RowsKeepTerms ==
  ASSUME RuntimeInv,
         \/ PersistMatchResult \/ PersistLater \/ PersistFails \/ Landings
         \/ CancelOrder \/ CancelFails \/ \E c \in OrderId : ReadForCancel(c)
  PROVE  /\ \A o \in OrderId : rows'[o].side = rows[o].side /\ rows'[o].price = rows[o].price
         /\ pc' = "matching" <=> pc = "matching"
         /\ pc = "matching" => UNCHANGED <<cur, takerRem>>
         /\ UNCHANGED bookVars
<1>1. rows \in [OrderId -> Row]
  BY DEF RuntimeInv, TypeOK
<1>2. CASE PersistMatchResult
  <2>1. \A o \in OrderId : /\ MatchedRows[o].side = rows[o].side
                           /\ MatchedRows[o].price = rows[o].price
    BY <1>1 DEF MatchedRows, Row
  <2> QED
    BY <1>2, <2>1 DEF PersistMatchResult, MatchIsWritten
<1>3. CASE \/ PersistLater \/ PersistFails \/ CancelFails
           \/ \E c \in OrderId : ReadForCancel(c)
  BY <1>3 DEF PersistLater, MatchIsWritten, PersistFails, CancelFails, ReadForCancel, Release,
     storeVars
<1>4. ASSUME NEW c \in OrderId, NEW st, rows' = [rows EXCEPT ![c].status = st]
      PROVE  \A o \in OrderId : rows'[o].side = rows[o].side /\ rows'[o].price = rows[o].price
  BY <1>1, <1>4 DEF Row
<1>5. CASE CancelOrder
  <2>1. cur \in OrderId
    BY <1>5 DEF CancelOrder, RuntimeInv, CallInv, Orders
  <2>2. PICK c \in OrderId : c = cur
    BY <2>1
  <2>3. rows' = [rows EXCEPT ![c].status = "cancelled"]
    BY <1>5, <2>2 DEF CancelOrder
  <2> QED
    BY <1>4, <1>5, <2>3 DEF CancelOrder
<1>6. CASE Landings
  <2>1. pc' = pc /\ UNCHANGED <<cur, takerRem, bookVars>>
    BY <1>6 DEF Landings, InsertLands, CancelLands, MatchLands, callVars
  <2>2. ASSUME NEW c \in OrderId, InsertLands(c) \/ CancelLands(c)
        PROVE  \A o \in OrderId :
                 rows'[o].side = rows[o].side /\ rows'[o].price = rows[o].price
    BY <1>4, <2>2 DEF InsertLands, CancelLands
  <2>3. ASSUME NEW t \in late, MatchLands(t)
        PROVE  \A o \in OrderId :
                 rows'[o].side = rows[o].side /\ rows'[o].price = rows[o].price
    <3>1. \A o \in OrderId : Updates(t, o) =>
            t.rows[o].side = rows[o].side /\ t.rows[o].price = rows[o].price
      BY DEF RuntimeInv, LateInv, LateRow
    <3>2. \/ rows' = [o \in OrderId |-> IF Updates(t, o) THEN t.rows[o] ELSE rows[o]]
          \/ rows' = rows
      BY <2>3 DEF MatchLands
    <3> QED
      BY <3>1, <3>2
  <2>4. lateCancels \subseteq OrderId
    BY DEF RuntimeInv, TypeOK
  <2> QED
    BY <1>6, <2>1, <2>2, <2>3, <2>4 DEF Landings
<1> QED
  BY <1>2, <1>3, <1>5, <1>6

\* Every step uses the book as PriceTimeBook has it, or makes a new one.
LEMMA StepUsesBook ==
  ASSUME RuntimeInv, [Next]_vars
  PROVE  [PT!Next \/ RebuiltBook \/ EmptyBook]_(PT!ptVars)
<1>1. ASSUME NEW s \in Sides, NEW p \in Prices, NEW q \in Quantities, SubmitOrder(s, p, q)
      PROVE  PT!Next \/ UNCHANGED PT!ptVars
  BY <1>1, SubmitUsesBook
<1>2. CASE MatchStep
  BY <1>2, MatchUsesBook
<1>3. CASE MatchDone
  BY <1>3, DoneUsesBook
<1>4. CASE CancelInBook
  BY <1>4, CancelUsesBook
<1>5. CASE \/ PersistMatchResult \/ PersistLater \/ PersistFails \/ Landings
           \/ CancelOrder \/ CancelFails \/ \E c \in OrderId : ReadForCancel(c)
  <2>1. /\ \A o \in OrderId : rows'[o].side = rows[o].side /\ rows'[o].price = rows[o].price
        /\ pc' = "matching" <=> pc = "matching"
        /\ pc = "matching" => UNCHANGED <<cur, takerRem>>
        /\ UNCHANGED bookVars
    BY <1>5, RowsKeepTerms
  <2>2. \A o \in OrderId : InBook(o)' <=> InBook(o)
    BY <2>1 DEF InBook, bookVars
  <2> QED
    BY <2>1, <2>2, SameBook
<1>6. CASE UNCHANGED vars \/ PublishEvent \/ AnswerSubmit \/ AnswerCancel \/ FailClosed
  <2>1. /\ UNCHANGED <<rows, bookVars>>
        /\ pc' = "matching" <=> pc = "matching"
        /\ pc = "matching" => UNCHANGED <<cur, takerRem>>
    BY <1>6 DEF vars, storeVars, callVars, PublishEvent, AnswerSubmit, AnswerCancel, FailClosed,
       Release
  <2>2. \A o \in OrderId : InBook(o)' <=> InBook(o)
    BY <2>1 DEF InBook, bookVars
  <2> QED
    BY <2>1, <2>2, SameBook
<1>7. CASE RecoverBook \/ Restart
  BY <1>7 DEF RecoverBook, Restart
<1>8. CASE Crash
  BY <1>8 DEF Crash
<1> QED
  BY <1>1, <1>2, <1>3, <1>4, <1>5, <1>6, <1>7, <1>8 DEF Next, Requests, Work

\* For any faults, also those after which book and table disagree: between one new book
\* and the next the runtime matches, rests and cancels as PriceTimeBook has it, so that
\* the book of order_book.go, which implements it, can stand in its place.
THEOREM RuntimeUsesPriceTime == Spec => BookIsPriceTime
<1>1. Init => PT!Init
  <2> SUFFICES ASSUME Init PROVE PT!Init
    OBVIOUS
  <2>1. \A o \in OrderId : TermsInBook(o) = PT!NoOrder
    BY DEF TermsInBook, InBook, Init, PT!NoOrder
  <2> QED
    BY <2>1 DEF Init, PT!Init, PT!OrderId, OrderId
<1>2. RuntimeInv /\ [Next]_vars =>
        [~ UNCHANGED PT!ptVars => RebuiltBook \/ EmptyBook \/ PT!Next]_(PT!ptVars)
  BY StepUsesBook
<1> QED
  BY <1>1, <1>2, RuntimeInvariant, PTL DEF Spec, BookIsPriceTime

=============================================================================
