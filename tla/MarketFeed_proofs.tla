------------------------- MODULE MarketFeed_proofs -------------------------
(***************************************************************************)
(* What the readers of the stream show, whatever fails between them and    *)
(* it.  A step of MarketSpec is a step of order-service or none of it      *)
(* (MarketRunsRuntime), so what is proved of order-service and of its      *)
(* stream holds here; on top of it                                         *)
(*                                                                         *)
(*   DeliveryInv   what the server knows of each subscription              *)
(*   ItemsInv      of which delivered event each order of the view is      *)
(*   DepthInv      the depth, as a sum over the orders of the view         *)
(*   RecentInv     of which delivered events the trades are                *)
(*   CountInv      how many events the wallet counted                      *)
(*                                                                         *)
(* and at the end the way from the tables to the answer: StreamIsComplete  *)
(* and ItemsInv make the view's orders the table's, DepthInv the depth its *)
(* sums, and the sort and the limit the top of them.                       *)
(***************************************************************************)
EXTENDS MarketFeed, OrderRuntime_proofs, DataLemmas, SequenceTheorems, FunctionTheorems

\* A step of the exchange and its readers is a step of the exchange, or none of it.
LEMMA MarketStepIsStep == ASSUME [MarketNext]_marketVars PROVE [Next]_vars
BY DEF MarketNext, marketVars, Deliveries, Receive, Redeliver, ResumeFeed, RereadFeed, Services

\* So all that is proved of order-service holds with its readers as well.
THEOREM MarketRunsRuntime == MarketSpec => Spec
<1>1. MarketInit => Init
  BY DEF MarketInit
<1>2. [MarketNext]_marketVars => [Next]_vars
  BY MarketStepIsStep
<1> QED
  BY <1>1, <1>2, PTL DEF MarketSpec, Spec

\* The stream only grows.
LEMMA StreamGrows ==
  ASSUME TypeOK, [Next]_vars
  PROVE  /\ Len(stream) \in Nat /\ Len(stream') \in Nat /\ Len(stream) <= Len(stream')
         /\ DOMAIN stream = 1..Len(stream) /\ DOMAIN stream' = 1..Len(stream')
         /\ \A i \in DOMAIN stream : i \in DOMAIN stream' /\ stream'[i] = stream[i]
<1>1. stream \in Seq(OrderEvents \cup TradeEvents)
  BY DEF TypeOK
<1>2. CASE stream' = stream
  BY <1>1, <1>2
<1>3. CASE PublishEvent
  <2>1. outbox # <<>> /\ outbox \in Seq(OrderEvents \cup TradeEvents)
    BY <1>3 DEF PublishEvent, TypeOK
  <2> PICK e : e = Head(outbox)
    OBVIOUS
  <2>2. e \in OrderEvents \cup TradeEvents
    BY <2>1
  <2>3. stream' = stream \/ stream' = Append(stream, e)
    BY <1>3 DEF PublishEvent
  <2>4. CASE stream' = Append(stream, e)
    BY <1>1, <2>2, <2>4
  <2> QED
    BY <1>2, <2>3, <2>4
<1>4. ASSUME ~ PublishEvent PROVE stream' = stream
  <2>1. CASE UNCHANGED vars \/ Requests \/ MatchStep \/ MatchDone \/ PersistMatchResult
    BY <2>1 DEF vars, wireVars, Requests, SubmitOrder, ReadForCancel, MatchStep, MatchDone,
       PersistMatchResult
  <2>4. CASE PersistLater \/ CancelOrder \/ CancelFails \/ Landings
    BY <2>4 DEF wireVars, PersistLater, CancelOrder, CancelFails, Landings, InsertLands,
       CancelLands, MatchLands
  <2>2. CASE PersistFails \/ AnswerSubmit \/ CancelInBook \/ AnswerCancel \/ RecoverBook
    BY <2>2 DEF wireVars, PersistFails, AnswerSubmit, CancelInBook, AnswerCancel,
       RecoverBook
  <2>3. CASE FailClosed \/ Crash \/ Restart
    BY <2>3 DEF wireVars, FailClosed, Crash, Restart
  <2> QED
    BY <1>4, <2>1, <2>2, <2>3, <2>4 DEF Next, Work
<1> QED
  BY <1>2, <1>3, <1>4

\* What a step of the exchange leaves of what the readers may have read.
LEMMA WantedGrows ==
  ASSUME TypeOK, [Next]_vars, NEW c
  PROVE  /\ Wanted(c) \subseteq Wanted(c)'
         /\ \A n \in Nat : n <= Len(stream) =>
              {i \in Wanted(c)' : i <= n} = {i \in Wanted(c) : i <= n}
<1>1. /\ Len(stream) \in Nat /\ Len(stream') \in Nat /\ Len(stream) <= Len(stream')
      /\ DOMAIN stream = 1..Len(stream) /\ DOMAIN stream' = 1..Len(stream')
      /\ \A i \in DOMAIN stream : i \in DOMAIN stream' /\ stream'[i] = stream[i]
  BY StreamGrows
<1>2. \A i \in DOMAIN stream' : \A n \in Nat : i <= n /\ n <= Len(stream) => i \in DOMAIN stream
  BY <1>1
<1> QED
  BY <1>1, <1>2 DEF Wanted

----------------------------------------------------------------------------
(* Deliveries *)

\* What the server knows of a subscription: it delivered no more than there is, what was
\* never acked was delivered, and there is such a thing only after a fault.
DeliveryInv ==
  /\ Subs \in Readers
  /\ pos \in [Subs -> Nat]
  /\ unacked \in [Subs -> SUBSET Nat]
  /\ \A c \in Subs : pos[c] <= Len(stream) /\ unacked[c] \subseteq {i \in Wanted(c) : i <= pos[c]}
  /\ InOrder => \A c \in Subs : unacked[c] = {}
  /\ feedFaults \subseteq FeedFaultKinds /\ feedFaultCount \in 0..MaxFeedFaults

\* What a delivery does to the subscription: it is the next message, or one again that
\* was never acked.
Moves(c, i) ==
  \/ /\ i > pos[c] /\ \A j \in Wanted(c) : j > pos[c] => i <= j
     /\ pos' = [pos EXCEPT ![c] = i]
     /\ \/ unacked' = unacked /\ UNCHANGED feedFaultVars
        \/ FeedFault("ackLost") /\ unacked' = [unacked EXCEPT ![c] = @ \cup {i}]
  \/ /\ i \in unacked[c] /\ i <= pos[c]
     /\ pos' = pos
     /\ \/ unacked' = [unacked EXCEPT ![c] = @ \ {i}] /\ UNCHANGED feedFaultVars
        \/ unacked' = unacked /\ FeedFault("ackLost")

\* A delivery, as the two ways there are.
LEMMA DeliveryShape ==
  ASSUME DeliveryInv, Deliveries
  PROVE  /\ UNCHANGED vars
         /\ \E c \in Subs : \E i \in Wanted(c) : Handle(c, i) /\ Moves(c, i)
<1>1. PICK c \in AllSubs : Receive(c) \/ Redeliver(c)
  BY DEF Deliveries
<1>2. CASE Receive(c)
  BY <1>2 DEF Receive, Moves
<1>3. CASE Redeliver(c)
  BY <1>3 DEF Redeliver, DeliveryInv, Moves
<1> QED
  BY <1>1, <1>2, <1>3

Restarts(S) == ResumeFeed(S) \/ RereadFeed(S)

\* What a restart of a service does.
LEMMA RestartShape ==
  ASSUME DeliveryInv, NEW S \in Services, Restarts(S)
  PROVE  /\ UNCHANGED vars /\ Forget(S) /\ S \subseteq Subs
         /\ DOMAIN pos' = Subs /\ DOMAIN unacked' = Subs
         /\ \A c \in Subs \ S : pos'[c] = pos[c] /\ unacked'[c] = unacked[c]
         /\ \E f \in FeedFaultKinds : feedFaults' = feedFaults \cup {f}
                                      /\ (f = "resume" \/ RereadFeed(S))
         /\ RereadFeed(S) => \A c \in S : pos'[c] = 0 /\ unacked'[c] = {}
         /\ feedFaultCount < MaxFeedFaults /\ feedFaultCount' = feedFaultCount + 1
<1>1. DOMAIN pos = Subs
  BY DEF Subs
<1>2. CASE ResumeFeed(S)
  <2>1. ~ RereadFeed(S) \/ RereadFeed(S)
    OBVIOUS
  <2>2. CASE ~ RereadFeed(S)
    BY <1>1, <1>2, <2>2 DEF ResumeFeed, FeedFault, Subs
  <2>3. CASE RereadFeed(S)
    BY <1>1, <2>3 DEF RereadFeed, NewDurables, FeedFault, Subs
  <2> QED
    BY <2>2, <2>3
<1>3. CASE RereadFeed(S)
  BY <1>1, <1>3 DEF RereadFeed, NewDurables, FeedFault, Subs
<1> QED
  BY <1>2, <1>3 DEF Restarts

\* A restart of marketdata-service leaves the wallet alone, and the other way round.
LEMMA RestartOfMarket ==
  ASSUME DeliveryInv, Restarts(MarketSubs)
  PROVE  EmptyView /\ UNCHANGED walletVars
BY RestartShape DEF Forget, Services, MarketSubs, WalletSubs

LEMMA RestartOfWallet ==
  ASSUME DeliveryInv, Restarts(WalletSubs)
  PROVE  counted' = 0 /\ since' = pos'["wallet"] /\ tallied' = tallied /\ UNCHANGED viewVars
BY RestartShape DEF Forget, Services, MarketSubs, WalletSubs

\* Every step keeps what the server knows.
LEMMA DeliveryStep ==
  ASSUME TypeOK, DeliveryInv, [MarketNext]_marketVars
  PROVE  DeliveryInv'
<1>1. /\ DOMAIN pos = Subs /\ Subs \in Readers /\ pos \in [Subs -> Nat]
      /\ unacked \in [Subs -> SUBSET Nat] /\ feedFaults \subseteq FeedFaultKinds
      /\ \A c \in Subs : pos[c] <= Len(stream) /\ unacked[c] \subseteq {i \in Wanted(c) : i <= pos[c]}
  BY DEF DeliveryInv, Subs
<1>2. /\ Len(stream) \in Nat /\ Len(stream') \in Nat /\ Len(stream) <= Len(stream')
      /\ DOMAIN stream = 1..Len(stream)
  BY MarketStepIsStep, StreamGrows
<1>3. \A c : Wanted(c) \subseteq Wanted(c)' /\ Wanted(c) \subseteq 1..Len(stream)
  BY <1>2, MarketStepIsStep, WantedGrows DEF Wanted
<1>4. CASE UNCHANGED feedVars
  <2>1. pos' = pos /\ unacked' = unacked /\ Subs' = Subs
        /\ feedFaults' = feedFaults /\ feedFaultCount' = feedFaultCount
    BY <1>4 DEF feedVars, subVars, Subs, feedFaultVars
  <2>2. \A c \in Subs : pos[c] <= Len(stream')
    BY <1>1, <1>2
  <2>3. \A c \in Subs : unacked[c] \subseteq {i \in Wanted(c)' : i <= pos[c]}
    BY <1>1, <1>3
  <2> QED
    BY <2>1, <2>2, <2>3 DEF DeliveryInv, InOrder
<1>5. CASE Deliveries
  <2>1. UNCHANGED vars
    BY <1>5, DeliveryShape
  <2> PICK c \in Subs : \E i \in Wanted(c) : Moves(c, i)
    BY <1>5, DeliveryShape
  <2> PICK i \in Wanted(c) : Moves(c, i)
    OBVIOUS
  <2>2. \/ /\ i > pos[c] /\ \A j \in Wanted(c) : j > pos[c] => i <= j
           /\ pos' = [pos EXCEPT ![c] = i]
           /\ \/ unacked' = unacked /\ feedFaults' = feedFaults
              \/ FeedFault("ackLost") /\ unacked' = [unacked EXCEPT ![c] = @ \cup {i}]
        \/ /\ i \in unacked[c] /\ i <= pos[c]
           /\ pos' = pos
           /\ \/ unacked' = [unacked EXCEPT ![c] = @ \ {i}] /\ feedFaults' = feedFaults
              \/ unacked' = unacked /\ FeedFault("ackLost")
    BY DEF Moves, feedFaultVars
  <2>0. feedFaultCount' \in 0..MaxFeedFaults
    <3>1. MaxFeedFaults \in Nat /\ feedFaultCount \in 0..MaxFeedFaults
      BY FeedAssumption DEF DeliveryInv
    <3> QED
      BY <3>1 DEF Moves, feedFaultVars, FeedFault
  <2>3. stream' = stream /\ \A d : Wanted(d)' = Wanted(d)
    BY <2>1 DEF vars, wireVars, Wanted
  <2>4. i \in Nat /\ i <= Len(stream)
    BY <1>2, <1>3
  <2>5. Subs' = Subs
    BY <1>1, <2>2 DEF Subs
  <2>6. CASE pos' = [pos EXCEPT ![c] = i] /\ i > pos[c]
    <3>1. pos' \in [Subs -> Nat] /\ pos'[c] = i /\ \A d \in Subs \ {c} : pos'[d] = pos[d]
      BY <1>1, <2>4, <2>6
    <3>2. \A d \in Subs : pos'[d] <= Len(stream)
      BY <1>1, <2>4, <3>1
    <3>3. \A d \in Subs : unacked[d] \subseteq {j \in Wanted(d) : j <= pos'[d]}
      <4> SUFFICES ASSUME NEW d \in Subs, NEW j \in unacked[d]
                   PROVE  j \in Wanted(d) /\ j <= pos'[d]
        OBVIOUS
      <4>1. j \in Wanted(d) /\ j <= pos[d] /\ j \in Nat /\ pos[d] \in Nat /\ pos[c] \in Nat
        BY <1>1
      <4> QED
        BY <2>4, <2>6, <3>1, <4>1
    <3>4. CASE unacked' = unacked /\ feedFaults' = feedFaults
      BY <1>1, <2>0, <2>3, <2>5, <3>1, <3>2, <3>3, <3>4 DEF DeliveryInv, InOrder
    <3>5. CASE FeedFault("ackLost") /\ unacked' = [unacked EXCEPT ![c] = @ \cup {i}]
      <4>1. unacked' \in [Subs -> SUBSET Nat]
        BY <1>1, <2>4, <3>5
      <4>2. \A d \in Subs : unacked'[d] \subseteq {j \in Wanted(d) : j <= pos'[d]}
        BY <1>1, <2>4, <3>1, <3>3, <3>5
      <4>3. feedFaults' \subseteq FeedFaultKinds /\ "ackLost" \in feedFaults'
        BY <1>1, <3>5 DEF FeedFault
      <4>4. ~ InOrder'
        BY <4>3 DEF InOrder
      <4> QED
        BY <1>1, <2>0, <2>3, <2>5, <3>1, <3>2, <4>1, <4>2, <4>3, <4>4 DEF DeliveryInv
    <3>6. \/ unacked' = unacked /\ feedFaults' = feedFaults
          \/ FeedFault("ackLost") /\ unacked' = [unacked EXCEPT ![c] = @ \cup {i}]
      <4>1. pos' # pos
        <5>1. pos[c] \in Nat /\ pos'[c] # pos[c]
          BY <1>1, <2>4, <2>6, <3>1
        <5> QED
          BY <5>1
      <4> QED
        BY <2>2, <4>1
    <3> QED
      BY <3>4, <3>5, <3>6
  <2>7. CASE pos' = pos /\ feedFaults' = feedFaults /\ unacked' = [unacked EXCEPT ![c] = @ \ {i}]
    <3>1. unacked' \in [Subs -> SUBSET Nat] /\ \A d \in Subs : unacked'[d] \subseteq unacked[d]
      BY <1>1, <2>7
    <3>2. InOrder' => \A d \in Subs : unacked'[d] = {}
      BY <2>7, <3>1 DEF DeliveryInv, InOrder
    <3>3. \A d \in Subs : unacked'[d] \subseteq {j \in Wanted(d) : j <= pos[d]}
      BY <1>1, <3>1
    <3> QED
      BY <1>1, <2>0, <2>3, <2>5, <2>7, <3>1, <3>2, <3>3 DEF DeliveryInv
  <2>8. CASE pos' = pos /\ unacked' = unacked /\ FeedFault("ackLost")
    <3>1. feedFaults' \subseteq FeedFaultKinds /\ "ackLost" \in feedFaults'
      BY <1>1, <2>8 DEF FeedFault
    <3>2. ~ InOrder'
      BY <3>1 DEF InOrder
    <3> HIDE DEF InOrder
    <3> QED
      BY <1>1, <2>0, <2>3, <2>5, <2>8, <3>1, <3>2 DEF DeliveryInv
  <2> QED
    BY <2>2, <2>6, <2>7, <2>8
<1>6. ASSUME NEW S \in Services, Restarts(S)
      PROVE  DeliveryInv'
  <2>1. /\ UNCHANGED vars /\ DOMAIN pos' = Subs /\ DOMAIN unacked' = Subs
        /\ \A c \in Subs \ S : pos'[c] = pos[c] /\ unacked'[c] = unacked[c]
    BY <1>6, RestartShape
  <2>2. PICK f \in FeedFaultKinds : feedFaults' = feedFaults \cup {f} /\ (f = "resume" \/ RereadFeed(S))
    BY <1>6, RestartShape
  <2>0. feedFaultCount' \in 0..MaxFeedFaults
    <3>1. MaxFeedFaults \in Nat /\ feedFaultCount \in 0..MaxFeedFaults
      BY FeedAssumption DEF DeliveryInv
    <3>2. feedFaultCount < MaxFeedFaults /\ feedFaultCount' = feedFaultCount + 1
      BY <1>6, RestartShape
    <3> QED
      BY <3>1, <3>2
  <2>3. stream' = stream /\ (\A d : Wanted(d)' = Wanted(d)) /\ Subs' = Subs
    BY <2>1 DEF vars, wireVars, Wanted, Subs
  <2>4. CASE ResumeFeed(S)
    <3>1. PICK upto \in [S -> 0..Len(stream)] :
             /\ \A c \in S : upto[c] >= pos[c]
             /\ pos' = [c \in Subs |-> IF c \in S THEN upto[c] ELSE pos[c]]
             /\ unacked' = [c \in Subs |->
                  IF c \in S
                    THEN unacked[c] \cup {i \in Wanted(c) : pos[c] < i /\ i <= upto[c]}
                    ELSE unacked[c]]
      BY <2>4 DEF ResumeFeed
    <3>2. \A c \in S : upto[c] \in Nat /\ upto[c] <= Len(stream) /\ upto[c] >= pos[c]
      BY <1>2, <3>1
    <3>3. pos' \in [Subs -> Nat] /\ \A c \in Subs : pos'[c] <= Len(stream) /\ pos[c] <= pos'[c]
      BY <1>1, <3>1, <3>2
    <3>4. unacked' \in [Subs -> SUBSET Nat]
      BY <1>1, <1>3, <3>1
    <3>5. \A c \in Subs : unacked'[c] \subseteq {i \in Wanted(c) : i <= pos'[c]}
      <4> SUFFICES ASSUME NEW c \in Subs, NEW i \in unacked'[c]
                   PROVE  i \in Wanted(c) /\ i <= pos'[c]
        OBVIOUS
      <4>1. CASE i \in unacked[c]
        <5>1. i \in Wanted(c) /\ i <= pos[c] /\ i \in Nat /\ pos[c] \in Nat /\ pos'[c] \in Nat
          BY <1>1, <3>3, <4>1
        <5> QED
          BY <3>3, <5>1
      <4>2. CASE i \notin unacked[c]
        BY <3>1, <4>2
      <4> QED
        BY <4>1, <4>2
    <3>6. "resume" \in feedFaults'
      BY <2>4 DEF ResumeFeed, FeedFault
    <3>7. ~ InOrder'
      BY <3>6 DEF InOrder
    <3>8. feedFaults' \subseteq FeedFaultKinds
      BY <1>1, <2>2
    <3>9. \A c \in Subs : pos'[c] <= Len(stream') /\ unacked'[c] \subseteq {i \in Wanted(c)' : i <= pos'[c]}
      BY <2>3, <3>3, <3>5
    <3>10. Subs' \in Readers /\ pos' \in [Subs' -> Nat] /\ unacked' \in [Subs' -> SUBSET Nat]
      BY <1>1, <2>3, <3>3, <3>4
    <3> HIDE DEF InOrder
    <3> QED
      BY <2>0, <2>3, <3>7, <3>8, <3>9, <3>10 DEF DeliveryInv
  <2>5. CASE RereadFeed(S)
    <3>1. /\ pos' = [c \in Subs |-> IF c \in S THEN 0 ELSE pos[c]]
          /\ unacked' = [c \in Subs |-> IF c \in S THEN {} ELSE unacked[c]]
          /\ feedFaults' = feedFaults \cup {"reread"} /\ "reread" \in FeedFaultKinds
      BY <2>5 DEF RereadFeed, NewDurables, FeedFault
    <3>2. pos' \in [Subs -> Nat] /\ unacked' \in [Subs -> SUBSET Nat]
      BY <1>1, <3>1
    <3>3. \A c \in Subs : pos'[c] <= Len(stream) /\ unacked'[c] \subseteq {i \in Wanted(c) : i <= pos'[c]}
      BY <1>1, <1>2, <3>1
    <3>4. InOrder' => \A c \in Subs : unacked'[c] = {}
      BY <3>1 DEF DeliveryInv, InOrder
    <3>5. feedFaults' \subseteq FeedFaultKinds
      BY <1>1, <3>1
    <3> QED
      BY <1>1, <2>0, <2>3, <3>2, <3>3, <3>4, <3>5 DEF DeliveryInv
  <2> QED
    BY <1>6, <2>4, <2>5 DEF Restarts
<1> QED
  BY <1>4, <1>5, <1>6 DEF MarketNext, marketVars, Restarts

\* What the server knows of its subscriptions, and all the next theorems rest on.
THEOREM DeliveryInvariant == MarketSpec => []DeliveryInv
<1>1. MarketInit => DeliveryInv
  <2> SUFFICES ASSUME MarketInit PROVE DeliveryInv
    OBVIOUS
  <2>1. PICK S \in Readers : pos = [c \in S |-> 0]
    BY DEF MarketInit, FeedInit
  <2>2. Subs = S /\ unacked = [c \in Subs |-> {}] /\ feedFaults = {} /\ stream = <<>>
        /\ feedFaultCount = 0
    BY <2>1 DEF MarketInit, FeedInit, Init, Subs
  <2> QED
    BY <2>1, <2>2, FeedAssumption DEF DeliveryInv
<1>2. TypeOK /\ DeliveryInv /\ [MarketNext]_marketVars => DeliveryInv'
  BY DeliveryStep
<1> QED
  BY <1>1, <1>2, MarketRunsRuntime, TypeCorrect, PTL DEF MarketSpec

\* What a subscription has handled, at least once.
Read(c) == {i \in Wanted(c) : i <= pos[c]}

\* A step of the exchange leaves the subscriptions as they are.
LEMMA ReadUnchanged ==
  ASSUME TypeOK, DeliveryInv, [Next]_vars, UNCHANGED feedVars
  PROVE  /\ Subs' = Subs
         /\ \A c \in Subs : Read(c)' = Read(c)
         /\ \A c : \A i \in Read(c) : i \in DOMAIN stream
         /\ \A i \in DOMAIN stream : stream'[i] = stream[i]
<1>1. pos' = pos /\ Subs' = Subs
  BY DEF feedVars, subVars, Subs
<1>2. \A c \in Subs : pos[c] \in Nat /\ pos[c] <= Len(stream)
  BY DEF DeliveryInv
<1>3. \A c \in Subs : {i \in Wanted(c)' : i <= pos[c]} = {i \in Wanted(c) : i <= pos[c]}
  BY <1>2, WantedGrows
<1>4. \A i \in DOMAIN stream : stream'[i] = stream[i]
  BY StreamGrows
<1> QED
  BY <1>1, <1>3, <1>4 DEF Read, Wanted

\* A delivery makes one message more read, or handles one that was read before.
LEMMA ReadMoves ==
  ASSUME TypeOK, DeliveryInv, UNCHANGED vars, NEW c \in Subs, NEW i \in Wanted(c), Moves(c, i)
  PROVE  /\ Subs' = Subs /\ stream' = stream /\ (\A d : Wanted(d)' = Wanted(d))
         /\ \A d \in Subs \ {c} : Read(d)' = Read(d)
         /\ i \in Nat /\ i \in DOMAIN stream
         /\ \/ Read(c)' = Read(c) \cup {i} /\ \A j \in Read(c) : j \in Nat /\ j < i
            \/ Read(c)' = Read(c) /\ i \in Read(c) /\ i \in unacked[c]
<1>1. /\ DOMAIN pos = Subs /\ pos \in [Subs -> Nat] /\ stream' = stream
      /\ \A d : Wanted(d)' = Wanted(d) /\ Wanted(d) \subseteq Nat
  BY DEF DeliveryInv, Subs, vars, wireVars, Wanted, TypeOK
<1>2. i \in Nat /\ i \in DOMAIN stream
  BY <1>1 DEF Wanted
<1>3. CASE /\ i > pos[c] /\ \A j \in Wanted(c) : j > pos[c] => i <= j
           /\ pos' = [pos EXCEPT ![c] = i]
  <2>1. DOMAIN pos' = Subs /\ pos'[c] = i /\ \A d \in Subs \ {c} : pos'[d] = pos[d]
    BY <1>1, <1>3
  <2>2. \A j \in Wanted(c) : j <= i <=> j <= pos[c] \/ j = i
    <3> SUFFICES ASSUME NEW j \in Wanted(c) PROVE j <= i <=> j <= pos[c] \/ j = i
      OBVIOUS
    <3>1. j \in Nat /\ pos[c] \in Nat
      BY <1>1
    <3> QED
      BY <1>2, <1>3, <3>1
  <2>3. Read(c)' = Read(c) \cup {i}
    BY <1>1, <2>1, <2>2 DEF Read
  <2>4. \A j \in Read(c) : j \in Nat /\ j < i
    <3> SUFFICES ASSUME NEW j \in Read(c) PROVE j \in Nat /\ j < i
      OBVIOUS
    <3>1. j \in Nat /\ pos[c] \in Nat /\ j <= pos[c]
      BY <1>1 DEF Read
    <3> QED
      BY <1>2, <1>3, <3>1
  <2> QED
    BY <1>1, <1>2, <2>1, <2>3, <2>4 DEF Read, Subs
<1>4. CASE i \in unacked[c] /\ i <= pos[c] /\ pos' = pos
  <2>1. Subs' = Subs /\ \A d : Read(d)' = Read(d)
    BY <1>1, <1>4 DEF Read, Subs
  <2> QED
    BY <1>1, <1>2, <1>4, <2>1 DEF Read
<1> QED
  BY <1>3, <1>4 DEF Moves

\* A service that restarts leaves the subscriptions of the other as they are.
LEMMA OthersReadOn ==
  ASSUME DeliveryInv, NEW S \in Services, Restarts(S)
  PROVE  /\ Subs' = Subs /\ stream' = stream /\ (\A c : Wanted(c)' = Wanted(c))
         /\ (InOrder' => InOrder)
         /\ \A c \in Subs \ S : Read(c)' = Read(c) /\ unacked'[c] = unacked[c]
<1>1. stream' = stream /\ \A c : Wanted(c)' = Wanted(c)
  BY RestartShape DEF vars, wireVars, Wanted
<1>2. Subs' = Subs /\ \A c \in Subs \ S : pos'[c] = pos[c] /\ unacked'[c] = unacked[c]
  BY RestartShape DEF Subs
<1>3. \A c \in Subs \ S : Read(c)' = Read(c)
  BY <1>1, <1>2 DEF Read
<1>4. InOrder' => InOrder
  BY RestartShape DEF InOrder
<1> QED
  BY <1>1, <1>2, <1>3, <1>4

\* One that restarts while messages come in order reads everything again.
LEMMA ReadAgain ==
  ASSUME TypeOK, DeliveryInv, NEW S \in Services, Restarts(S), InOrder', NEW c \in S
  PROVE  pos'[c] = 0 /\ Read(c)' = {}
<1>1. PICK f : feedFaults' = feedFaults \cup {f} /\ (f = "resume" \/ RereadFeed(S))
  BY RestartShape
<1>2. f # "resume"
  BY <1>1 DEF InOrder
<1>3. pos'[c] = 0 /\ stream' = stream
  BY <1>1, <1>2, RestartShape DEF vars, wireVars
<1>4. \A k \in Wanted(c)' : k \in Nat \ {0}
  BY <1>3 DEF Wanted, TypeOK
<1> QED
  BY <1>3, <1>4 DEF Read

\* Who handles a delivery, and what it leaves alone.
LEMMA HandleShape ==
  ASSUME NEW c \in AllSubs, NEW i, Handle(c, i)
  PROVE  /\ c = "orders" => ApplyOrderEvent(stream[i]) /\ UNCHANGED walletVars
         /\ c = "trades" => ApplyTradeEvent(stream[i]) /\ UNCHANGED walletVars
         /\ c = "wallet" => Count(i)
<1>1. CASE c = "orders"
  BY <1>1 DEF Handle
<1>2. CASE c = "trades"
  BY <1>2 DEF Handle
<1>3. CASE c = "wallet"
  BY <1>3 DEF Handle
<1> QED
  BY <1>1, <1>2, <1>3

\* A delivery, with all that is known of it.
LEMMA DeliveryDone ==
  ASSUME TypeOK, DeliveryInv, Deliveries
  PROVE  \E c \in Subs, i \in DOMAIN stream :
           /\ c \in AllSubs /\ i \in Wanted(c) /\ Moves(c, i) /\ Handle(c, i)
           /\ stream[i].kind = Subject(c)
           /\ UNCHANGED vars /\ Subs' = Subs
           /\ \A d : Wanted(d)' = Wanted(d)
           /\ \A d \in Subs \ {c} : Read(d)' = Read(d)
           /\ \/ Read(c)' = Read(c) \cup {i} /\ \A j \in Read(c) : j \in Nat /\ j < i
              \/ Read(c)' = Read(c) /\ i \in Read(c) /\ i \in unacked[c]
<1>1. UNCHANGED vars
  BY DeliveryShape
<1>2. PICK c \in Subs : \E i \in Wanted(c) : Handle(c, i) /\ Moves(c, i)
  BY DeliveryShape
<1>3. PICK i \in Wanted(c) : Handle(c, i) /\ Moves(c, i)
  BY <1>2
<1>4. c \in AllSubs
  BY FeedAssumption DEF DeliveryInv
<1>5. i \in DOMAIN stream /\ stream[i].kind = Subject(c)
  BY DEF Wanted
<1> QED
  BY <1>1, <1>3, <1>4, <1>5, ReadMoves

\* The event of the stream at i is what the feed shows of order o.
Shows(o, i) ==
  stream[i].id = o /\ items[o] = [status |-> stream[i].status, rem |-> stream[i].rem]

\* The feed shows of an order an event that was delivered; while messages come in order,
\* the last one that was.
ItemsInv ==
  /\ items \in [OrderId -> Item]
  /\ \A o \in OrderId : items[o] # NoItem =>
       "orders" \in Subs /\ \E i \in Read("orders") : Shows(o, i)
  /\ InOrder /\ "orders" \in Subs =>
       \A o \in OrderId :
         \/ items[o] = NoItem /\ \A i \in Read("orders") : stream[i].id # o
         \/ \E i \in Read("orders") :
              Shows(o, i) /\ \A j \in Read("orders") : j > i => stream[j].id # o

\* Every step keeps of which event the view's orders are.
LEMMA ItemsStep ==
  ASSUME TypeOK, DeliveryInv, DeliveryInv', ItemsInv, [MarketNext]_marketVars
  PROVE  ItemsInv'
<1>1. items \in [OrderId -> Item]
  BY DEF ItemsInv
<1>2. CASE UNCHANGED feedVars
  <2>1. [Next]_vars
    BY MarketStepIsStep
  <2>2. /\ Subs' = Subs /\ (\A c \in Subs : Read(c)' = Read(c))
        /\ (\A c : \A i \in Read(c) : i \in DOMAIN stream)
        /\ \A i \in DOMAIN stream : stream'[i] = stream[i]
    BY <1>2, <2>1, ReadUnchanged
  <2>3. items' = items /\ feedFaults' = feedFaults
    BY <1>2 DEF feedVars, viewVars, feedFaultVars
  <2>4. "orders" \in Subs => Read("orders")' = Read("orders") /\
          \A i \in Read("orders") : stream'[i] = stream[i]
    BY <2>2
  <2>5. \A o \in OrderId : items[o] # NoItem =>
          "orders" \in Subs /\ \E i \in Read("orders")' : Shows(o, i)'
    BY <2>3, <2>4 DEF ItemsInv, Shows
  <2>6. InOrder /\ "orders" \in Subs =>
          \A o \in OrderId :
            \/ items'[o] = NoItem /\ \A i \in Read("orders")' : stream'[i].id # o
            \/ \E i \in Read("orders")' :
                 Shows(o, i)' /\ \A j \in Read("orders")' : j > i => stream'[j].id # o
    BY <2>3, <2>4 DEF ItemsInv, Shows
  <2> QED
    BY <1>1, <2>2, <2>3, <2>5, <2>6 DEF ItemsInv, InOrder
<1>3. CASE Deliveries
  <2>1. PICK c \in Subs, i \in DOMAIN stream :
           /\ c \in AllSubs /\ i \in Wanted(c) /\ Moves(c, i) /\ Handle(c, i)
           /\ stream[i].kind = Subject(c)
           /\ UNCHANGED vars /\ Subs' = Subs
           /\ \A d : Wanted(d)' = Wanted(d)
           /\ \A d \in Subs \ {c} : Read(d)' = Read(d)
           /\ \/ Read(c)' = Read(c) \cup {i} /\ \A j \in Read(c) : j \in Nat /\ j < i
              \/ Read(c)' = Read(c) /\ i \in Read(c) /\ i \in unacked[c]
    BY <1>3, DeliveryDone
  <2>2. stream' = stream /\ (InOrder' => InOrder) /\ (InOrder => i \notin unacked[c])
    BY <2>1 DEF vars, wireVars, Moves, InOrder, FeedFault, DeliveryInv, feedFaultVars
  <2>3. CASE c # "orders"
    <3> PICK e : e = stream[i]
      OBVIOUS
    <3>1. items' = items
      BY <2>1, <2>3, HandleShape DEF ApplyTradeEvent, Count, viewVars, AllSubs,
         MarketSubs, WalletSubs
    <3>2. "orders" \in Subs => Read("orders")' = Read("orders")
      BY <2>1, <2>3
    <3>3. \A o \in OrderId : items'[o] # NoItem =>
            "orders" \in Subs /\ \E k \in Read("orders")' : Shows(o, k)'
      BY <2>2, <3>1, <3>2 DEF ItemsInv, Shows
    <3>4. InOrder /\ "orders" \in Subs =>
          \A o \in OrderId :
            \/ items'[o] = NoItem /\ \A k \in Read("orders")' : stream'[k].id # o
            \/ \E k \in Read("orders")' :
                 Shows(o, k)' /\ \A j \in Read("orders")' : j > k => stream'[j].id # o
      BY <2>2, <3>1, <3>2 DEF ItemsInv, Shows
    <3> HIDE DEF InOrder
    <3> QED
      BY <1>1, <2>1, <2>2, <3>1, <3>3, <3>4 DEF ItemsInv
  <2>4. CASE c = "orders"
    <3> PICK e : e = stream[i]
      OBVIOUS
    <3>1. /\ e.id \in OrderId /\ e.rem \in Nat /\ e.status \in Statuses
      BY <2>1, <2>4, EventFields DEF Subject
    <3>2. items' = [items EXCEPT ![e.id] = [status |-> e.status, rem |-> e.rem]]
      BY <2>1, <2>4, HandleShape DEF ApplyOrderEvent
    <3>3. items' \in [OrderId -> Item]
      BY <1>1, <3>1, <3>2 DEF Item
    <3>4. i \in Read("orders")' /\ Read("orders") \subseteq Read("orders")' /\ Shows(e.id, i)'
      BY <1>1, <2>1, <2>2, <2>4, <3>1, <3>2 DEF Shows
    <3>5. \A o \in OrderId \ {e.id} : items'[o] = items[o]
      BY <1>1, <3>2
    <3>6. \A o \in OrderId \ {e.id} : \A k : Shows(o, k) => Shows(o, k)'
      BY <2>2, <3>5 DEF Shows
    <3>7. \A o \in OrderId : items'[o] # NoItem => \E k \in Read("orders")' : Shows(o, k)'
      BY <3>4, <3>5, <3>6 DEF ItemsInv
    <3>8. ASSUME InOrder', NEW o \in OrderId
          PROVE  \/ items'[o] = NoItem /\ \A k \in Read("orders")' : stream'[k].id # o
                 \/ \E k \in Read("orders")' :
                      Shows(o, k)' /\ \A j \in Read("orders")' : j > k => stream'[j].id # o
      <4>1. Read("orders")' = Read("orders") \cup {i} /\ \A j \in Read("orders") : j \in Nat /\ j < i
        BY <2>1, <2>2, <2>4, <3>8
      <4>2. CASE o = e.id
        <5>1. \A j \in Read("orders")' : ~ (j > i)
          <6>1. i \in Nat
            BY <2>1 DEF TypeOK
          <6> QED
            BY <4>1, <6>1
        <5> QED
          BY <3>4, <4>2, <5>1
      <4>3. CASE o # e.id
        <5>1. \A j \in Read("orders")' : j \notin Read("orders") => stream'[j].id # o
          BY <2>2, <4>1, <4>3
        <5>2. \/ items[o] = NoItem /\ \A k \in Read("orders") : stream[k].id # o
              \/ \E k \in Read("orders") :
                   Shows(o, k) /\ \A j \in Read("orders") : j > k => stream[j].id # o
          BY <2>2, <2>4, <3>8 DEF ItemsInv
        <5> QED
          BY <2>2, <3>4, <3>5, <3>6, <4>3, <5>1, <5>2
      <4> QED
        BY <4>2, <4>3
    <3> HIDE DEF InOrder
    <3> QED
      BY <2>1, <2>4, <3>3, <3>7, <3>8 DEF ItemsInv
  <2> QED
    BY <2>3, <2>4
<1>4. CASE Restarts(MarketSubs)
  <2>1. \A o \in OrderId : items'[o] = NoItem
    BY <1>4, RestartOfMarket DEF EmptyView
  <2>2. items' \in [OrderId -> Item]
    BY <1>4, RestartOfMarket DEF EmptyView, NoItem, Item
  <2>3. InOrder' /\ "orders" \in Subs' => Read("orders")' = {}
    BY <1>4, ReadAgain DEF Services, MarketSubs
  <2> HIDE DEF InOrder
  <2> QED
    BY <2>1, <2>2, <2>3 DEF ItemsInv
<1>5. CASE Restarts(WalletSubs)
  <2>1. items' = items
    BY <1>5, RestartOfWallet DEF viewVars
  <2>2. /\ Subs' = Subs /\ stream' = stream /\ (InOrder' => InOrder)
        /\ "orders" \in Subs => Read("orders")' = Read("orders")
    BY <1>5, OthersReadOn DEF Services, WalletSubs
  <2> HIDE DEF InOrder
  <2> QED
    BY <2>1, <2>2 DEF ItemsInv, Shows
<1> QED
  BY <1>2, <1>3, <1>4, <1>5 DEF MarketNext, marketVars, Restarts, Services

\* The view shows of an order an event that was delivered, the last one while in order.
THEOREM ItemsInvariant == MarketSpec => []ItemsInv
<1>1. MarketInit => ItemsInv
  <2> SUFFICES ASSUME MarketInit PROVE ItemsInv
    OBVIOUS
  <2>1. items = [o \in OrderId |-> NoItem] /\ stream = <<>>
    BY DEF MarketInit, FeedInit, Init
  <2>2. items \in [OrderId -> Item] /\ \A o \in OrderId : items[o] = NoItem
    BY <2>1 DEF NoItem, Item
  <2>3. Read("orders") = {}
    BY <2>1 DEF Read, Wanted
  <2> QED
    BY <2>2, <2>3 DEF ItemsInv
<1>2. TypeOK /\ DeliveryInv /\ DeliveryInv' /\ ItemsInv /\ [MarketNext]_marketVars => ItemsInv'
  BY ItemsStep
<1> QED
  BY <1>1, <1>2, MarketRunsRuntime, TypeCorrect, DeliveryInvariant, PTL DEF MarketSpec

\* A new message never takes an order back: the stream tells its life in order.
LEMMA OnlyAgainGoesBack ==
  ASSUME TypeOK, StreamInv, DeliveryInv, ItemsInv, [MarketNext]_marketVars,
         NEW o \in OrderId, GoesBack(o)
  PROVE  \E c \in Subs : \E i \in unacked[c] :
           /\ IsEventOf(stream[i], o)
           /\ items'[o] = [status |-> stream[i].status, rem |-> stream[i].rem]
<1>1. CASE UNCHANGED feedVars
  <2>1. items' = items
    BY <1>1 DEF feedVars, viewVars
  <2>2. items[o].rem \in Nat
    BY DEF ItemsInv, Item
  <2> QED
    BY <2>1, <2>2 DEF GoesBack
<1>2. CASE Deliveries
  <2>1. PICK c \in Subs, i \in DOMAIN stream :
           /\ c \in AllSubs /\ i \in Wanted(c) /\ Moves(c, i) /\ Handle(c, i)
           /\ stream[i].kind = Subject(c)
           /\ \/ \A j \in Read(c) : j \in Nat /\ j < i
              \/ i \in unacked[c] /\ i \in Read(c)
    BY <1>2, DeliveryDone
  <2> PICK e : e = stream[i]
    OBVIOUS
  <2>4. items \in [OrderId -> Item] /\ items[o].rem \in Nat /\ items'[o] # items[o]
    <3>1. items[o].rem \in Nat /\ items \in [OrderId -> Item]
      BY DEF ItemsInv, Item
    <3> QED
      BY <3>1 DEF GoesBack
  <2>5. c = "orders"
    <3>1. c # "orders" => items' = items
      BY <2>1, HandleShape
         DEF ApplyTradeEvent, Count, viewVars, AllSubs, MarketSubs, WalletSubs
    <3> QED
      BY <2>4, <3>1
  <2>6. /\ e.kind = "order" /\ e.id \in OrderId /\ e.rem \in Nat /\ e.status \in Statuses
    BY <2>1, <2>5, EventFields DEF Subject
  <2>7. items' = [items EXCEPT ![e.id] = [status |-> e.status, rem |-> e.rem]]
    BY <2>1, <2>5, HandleShape DEF ApplyOrderEvent
  <2>8. o = e.id /\ items'[o] = [status |-> e.status, rem |-> e.rem]
    BY <2>4, <2>6, <2>7
  <2>2. CASE i \in unacked[c] /\ i \in Read(c)
    BY <2>2, <2>6, <2>8 DEF IsEventOf
  <2>3. CASE \A j \in Read(c) : j \in Nat /\ j < i
    <3>1. PICK k \in Read("orders") : Shows(o, k)
      BY DEF GoesBack, ItemsInv
    <3>2. k \in DOMAIN stream /\ k < i /\ stream[k].kind = "order" /\ stream[k].id = o
      BY <2>3, <2>5, <3>1 DEF Read, Wanted, Subject, Shows
    <3>3. MayFollow(stream[k], e)
      BY <2>1, <3>2 DEF StreamInv, InSequence
    <3>4. e.rem <= stream[k].rem /\ stream[k].status \notin Terminal
      BY <2>6, <2>8, <3>2, <3>3 DEF MayFollow, IsEventOf
    <3>5. items[o].rem = stream[k].rem /\ items[o].status = stream[k].status
      BY <3>1 DEF Shows
    <3>6. stream[k].rem \in Nat
      BY <2>4, <3>5
    <3> QED
      BY <2>6, <2>8, <3>4, <3>5, <3>6 DEF GoesBack, Terminal
  <2> QED
    BY <2>1, <2>2, <2>3
<1>3. CASE Restarts(MarketSubs)
  BY <1>3, RestartOfMarket DEF EmptyView, GoesBack
<1>4. CASE Restarts(WalletSubs)
  <2>1. items' = items
    BY <1>4, RestartOfWallet DEF viewVars
  <2>2. items[o].rem \in Nat
    BY DEF ItemsInv, Item
  <2> QED
    BY <2>1, <2>2 DEF GoesBack
<1> QED
  BY <1>1, <1>2, <1>3, <1>4 DEF MarketNext, marketVars, Restarts, Services

\* Only a message that was never acked and comes again takes an order of the feed back, to
\* what that message says: no restart does, nor reading the stream once more, however
\* often acks are lost and services restart.
THEOREM OnlyRedelivery == MarketSpec => OnlyRedeliveryGoesBack
<1>1. TypeOK /\ StreamInv /\ DeliveryInv /\ ItemsInv /\ [MarketNext]_marketVars =>
        [\A o \in OrderId : GoesBack(o) =>
           \E c \in Subs : \E i \in unacked[c] :
             /\ IsEventOf(stream[i], o)
             /\ items'[o] = [status |-> stream[i].status, rem |-> stream[i].rem]]_items
  BY OnlyAgainGoesBack
<1> QED
  BY <1>1, MarketRunsRuntime, TypeCorrect, StreamInvariant, DeliveryInvariant,
     ItemsInvariant, PTL
     DEF MarketSpec, OnlyRedeliveryGoesBack

----------------------------------------------------------------------------
(* Depth *)

\* What the feed counts of each order, what the table has of it, and who is at a price.
Active == [o \in OrderId |-> ActiveRem(items[o])]
InTable == [o \in OrderId |-> TableRem(o)]
At(side, p) == {o \in OrderId : rows[o].side = side /\ rows[o].price = p}

\* There are finitely many orders at a price.
LEMMA AtIsFinite ==
  ASSUME NEW side, NEW p PROVE IsFiniteSet(At(side, p)) /\ At(side, p) \subseteq OrderId
<1>1. IsFiniteSet(OrderId)
  BY RuntimeAssumption, FS_Interval DEF OrderId
<1> QED
  BY <1>1, FS_Subset DEF At

\* What counts of an order is a number.
LEMMA ActiveType ==
  ASSUME items \in [OrderId -> Item] PROVE Active \in [OrderId -> Nat]
BY DEF Active, ActiveRem, Item

\* The depth of the view's orders, as a sum in the sense of DataLemmas.
LEMMA DepthOfItems ==
  ASSUME items \in [OrderId -> Item], NEW side, NEW p
  PROVE  DepthOf(side, p, LAMBDA o : ActiveRem(items[o])) = Sum(Active, At(side, p))
<1> DEFINE S == At(side, p)
           g == CHOOSE h : h = [s \in SUBSET S |->
                  IF s = {} THEN 0
                  ELSE ActiveRem(items[CHOOSE o \in s : TRUE]) + h[s \ {CHOOSE o \in s : TRUE}]]
<1>1. DepthOf(side, p, LAMBDA o : ActiveRem(items[o])) = g[S]
  BY DEF DepthOf, MapThenSumSet, MapThenFoldSet, At
<1>2. IsFiniteSet(S) /\ S \subseteq OrderId
  BY AtIsFinite
<1>3. \A o \in S : Active[o] \in Nat /\ Active[o] = ActiveRem(items[o])
  BY <1>2, ActiveType DEF Active
<1> HIDE DEF S
<1>4. PICK h : SumsOver(Active, h, S)
  BY <1>2, <1>3, SumsExist
<1>5. \A s \in SUBSET S : s # {} => Active[CHOOSE o \in s : TRUE] = ActiveRem(items[CHOOSE o \in s : TRUE])
  BY <1>3, OneOf
<1>6. h = [s \in SUBSET S |->
                  IF s = {} THEN 0
                  ELSE ActiveRem(items[CHOOSE o \in s : TRUE]) + h[s \ {CHOOSE o \in s : TRUE}]]
  BY <1>4, <1>5 DEF SumsOver, Turn
<1>7. g = [s \in SUBSET S |->
                  IF s = {} THEN 0
                  ELSE ActiveRem(items[CHOOSE o \in s : TRUE]) + g[s \ {CHOOSE o \in s : TRUE}]]
  BY <1>6
<1> HIDE DEF g
<1>8. \A s \in SUBSET S : g[s] = Turn(Active, g, s)
  BY <1>5, <1>7 DEF Turn
<1> QED
  BY <1>1, <1>2, <1>3, <1>8, SumOf DEF S

\* The depth of the table's orders, likewise.
LEMMA DepthOfTable ==
  ASSUME TypeOK, NEW side, NEW p
  PROVE  DepthOf(side, p, TableRem) = Sum(InTable, At(side, p))
<1> DEFINE S == At(side, p)
           g == CHOOSE h : h = [s \in SUBSET S |->
                  IF s = {} THEN 0
                  ELSE TableRem(CHOOSE o \in s : TRUE) + h[s \ {CHOOSE o \in s : TRUE}]]
<1>1. DepthOf(side, p, TableRem) = g[S]
  BY DEF DepthOf, MapThenSumSet, MapThenFoldSet, At
<1>2. IsFiniteSet(S) /\ S \subseteq OrderId
  BY AtIsFinite
<1>3. \A o \in S : InTable[o] \in Nat /\ InTable[o] = TableRem(o)
  <2>1. \A o \in OrderId : rows[o].rem \in Nat
    BY DEF TypeOK, Row
  <2> QED
    BY <1>2, <2>1 DEF InTable, TableRem
<1> HIDE DEF S
<1>4. PICK h : SumsOver(InTable, h, S)
  BY <1>2, <1>3, SumsExist
<1>5. \A s \in SUBSET S : s # {} => InTable[CHOOSE o \in s : TRUE] = TableRem(CHOOSE o \in s : TRUE)
  BY <1>3, OneOf
<1>6. h = [s \in SUBSET S |->
                  IF s = {} THEN 0
                  ELSE TableRem(CHOOSE o \in s : TRUE) + h[s \ {CHOOSE o \in s : TRUE}]]
  BY <1>4, <1>5 DEF SumsOver, Turn
<1>7. g = [s \in SUBSET S |->
                  IF s = {} THEN 0
                  ELSE TableRem(CHOOSE o \in s : TRUE) + g[s \ {CHOOSE o \in s : TRUE}]]
  BY <1>6
<1> HIDE DEF g
<1>8. \A s \in SUBSET S : g[s] = Turn(InTable, g, s)
  BY <1>5, <1>7 DEF Turn
<1> QED
  BY <1>1, <1>2, <1>3, <1>8, SumOf DEF S

\* A side's depth is at every price the sum of f over the orders there.
DepthIs(depth, f, side) ==
  depth \in [Prices -> Nat] /\ \A p \in Prices : depth[p] = Sum(f, At(side, p))

\* The sum over the orders the feed knows.
DepthInv == DepthIs(bids, Active, "buy") /\ DepthIs(asks, Active, "sell")

\* f and h tell the same of every order but x.
SameBut(x, f, h) == \A o \in OrderId \ {x} : h[o] = f[o]

\* Side and price of a row never change.
LEMMA RowsStayPut ==
  ASSUME RuntimeInv, [Next]_vars, NEW o \in OrderId, o # created + 1
  PROVE  rows'[o].side = rows[o].side /\ rows'[o].price = rows[o].price
<1>1. rows \in [OrderId -> Row] /\ rows[o] \in Row
  BY DEF RuntimeInv, TypeOK
<1>2. ASSUME NEW s \in Sides, NEW p \in Prices, NEW q \in Quantities, SubmitOrder(s, p, q)
      PROVE  rows'[o] = rows[o]
  BY <1>1, <1>2 DEF SubmitOrder, Insert
<1>3. CASE \/ PersistMatchResult \/ PersistLater \/ PersistFails \/ Landings
           \/ CancelOrder \/ CancelFails \/ \E c \in OrderId : ReadForCancel(c)
  BY <1>3, RowsKeepTerms
<1>5. CASE UNCHANGED vars \/ PublishEvent \/ MatchStep \/ MatchDone
  BY <1>5 DEF vars, storeVars, PublishEvent, MatchStep, MatchDone
<1>6. CASE AnswerSubmit \/ CancelInBook \/ AnswerCancel \/ RecoverBook
  BY <1>6 DEF storeVars, AnswerSubmit, CancelInBook, AnswerCancel, RecoverBook
<1>7. CASE FailClosed \/ Crash \/ Restart
  BY <1>7 DEF storeVars, FailClosed, Crash, Restart
<1> QED
  BY <1>2, <1>3, <1>5, <1>6, <1>7 DEF Next, Requests, Work

\* What is known of order x changes from f[x] to h[x].
LEMMA MovedIsSum ==
  ASSUME TypeOK, NEW side, NEW x \in OrderId,
         NEW f \in [OrderId -> Nat], NEW h \in [OrderId -> Nat], SameBut(x, f, h),
         NEW depth, DepthIs(depth, f, side),
         NEW d,
         d = IF rows[x].side = side THEN Moved(depth, rows[x].price, f[x], h[x]) ELSE depth
  PROVE  DepthIs(d, h, side)
<1>1. /\ depth \in [Prices -> Nat] /\ \A p \in Prices : depth[p] = Sum(f, At(side, p))
      /\ \A o \in OrderId \ {x} : h[o] = f[o]
  BY DEF DepthIs, SameBut
<1>2. ASSUME NEW p \in Prices
      PROVE  /\ IsFiniteSet(At(side, p)) /\ \A o \in At(side, p) : f[o] \in Nat /\ h[o] \in Nat
             /\ Sum(f, At(side, p)) = depth[p] /\ depth[p] \in Nat
  <2>1. IsFiniteSet(At(side, p)) /\ At(side, p) \subseteq OrderId
    BY AtIsFinite
  <2> QED
    BY <1>1, <2>1
<1>3. ASSUME NEW p \in Prices, x \notin At(side, p)
      PROVE  d[p] = depth[p] /\ Sum(h, At(side, p)) = depth[p]
  <2>1. \A o \in At(side, p) : o \in OrderId /\ h[o] = f[o]
    BY <1>1, <1>3 DEF At
  <2>2. \A o \in At(side, p) : h[o] = f[o]
    BY <2>1
  <2>3. IsFiniteSet(At(side, p)) /\ (\A o \in At(side, p) : f[o] \in Nat)
        /\ Sum(f, At(side, p)) = depth[p]
    BY <1>2
  <2>4. Sum(h, At(side, p)) = Sum(f, At(side, p))
    BY <2>2, <2>3, SumSame
  <2>5. rows[x].side # side \/ rows[x].price # p
    BY <1>3 DEF At
  <2>6. d[p] = depth[p]
    BY <2>5 DEF Moved
  <2> QED
    BY <2>3, <2>4, <2>6
<1>4. ASSUME NEW p \in Prices, x \in At(side, p)
      PROVE  d[p] = Sum(h, At(side, p)) /\ d \in [Prices -> Nat]
  <2>1. rows[x].side = side /\ rows[x].price = p /\ f[x] \in Nat /\ h[x] \in Nat
    BY <1>4 DEF At
  <2>2. /\ IsFiniteSet(At(side, p)) /\ (\A o \in At(side, p) : f[o] \in Nat /\ h[o] \in Nat)
        /\ Sum(f, At(side, p)) = depth[p] /\ depth[p] \in Nat
    BY <1>2
  <2>3. \A o \in At(side, p) \ {x} : h[o] = f[o]
    BY <1>1 DEF At
  <2>4. Sum(h, At(side, p)) + f[x] = depth[p] + h[x]
    BY <1>4, <2>2, <2>3, SumChanged
  <2>5. Sum(f, At(side, p)) = f[x] + Sum(f, At(side, p) \ {x}) /\ Sum(f, At(side, p) \ {x}) \in Nat
    <3>1. \A o \in At(side, p) : f[o] \in Nat
      BY <2>2
    <3>2. IsFiniteSet(At(side, p) \ {x}) /\ \A o \in At(side, p) \ {x} : f[o] \in Nat
      BY <2>2, FS_Subset
    <3> QED
      BY <1>4, <2>2, <3>1, <3>2, SumWithout, SumType
  <2>6. Sum(h, At(side, p)) \in Nat
    <3>1. \A o \in At(side, p) : h[o] \in Nat
      BY <2>2
    <3> QED
      BY <2>2, <3>1, SumType
  <2>7. d = [depth EXCEPT ![p] = (IF depth[p] > f[x] THEN depth[p] - f[x] ELSE 0) + h[x]]
    BY <2>1 DEF Moved
  <2>8. (IF depth[p] > f[x] THEN depth[p] - f[x] ELSE 0) + h[x] = Sum(h, At(side, p))
    BY <2>1, <2>2, <2>4, <2>5, <2>6
  <2> QED
    BY <1>1, <2>6, <2>7, <2>8
<1>5. d \in [Prices -> Nat]
  <2>1. CASE \E p \in Prices : x \in At(side, p)
    BY <1>4, <2>1
  <2>2. CASE \A p \in Prices : x \notin At(side, p)
    <3>1. rows[x].side # side \/ rows[x].price \notin Prices
      BY <2>2 DEF At
    <3>2. d = depth
      BY <1>1, <3>1 DEF Moved
    <3> QED
      BY <1>1, <3>2
  <2> QED
    BY <2>1, <2>2
<1> QED
  BY <1>3, <1>4, <1>5 DEF DepthIs

\* Rows appear, with nothing known of them, and never move: the sums stay.
LEMMA TableKeepsDepth ==
  ASSUME RuntimeInv, StreamInv, DeliveryInv, ItemsInv, [Next]_vars, items' = items,
         NEW side, NEW p
  PROVE  Active' = Active /\ Sum(Active, At(side, p))' = Sum(Active, At(side, p))
<1> DEFINE x == created + 1
<1>1. items \in [OrderId -> Item] /\ Active \in [OrderId -> Nat]
  BY ActiveType DEF ItemsInv
<1>2. Active' = Active
  BY DEF Active, ActiveRem
<1>3. IsFiniteSet(At(side, p)) /\ At(side, p) \subseteq OrderId
  BY AtIsFinite
<1>4. At(side, p)' \subseteq OrderId /\ IsFiniteSet(At(side, p)')
  <2>1. At(side, p)' \subseteq OrderId
    BY DEF At
  <2>2. IsFiniteSet(OrderId)
    BY RuntimeAssumption, FS_Interval DEF OrderId
  <2> QED
    BY <2>1, <2>2, FS_Subset
<1>5. At(side, p)' \ {x} = At(side, p) \ {x}
  <2>1. \A o \in OrderId : o # x => rows'[o].side = rows[o].side /\ rows'[o].price = rows[o].price
    BY RowsStayPut
  <2> HIDE DEF x
  <2> QED
    BY <2>1 DEF At
<1>6. created \in Nat
  BY DEF RuntimeInv, TypeOK
<1>7. x \in OrderId => Active[x] = 0
  <2>1. ASSUME x \in OrderId, items[x] # NoItem PROVE FALSE
    <3>1. PICK i \in Read("orders") : Shows(x, i)
      BY <2>1 DEF ItemsInv
    <3>2. i \in DOMAIN stream /\ stream[i].kind = "order" /\ stream[i].id = x
      BY <3>1 DEF Read, Wanted, Subject, Shows
    <3>3. x <= created
      BY <3>2 DEF StreamInv, AllStillTrue, StillTrue, OrderStillTrue
    <3> QED
      BY <1>6, <3>3
  <2>2. x \in OrderId => Active[x] = ActiveRem(items[x])
    BY DEF Active
  <2>3. ActiveRem(NoItem) = 0
    BY DEF ActiveRem, NoItem, Restable
  <2> QED
    BY <2>1, <2>2, <2>3
<1> HIDE DEF x
<1>8. Sum(Active, At(side, p)') = Sum(Active, At(side, p))
  <2> DEFINE f == Active
             S == At(side, p)'
             T == At(side, p)
  <2>1. /\ IsFiniteSet(S) /\ IsFiniteSet(T) /\ S \subseteq OrderId /\ T \subseteq OrderId
        /\ f \in [OrderId -> Nat] /\ S \ {x} = T \ {x} /\ (x \in OrderId => f[x] = 0)
    BY <1>1, <1>3, <1>4, <1>5, <1>7
  <2> HIDE DEF f, S, T
  <2>2. CASE x \in OrderId
    <3>1. f[x] = 0 /\ (\A y \in S : f[y] \in Nat) /\ (\A y \in T : f[y] \in Nat)
      BY <2>1, <2>2
    <3>2. Sum(f, S) = Sum(f, S \ {x})
      BY <2>1, <3>1, SumWithoutZero
    <3>3. Sum(f, T) = Sum(f, T \ {x})
      BY <2>1, <3>1, SumWithoutZero
    <3> QED
      BY <2>1, <3>2, <3>3 DEF f, S, T
  <2>3. CASE x \notin OrderId
    <3>1. S = T
      BY <2>1, <2>3
    <3> QED
      BY <3>1 DEF f, S, T
  <2> QED
    BY <2>2, <2>3
<1> QED
  BY <1>2, <1>8

\* An order event takes out what was known of the order and puts in what is known now.
LEMMA OrderEventKeepsDepth ==
  ASSUME TypeOK, DepthInv, items \in [OrderId -> Item], UNCHANGED vars,
         NEW e, e.id \in OrderId, e.rem \in Nat, e.status \in Statuses, ApplyOrderEvent(e)
  PROVE  DepthInv'
<1> DEFINE f == Active
           h == Active'
           x == e.id
<1>1. items' = [items EXCEPT ![x] = [status |-> e.status, rem |-> e.rem]]
  BY DEF ApplyOrderEvent
<1>2. items' \in [OrderId -> Item]
  BY <1>1 DEF Item
<1>3. f \in [OrderId -> Nat] /\ h \in [OrderId -> Nat]
  BY <1>2 DEF Active, ActiveRem, Item
<1>4. /\ \A o \in OrderId \ {x} : h[o] = f[o]
      /\ f[x] = ActiveRem(items[x])
      /\ h[x] = ActiveRem([status |-> e.status, rem |-> e.rem])
  BY <1>1 DEF Active
<1>5. \A side, p : At(side, p)' = At(side, p)
  BY DEF At, vars, storeVars
<1>6. rows[x].side \in {"buy", "sell"}
  BY DEF TypeOK, Row, Sides
<1>7. /\ bids' = IF rows[x].side = "buy" THEN Moved(bids, rows[x].price, f[x], h[x]) ELSE bids
      /\ asks' = IF rows[x].side = "sell" THEN Moved(asks, rows[x].price, f[x], h[x]) ELSE asks
  BY <1>4, <1>6 DEF ApplyOrderEvent, Depth
<1>8. x \in OrderId
  OBVIOUS
<1> PICK F : F = f
  OBVIOUS
<1> PICK H : H = h
  OBVIOUS
<1> PICK D : D = bids'
  OBVIOUS
<1> PICK E : E = asks'
  OBVIOUS
<1>9. F \in [OrderId -> Nat] /\ H \in [OrderId -> Nat]
  BY <1>3
<1>10. SameBut(x, F, H)
  BY <1>4 DEF SameBut
<1>11. DepthIs(bids, F, "buy") /\ DepthIs(asks, F, "sell")
  BY DEF DepthInv
<1>12. D = IF rows[x].side = "buy" THEN Moved(bids, rows[x].price, F[x], H[x]) ELSE bids
  BY <1>7
<1>13. E = IF rows[x].side = "sell" THEN Moved(asks, rows[x].price, F[x], H[x]) ELSE asks
  BY <1>7
<1> HIDE DEF f, h, x
<1>14. DepthIs(D, H, "buy")
  BY <1>8, <1>9, <1>10, <1>11, <1>12, MovedIsSum
<1>15. DepthIs(E, H, "sell")
  BY <1>8, <1>9, <1>10, <1>11, <1>13, MovedIsSum
<1> QED
  BY <1>5, <1>14, <1>15 DEF DepthInv, DepthIs, h

\* Every step keeps the depth the sum.
LEMMA DepthStep ==
  ASSUME RuntimeInv, StreamInv, DeliveryInv, ItemsInv, DepthInv, [MarketNext]_marketVars
  PROVE  DepthInv'
<1>0. TypeOK
  BY DEF RuntimeInv
<1>1. items \in [OrderId -> Item]
  BY DEF ItemsInv
<1>2. CASE UNCHANGED feedVars
  <2>1. [Next]_vars
    BY MarketStepIsStep
  <2>2. items' = items /\ bids' = bids /\ asks' = asks
    BY <1>2 DEF feedVars, viewVars
  <2>3. ASSUME NEW side, NEW p
        PROVE  Sum(Active, At(side, p))' = Sum(Active, At(side, p))
    BY <2>1, <2>2, TableKeepsDepth
  <2> QED
    BY <2>2, <2>3 DEF DepthInv, DepthIs
<1>3. CASE Deliveries
  <2>1. PICK c \in Subs, i \in DOMAIN stream :
           /\ c \in AllSubs /\ Handle(c, i)
           /\ stream[i].kind = Subject(c)
           /\ UNCHANGED vars
    BY <1>0, <1>3, DeliveryDone
  <2> PICK e : e = stream[i]
    OBVIOUS
  <2>2. CASE c = "orders"
    <3>1. e.id \in OrderId /\ e.rem \in Nat /\ e.status \in Statuses
      BY <1>0, <2>1, <2>2, EventFields DEF Subject
    <3>2. ApplyOrderEvent(e)
      BY <2>1, <2>2, HandleShape
    <3> QED
      BY <1>0, <1>1, <2>1, <3>1, <3>2, OrderEventKeepsDepth
  <2>3. CASE c # "orders"
    <3>1. items' = items /\ bids' = bids /\ asks' = asks
      BY <2>1, <2>3, HandleShape
         DEF ApplyTradeEvent, Count, viewVars, AllSubs, MarketSubs, WalletSubs
    <3>2. rows' = rows
      BY <2>1 DEF vars, storeVars
    <3> QED
      BY <3>1, <3>2 DEF DepthInv, DepthIs, Active, ActiveRem, At
  <2> QED
    BY <2>2, <2>3
<1>4. CASE Restarts(MarketSubs)
  <2>1. /\ items' = [o \in OrderId |-> NoItem]
        /\ bids' = [p \in Prices |-> 0] /\ asks' = [p \in Prices |-> 0]
        /\ rows' = rows
    BY <1>4, RestartOfMarket, RestartShape DEF EmptyView, vars, storeVars, Services
  <2>2. \A o \in OrderId : Active'[o] = 0
    BY <2>1 DEF Active, ActiveRem, NoItem, Restable
  <2>3. ASSUME NEW side, NEW p PROVE Sum(Active', At(side, p)') = 0
    <3>1. At(side, p)' = At(side, p)
      BY <2>1 DEF At
    <3>2. IsFiniteSet(At(side, p)) /\ At(side, p) \subseteq OrderId
      BY AtIsFinite
    <3>3. \A o \in At(side, p) : Active'[o] = 0
      BY <2>2, <3>2
    <3> QED
      BY <3>1, <3>2, <3>3, SumOfZeros
  <2> QED
    BY <2>1, <2>3 DEF DepthInv, DepthIs
<1>5. CASE Restarts(WalletSubs)
  <2>1. items' = items /\ bids' = bids /\ asks' = asks
    BY <1>5, RestartOfWallet DEF viewVars
  <2>2. rows' = rows
    BY <1>5, RestartShape DEF vars, storeVars, Services
  <2> QED
    BY <2>1, <2>2 DEF DepthInv, DepthIs, Active, ActiveRem, At
<1> QED
  BY <1>2, <1>3, <1>4, <1>5 DEF MarketNext, marketVars, Restarts, Services

\* The depth kept incrementally is the sum over the orders the feed knows, whatever comes
\* twice, late or again.
THEOREM DepthInvariant == MarketSpec => []DepthInv
<1>1. MarketInit => DepthInv
  <2> SUFFICES ASSUME MarketInit PROVE DepthInv
    OBVIOUS
  <2>1. /\ items = [o \in OrderId |-> NoItem]
        /\ bids = [p \in Prices |-> 0] /\ asks = [p \in Prices |-> 0]
    BY DEF MarketInit, FeedInit
  <2>2. \A o \in OrderId : Active[o] = 0
    BY <2>1 DEF Active, ActiveRem, NoItem, Restable
  <2>3. ASSUME NEW side, NEW p PROVE Sum(Active, At(side, p)) = 0
    <3>1. IsFiniteSet(At(side, p)) /\ At(side, p) \subseteq OrderId
      BY AtIsFinite
    <3>2. \A o \in At(side, p) : Active[o] = 0
      BY <2>2, <3>1
    <3> QED
      BY <3>1, <3>2, SumOfZeros
  <2> QED
    BY <2>1, <2>3 DEF DepthInv, DepthIs
<1>2. RuntimeInv /\ StreamInv /\ DeliveryInv /\ ItemsInv /\ DepthInv /\ [MarketNext]_marketVars => DepthInv'
  BY DepthStep
<1> QED
  BY <1>1, <1>2, MarketRunsRuntime, RuntimeInvariant, StreamInvariant, DeliveryInvariant,
     ItemsInvariant,
     PTL DEF MarketSpec

----------------------------------------------------------------------------
(* The trades *)

\* One more in front, of which the first n are kept.
Newest(t, s, n) == First(<<t>> \o s, n)

\* What the trades become when one more arrives.
LEMMA NewestFirstKept ==
  ASSUME NEW S, NEW s \in Seq(S), NEW t \in S, NEW n \in Nat \ {0},
         NEW r, r = Newest(t, s, n)
  PROVE  /\ r \in Seq(S) /\ Len(r) <= n
         /\ \A i \in DOMAIN r :
              \/ i = 1 /\ r[i] = t
              \/ i > 1 /\ i - 1 \in DOMAIN s /\ r[i] = s[i - 1]
<1> DEFINE u == <<t>> \o s
<1>1. <<t>> \in Seq(S) /\ Len(<<t>>) = 1 /\ <<t>>[1] = t /\ Len(s) \in Nat
      /\ DOMAIN s = 1..Len(s)
  OBVIOUS
<1>2. /\ u \in Seq(S) /\ Len(u) = 1 + Len(s)
      /\ \A i \in 1..(1 + Len(s)) : u[i] = IF i <= 1 THEN <<t>>[i] ELSE s[i - 1]
  BY <1>1, ConcatProperties
<1>3. r = First(u, n) /\ DOMAIN u = 1..(1 + Len(s))
  BY <1>1, <1>2 DEF Newest
<1> HIDE DEF u
<1>4. /\ First(u, n) \in Seq(S) /\ DOMAIN First(u, n) = 1..Len(First(u, n))
      /\ Len(First(u, n)) = IF Len(u) > n THEN n ELSE Len(u)
      /\ \A i \in DOMAIN First(u, n) : i \in DOMAIN u /\ First(u, n)[i] = u[i]
  BY <1>2, FirstOnes
<1>5. Len(r) <= n /\ r \in Seq(S)
  BY <1>1, <1>2, <1>3, <1>4
<1>6. ASSUME NEW i \in DOMAIN r
      PROVE  \/ i = 1 /\ r[i] = t
             \/ i > 1 /\ i - 1 \in DOMAIN s /\ r[i] = s[i - 1]
  <2>1. i \in 1..(1 + Len(s)) /\ r[i] = u[i]
    BY <1>3, <1>4
  <2> QED
    BY <1>1, <1>2, <2>1
<1> QED
  BY <1>5, <1>6

\* The trades the feed keeps are of trade events that were delivered, and of as many while
\* messages come in order.
RecentInv ==
  /\ recent \in Seq(Trades) /\ Len(recent) <= MaxRecent
  /\ \A j \in DOMAIN recent :
       "trades" \in Subs /\ \E k \in Read("trades") : recent[j] = TradeItem(stream[k])
  /\ InOrder => \A i, j \in DOMAIN recent : recent[i] = recent[j] => i = j

\* A trade that is delivered is put in front.
LEMMA TradeKeepsRecent ==
  ASSUME TypeOK, StreamInv, DeliveryInv, RecentInv, UNCHANGED vars, Subs' = Subs,
         InOrder' => InOrder,
         "trades" \in Subs, NEW i \in DOMAIN stream, stream[i].kind = "trade", i \in Wanted("trades"),
         ApplyTradeEvent(stream[i]),
         \/ Read("trades")' = Read("trades") \cup {i} /\ \A j \in Read("trades") : j \in Nat /\ j < i
         \/ Read("trades")' = Read("trades") /\ i \in Read("trades") /\ ~ InOrder
  PROVE  RecentInv'
<1> DEFINE t == TradeItem(stream[i])
<1>1. stream' = stream
  BY DEF vars, wireVars
<1>2. t \in Trades
  <2>1. TradeIn(stream[i]) \in trades
    BY DEF StreamInv, AllStillTrue, StillTrue, TradeStillTrue
  <2> QED
    BY <2>1 DEF TypeOK, TradeIn, TradeItem
<1>3. recent \in Seq(Trades) /\ recent' = First(<<t>> \o recent, MaxRecent) /\ MaxRecent \in Nat \ {0}
  BY FeedAssumption DEF RecentInv, ApplyTradeEvent
<1>4. i \in Read("trades")' /\ \A k \in Read("trades") : k \in Read("trades")'
  OBVIOUS
<1>5. InOrder => \A k \in Read("trades") : t # TradeItem(stream[k])
  <2>1. ASSUME InOrder, NEW k \in Read("trades") PROVE t # TradeItem(stream[k])
    <3>1. k \in DOMAIN stream /\ k < i /\ stream[k].kind = "trade"
      BY <2>1 DEF Read, Wanted, Subject
    <3>2. MayFollow(stream[k], stream[i])
      BY <3>1 DEF StreamInv, InSequence
    <3>3. stream[k].taker # stream[i].taker \/ stream[k].maker # stream[i].maker
      BY <3>1, <3>2 DEF MayFollow
    <3>4. /\ t.taker = stream[i].taker /\ t.maker = stream[i].maker
          /\ TradeItem(stream[k]).taker = stream[k].taker
          /\ TradeItem(stream[k]).maker = stream[k].maker
      BY DEF TradeItem
    <3> QED
      BY <3>3, <3>4
  <2> QED
    BY <2>1
<1> HIDE DEF t
<1> PICK r : r = recent'
  OBVIOUS
<1> PICK s : s = recent
  OBVIOUS
<1> PICK T : T = t
  OBVIOUS
<1>6. r = Newest(T, s, MaxRecent) /\ s \in Seq(Trades) /\ T \in Trades /\ MaxRecent \in Nat \ {0}
  BY <1>2, <1>3 DEF Newest
<1>7. /\ r \in Seq(Trades) /\ Len(r) <= MaxRecent
       /\ \A j \in DOMAIN r :
           \/ j = 1 /\ r[j] = T
           \/ j > 1 /\ j - 1 \in DOMAIN s /\ r[j] = s[j - 1]
  BY <1>6, NewestFirstKept
<1>8. /\ r \in Seq(Trades) /\ Len(r) <= MaxRecent
      /\ \A j \in DOMAIN r :
           \/ j = 1 /\ r[j] = t
           \/ j > 1 /\ j - 1 \in DOMAIN recent /\ r[j] = recent[j - 1]
  BY <1>7
<1>9. DOMAIN r \subseteq Nat
  BY <1>8
<1>10. \A j \in DOMAIN recent : \E k \in Read("trades") : recent[j] = TradeItem(stream[k])
  BY DEF RecentInv
<1>11. ASSUME NEW j \in DOMAIN r
       PROVE  \E k \in Read("trades")' : r[j] = TradeItem(stream[k])
  BY <1>4, <1>8, <1>10 DEF t
<1>12. ASSUME InOrder', NEW a \in DOMAIN r, NEW b \in DOMAIN r, r[a] = r[b]
       PROVE  a = b
  <2>1. \A j \in DOMAIN recent : recent[j] # t
    BY <1>5, <1>10, <1>12
  <2>2. \A c, d \in DOMAIN recent : recent[c] = recent[d] => c = d
    BY <1>12 DEF RecentInv
  <2>3. CASE a = 1 \/ b = 1
    BY <1>8, <1>12, <2>1, <2>3
  <2>4. CASE a # 1 /\ b # 1
    <3>1. a - 1 \in DOMAIN recent /\ b - 1 \in DOMAIN recent /\ recent[a - 1] = recent[b - 1]
      BY <1>8, <1>12, <2>4
    <3>2. a - 1 = b - 1 /\ a \in Nat /\ b \in Nat
      BY <1>9, <2>2, <3>1
    <3> QED
      BY <3>2
  <2> QED
    BY <2>3, <2>4
<1>13. \A j \in DOMAIN recent' :
         "trades" \in Subs' /\ \E k \in Read("trades")' : recent'[j] = TradeItem(stream'[k])
  BY <1>1, <1>11
<1>14. InOrder' => \A a, b \in DOMAIN recent' : recent'[a] = recent'[b] => a = b
  BY <1>12
<1> QED
  BY <1>8, <1>13, <1>14 DEF RecentInv, TradeItem

\* Every step keeps of which events the trades are.
LEMMA RecentStep ==
  ASSUME TypeOK, StreamInv, DeliveryInv, RecentInv, [MarketNext]_marketVars
  PROVE  RecentInv'
<1>1. CASE UNCHANGED feedVars
  <2>1. [Next]_vars
    BY MarketStepIsStep
  <2>2. /\ Subs' = Subs /\ (\A c \in Subs : Read(c)' = Read(c))
        /\ (\A c : \A i \in Read(c) : i \in DOMAIN stream)
        /\ \A i \in DOMAIN stream : stream'[i] = stream[i]
    BY <1>1, <2>1, ReadUnchanged
  <2>3. recent' = recent /\ feedFaults' = feedFaults
    BY <1>1 DEF feedVars, viewVars, feedFaultVars
  <2>4. \A j \in DOMAIN recent :
          "trades" \in Subs' /\ \E k \in Read("trades")' : recent[j] = TradeItem(stream'[k])
    BY <2>2 DEF RecentInv, TradeItem
  <2> QED
    BY <2>3, <2>4 DEF RecentInv, InOrder, TradeItem
<1>2. CASE Deliveries
  <2>1. PICK c \in Subs, i \in DOMAIN stream :
           /\ c \in AllSubs /\ i \in Wanted(c) /\ Moves(c, i) /\ Handle(c, i)
           /\ stream[i].kind = Subject(c)
           /\ UNCHANGED vars /\ Subs' = Subs
           /\ \A d : Wanted(d)' = Wanted(d)
           /\ \A d \in Subs \ {c} : Read(d)' = Read(d)
           /\ \/ Read(c)' = Read(c) \cup {i} /\ \A j \in Read(c) : j \in Nat /\ j < i
              \/ Read(c)' = Read(c) /\ i \in Read(c) /\ i \in unacked[c]
    BY <1>2, DeliveryDone
  <2>2. InOrder' => InOrder
    BY <2>1 DEF Moves, InOrder, FeedFault, feedFaultVars
  <2>3. CASE c # "trades"
    <3>1. recent' = recent
      BY <2>1, <2>3, HandleShape
         DEF ApplyOrderEvent, Count, viewVars, AllSubs, MarketSubs, WalletSubs
    <3>2. "trades" \in Subs => Read("trades")' = Read("trades")
      BY <2>1, <2>3
    <3>3. stream' = stream
      BY <2>1 DEF vars, wireVars
    <3> QED
      BY <2>1, <2>2, <3>1, <3>2, <3>3 DEF RecentInv, TradeItem
  <2>4. CASE c = "trades"
    <3>1. ApplyTradeEvent(stream[i])
      BY <2>1, <2>4, HandleShape
    <3>2. \/ Read("trades")' = Read("trades") \cup {i} /\ \A j \in Read("trades") : j \in Nat /\ j < i
          \/ Read("trades")' = Read("trades") /\ i \in Read("trades") /\ ~ InOrder
      BY <2>1, <2>4 DEF DeliveryInv
    <3>3. stream[i].kind = "trade" /\ i \in Wanted("trades") /\ "trades" \in Subs
      BY <2>1, <2>4 DEF Subject
    <3>4. UNCHANGED vars /\ Subs' = Subs
      BY <2>1
    <3> QED
      BY <2>2, <3>1, <3>2, <3>3, <3>4, TradeKeepsRecent
  <2> QED
    BY <2>3, <2>4
<1>3. CASE Restarts(MarketSubs)
  <2>1. recent' = <<>>
    BY <1>3, RestartOfMarket DEF EmptyView
  <2>2. <<>> \in Seq(Trades) /\ Len(<<>>) = 0 /\ DOMAIN <<>> = {}
    OBVIOUS
  <2> QED
    BY <2>1, <2>2, FeedAssumption DEF RecentInv
<1>4. CASE Restarts(WalletSubs)
  <2>1. recent' = recent
    BY <1>4, RestartOfWallet DEF viewVars
  <2>2. /\ Subs' = Subs /\ stream' = stream /\ (InOrder' => InOrder)
        /\ "trades" \in Subs => Read("trades")' = Read("trades")
    BY <1>4, OthersReadOn DEF Services, WalletSubs
  <2> HIDE DEF InOrder
  <2> QED
    BY <2>1, <2>2 DEF RecentInv, TradeItem
<1> QED
  BY <1>1, <1>2, <1>3, <1>4 DEF MarketNext, marketVars, Restarts, Services

\* Every trade the feed shows is one that was told.
THEOREM RecentInvariant == MarketSpec => []RecentInv
<1>1. MarketInit => RecentInv
  <2> SUFFICES ASSUME MarketInit PROVE RecentInv
    OBVIOUS
  <2>1. recent = <<>>
    BY DEF MarketInit, FeedInit
  <2>2. <<>> \in Seq(Trades) /\ Len(<<>>) = 0 /\ DOMAIN <<>> = {}
    OBVIOUS
  <2> QED
    BY <2>1, <2>2, FeedAssumption DEF RecentInv
<1>2. TypeOK /\ StreamInv /\ DeliveryInv /\ RecentInv /\ [MarketNext]_marketVars => RecentInv'
  BY RecentStep
<1> QED
  BY <1>1, <1>2, MarketRunsRuntime, TypeCorrect, StreamInvariant, DeliveryInvariant,
     PTL DEF MarketSpec

\* The feed shows nothing that was not committed, and no trade twice while messages come in
\* order.
THEOREM ShowsOnlyCommitted == MarketSpec => []NothingInvented
<1>1. TypeOK /\ RuntimeInv /\ StreamInv /\ DeliveryInv /\ ItemsInv /\ RecentInv =>
        NothingInvented
  <2> SUFFICES ASSUME TypeOK, RuntimeInv, StreamInv, DeliveryInv, ItemsInv, RecentInv PROVE NothingInvented
    OBVIOUS
  <2>1. \A j \in DOMAIN recent : recent[j] \in trades
    <3>1. ASSUME NEW j \in DOMAIN recent PROVE recent[j] \in trades
      <4>1. PICK k \in Read("trades") : recent[j] = TradeItem(stream[k])
        BY <3>1 DEF RecentInv
      <4>2. k \in DOMAIN stream /\ stream[k].kind = "trade"
        BY <4>1 DEF Read, Wanted, Subject
      <4>3. TradeIn(stream[k]) \in trades
        BY <4>2 DEF StreamInv, AllStillTrue, StillTrue, TradeStillTrue
      <4> QED
        BY <4>1, <4>3 DEF TradeIn, TradeItem
    <3> QED
      BY <3>1
  <2>2. ToSet(RecentTrades(MaxRecent)) \subseteq trades
    <3>1. recent \in Seq(Trades) /\ MaxRecent \in Nat
      BY FeedAssumption DEF RecentInv
    <3>2. \A j \in DOMAIN First(recent, MaxRecent) :
            j \in DOMAIN recent /\ First(recent, MaxRecent)[j] = recent[j]
      BY <3>1, FirstOnes
    <3> QED
      BY <2>1, <3>2 DEF ToSet, RecentTrades
  <2>3. ASSUME NEW o \in OrderId, items[o] # NoItem
        PROVE  o \in Orders /\ rows[o].rem <= items[o].rem
    <3>1. PICK k \in Read("orders") : Shows(o, k)
      BY <2>3 DEF ItemsInv
    <3>2. k \in DOMAIN stream /\ stream[k].kind = "order"
      BY <3>1 DEF Read, Wanted, Subject
    <3>3. o <= created /\ rows[o].status # "inFlight" /\ rows[o].rem <= stream[k].rem
      BY <3>1, <3>2 DEF StreamInv, AllStillTrue, StillTrue, OrderStillTrue, Shows
    <3>4. rows[o].status \in Statuses
      BY <3>3 DEF RuntimeInv, RowsInv, TypeOK, OrderId, Row
    <3> QED
      BY <3>1, <3>3, <3>4 DEF Shows, Orders
  <2> QED
    BY <2>2, <2>3 DEF NothingInvented, RecentInv
<1> QED
  BY <1>1, MarketRunsRuntime, TypeCorrect, RuntimeInvariant, StreamInvariant,
     DeliveryInvariant,
     ItemsInvariant, RecentInvariant, PTL

----------------------------------------------------------------------------
(* The wallet's count, types and depth *)

\* What was delivered of a subscription is finite.
LEMMA ReadIsFinite ==
  ASSUME TypeOK, DeliveryInv, NEW c \in Subs PROVE IsFiniteSet(Read(c)) /\ Read(c) \subseteq Nat
<1>1. pos[c] \in Nat
  BY DEF DeliveryInv
<1>2. Read(c) \subseteq Nat /\ \A i \in Read(c) : i <= pos[c]
  BY DEF Read, Wanted, TypeOK
<1> QED
  BY <1>1, <1>2, FS_BoundedSetOfNaturals

\* What was delivered of a subscription since its service started.
ReadSince == {i \in Read("wallet") : since < i}

\* The count of a process of the wallet is not below what was delivered to it, and is that
\* while nothing comes twice; what no process counted is to come again.
CountInv ==
  /\ counted \in Nat
  /\ since \in Nat
  /\ tallied \subseteq DOMAIN stream
  /\ "wallet" \in Subs =>
       /\ since <= pos["wallet"]
       /\ Cardinality(ReadSince) <= counted
       /\ InOrder => counted = Cardinality(ReadSince)
       /\ Read("wallet") \ tallied \subseteq unacked["wallet"]

\* An event is counted: it is one more that was delivered, or comes again.
LEMMA CountOnce ==
  ASSUME TypeOK, DeliveryInv, CountInv, UNCHANGED vars, Subs' = Subs, "wallet" \in Subs,
         NEW i \in Wanted("wallet"), Moves("wallet", i), Count(i),
         \/ Read("wallet")' = Read("wallet") \cup {i} /\ \A j \in Read("wallet") : j \in Nat /\ j < i
         \/ Read("wallet")' = Read("wallet") /\ i \in Read("wallet") /\ i \in unacked["wallet"]
  PROVE  CountInv'
<1>1. /\ counted' = counted + 1 /\ since' = since /\ tallied' = tallied \cup {i}
      /\ stream' = stream /\ i \in DOMAIN stream /\ i \in Nat
  BY DEF Count, vars, wireVars, Wanted, TypeOK
<1>2. /\ counted \in Nat /\ since \in Nat /\ tallied \subseteq DOMAIN stream
      /\ since <= pos["wallet"] /\ Cardinality(ReadSince) <= counted
      /\ InOrder => counted = Cardinality(ReadSince)
      /\ Read("wallet") \ tallied \subseteq unacked["wallet"]
  BY DEF CountInv
<1>3. IsFiniteSet(ReadSince) /\ Cardinality(ReadSince) \in Nat
  <2>1. IsFiniteSet(Read("wallet")) /\ ReadSince \subseteq Read("wallet")
    BY ReadIsFinite DEF ReadSince
  <2> QED
    BY <2>1, FS_Subset, FS_CardinalityType
<1>4. /\ pos \in [Subs -> Nat] /\ unacked \in [Subs -> SUBSET Nat]
      /\ InOrder => unacked["wallet"] = {}
  BY DEF DeliveryInv
<1>5. (InOrder' => InOrder) /\ Read("wallet")' \ {i} = Read("wallet") \ {i}
  BY DEF Moves, InOrder, FeedFault, feedFaultVars
<1>6. /\ pos'["wallet"] \in Nat /\ pos["wallet"] \in Nat /\ pos["wallet"] <= pos'["wallet"]
      /\ unacked["wallet"] \ {i} \subseteq unacked'["wallet"]
  BY <1>1, <1>4 DEF Moves
<1>7. since' <= pos'["wallet"]
  BY <1>1, <1>2, <1>6
<1>8. Read("wallet")' \ tallied' \subseteq unacked'["wallet"]
  <2> SUFFICES ASSUME NEW j \in Read("wallet")', j \notin tallied' PROVE j \in unacked'["wallet"]
    OBVIOUS
  <2>1. j # i /\ j \notin tallied
    BY <1>1
  <2>2. j \in Read("wallet")
    BY <1>5, <2>1
  <2> QED
    BY <1>2, <1>6, <2>1, <2>2
<1>9. /\ Cardinality(ReadSince') <= counted'
      /\ InOrder' => counted' = Cardinality(ReadSince')
  <2>1. CASE Read("wallet")' = Read("wallet") \cup {i} /\ \A j \in Read("wallet") : j \in Nat /\ j < i
    <3>1. i \notin ReadSince
      BY <1>1, <2>1 DEF ReadSince
    <3>2. i > pos["wallet"] \/ i \in Read("wallet")
      <4>1. i \in unacked["wallet"] => i \in Read("wallet")
        BY DEF DeliveryInv, Read
      <4> QED
        BY <4>1 DEF Moves
    <3>3. i > since
      <4>1. i > pos["wallet"]
        BY <1>1, <2>1, <3>2
      <4> QED
        BY <1>1, <1>2, <1>6, <4>1
    <3>4. ReadSince' = ReadSince \cup {i}
      BY <1>1, <2>1, <3>3 DEF ReadSince
    <3>5. Cardinality(ReadSince') = Cardinality(ReadSince) + 1
      BY <1>3, <3>1, <3>4, FS_AddElement
    <3> QED
      BY <1>1, <1>2, <1>3, <1>5, <3>5
  <2>2. CASE Read("wallet")' = Read("wallet") /\ i \in unacked["wallet"]
    <3>1. ReadSince' = ReadSince /\ ~ InOrder
      BY <1>1, <1>4, <2>2 DEF ReadSince
    <3> QED
      BY <1>1, <1>2, <1>3, <1>5, <3>1
  <2> QED
    BY <2>1, <2>2
<1>10. counted' \in Nat /\ since' \in Nat /\ tallied' \subseteq DOMAIN stream'
  BY <1>1, <1>2
<1> QED
  BY <1>7, <1>8, <1>9, <1>10 DEF CountInv

\* The wallet starts again, and counts from nothing.
LEMMA CountAgain ==
  ASSUME TypeOK, DeliveryInv, DeliveryInv', CountInv, Restarts(WalletSubs)
  PROVE  CountInv'
<1>1. counted' = 0 /\ since' = pos'["wallet"] /\ tallied' = tallied
  BY RestartOfWallet
<1>2. Subs' = Subs /\ stream' = stream /\ \A c : Wanted(c)' = Wanted(c)
  BY OthersReadOn DEF Services
<1>3. "wallet" \in Subs
  BY RestartShape DEF Services, WalletSubs
<1>4. pos'["wallet"] \in Nat
  BY <1>2, <1>3 DEF DeliveryInv
<1>5. ReadSince' = {}
  <2>1. \A i \in Read("wallet")' : i \in Nat /\ i <= since'
    BY <1>1, <1>2 DEF Read, Wanted, TypeOK
  <2> QED
    BY <1>1, <1>4, <2>1 DEF ReadSince
<1>6. Cardinality(ReadSince') = 0
  BY <1>5, FS_EmptySet
<1>7. Read("wallet")' \ tallied \subseteq unacked'["wallet"]
  <2>1. CASE RereadFeed(WalletSubs)
    <3>1. pos'["wallet"] = 0
      BY <2>1, RestartShape DEF Services, WalletSubs
    <3>2. \A i \in Wanted("wallet")' : i \in Nat \ {0}
      BY <1>2 DEF Wanted, TypeOK
    <3> QED
      BY <3>1, <3>2 DEF Read
  <2>2. CASE ResumeFeed(WalletSubs)
    <3>1. unacked'["wallet"] = unacked["wallet"]
             \cup {i \in Wanted("wallet") : pos["wallet"] < i /\ i <= pos'["wallet"]}
      BY <1>3, <2>2 DEF ResumeFeed, WalletSubs
    <3>2. ASSUME NEW i \in Read("wallet")', i \notin tallied PROVE i \in unacked'["wallet"]
      <4>1. i \in Wanted("wallet") /\ i <= pos'["wallet"] /\ i \in Nat /\ pos["wallet"] \in Nat
        BY <1>2, <1>3 DEF Read, Wanted, TypeOK, DeliveryInv
      <4>2. CASE i <= pos["wallet"]
        BY <1>3, <3>1, <3>2, <4>1, <4>2 DEF Read, CountInv
      <4>3. CASE pos["wallet"] < i
        BY <3>1, <4>1, <4>3
      <4> QED
        BY <4>1, <4>2, <4>3
    <3> QED
      BY <3>2
  <2> QED
    BY <2>1, <2>2 DEF Restarts
<1>8. tallied \subseteq DOMAIN stream
  BY DEF CountInv
<1> QED
  BY <1>1, <1>2, <1>4, <1>6, <1>7, <1>8 DEF CountInv

\* Every step keeps the count.
LEMMA CountStep ==
  ASSUME TypeOK, DeliveryInv, DeliveryInv', CountInv, [MarketNext]_marketVars
  PROVE  CountInv'
<1>1. CASE UNCHANGED feedVars
  <2>1. [Next]_vars
    BY MarketStepIsStep
  <2>2. Subs' = Subs /\ (\A c \in Subs : Read(c)' = Read(c)) /\ DOMAIN stream \subseteq DOMAIN stream'
    BY <1>1, <2>1, ReadUnchanged, StreamGrows
  <2>3. walletVars' = walletVars /\ feedFaults' = feedFaults /\ pos' = pos /\ unacked' = unacked
    BY <1>1 DEF feedVars, subVars, feedFaultVars
  <2> QED
    BY <2>2, <2>3 DEF CountInv, ReadSince, walletVars, InOrder
<1>2. CASE Deliveries
  <2>1. PICK c \in Subs, i \in DOMAIN stream :
           /\ c \in AllSubs /\ i \in Wanted(c) /\ Moves(c, i) /\ Handle(c, i)
           /\ stream[i].kind = Subject(c)
           /\ UNCHANGED vars /\ Subs' = Subs
           /\ \A d : Wanted(d)' = Wanted(d)
           /\ \A d \in Subs \ {c} : Read(d)' = Read(d)
           /\ \/ Read(c)' = Read(c) \cup {i} /\ \A j \in Read(c) : j \in Nat /\ j < i
              \/ Read(c)' = Read(c) /\ i \in Read(c) /\ i \in unacked[c]
    BY <1>2, DeliveryDone
  <2>2. stream' = stream
    BY <2>1 DEF vars, wireVars
  <2>3. CASE c # "wallet"
    <3>1. UNCHANGED walletVars
      BY <2>1, <2>3, HandleShape DEF AllSubs, MarketSubs, WalletSubs
    <3>2. InOrder' => InOrder
      BY <2>1 DEF Moves, InOrder, FeedFault, feedFaultVars
    <3>3. "wallet" \in Subs =>
            /\ Read("wallet")' = Read("wallet")
            /\ pos'["wallet"] = pos["wallet"] /\ unacked'["wallet"] = unacked["wallet"]
      BY <2>1, <2>3 DEF Moves, DeliveryInv
    <3> HIDE DEF InOrder
    <3> QED
      BY <2>1, <2>2, <3>1, <3>2, <3>3 DEF CountInv, ReadSince, walletVars
  <2>4. CASE c = "wallet"
    <3>1. Count(i)
      BY <2>1, <2>4, HandleShape
    <3> QED
      BY <2>1, <2>4, <3>1, CountOnce
  <2> QED
    BY <2>3, <2>4
<1>3. CASE Restarts(MarketSubs)
  <2>1. UNCHANGED walletVars
    BY <1>3, RestartOfMarket
  <2>2. /\ Subs' = Subs /\ stream' = stream /\ (InOrder' => InOrder)
        /\ "wallet" \in Subs => Read("wallet")' = Read("wallet") /\ unacked'["wallet"] = unacked["wallet"]
    BY <1>3, OthersReadOn DEF Services, MarketSubs
  <2>3. "wallet" \in Subs => pos'["wallet"] = pos["wallet"]
    BY <1>3, RestartShape DEF Services, MarketSubs
  <2> HIDE DEF InOrder
  <2> QED
    BY <2>1, <2>2, <2>3 DEF CountInv, ReadSince, walletVars
<1>4. CASE Restarts(WalletSubs)
  BY <1>4, CountAgain
<1> QED
  BY <1>1, <1>2, <1>3, <1>4 DEF MarketNext, marketVars, Restarts, Services

\* The count is what was delivered, or more when something came again.
THEOREM CountInvariant == MarketSpec => []CountInv
<1>1. MarketInit /\ TypeOK /\ DeliveryInv => CountInv
  <2> SUFFICES ASSUME MarketInit, TypeOK, DeliveryInv PROVE CountInv
    OBVIOUS
  <2>1. counted = 0 /\ since = 0 /\ tallied = {}
    BY DEF MarketInit, FeedInit
  <2>2. Read("wallet") = {} /\ ReadSince = {}
    <3>1. stream = <<>>
      BY DEF MarketInit, Init
    <3> QED
      BY <3>1 DEF Read, Wanted, ReadSince
  <2>3. "wallet" \in Subs => pos["wallet"] \in Nat
    BY DEF DeliveryInv
  <2> QED
    BY <2>1, <2>2, <2>3, FS_EmptySet DEF CountInv
<1>2. TypeOK /\ DeliveryInv /\ DeliveryInv' /\ CountInv /\ [MarketNext]_marketVars => CountInv'
  BY CountStep
<1> QED
  BY <1>1, <1>2, MarketRunsRuntime, TypeCorrect, DeliveryInvariant, PTL DEF MarketSpec

\* A process of the wallet counts every event delivered since it started at least once, and
\* once only while acks arrive; what no process counted is delivered again, however often
\* acks are lost and the wallet restarts.
THEOREM WalletMissesNothing == MarketSpec => []WalletCountsAll
<1>1. TypeOK /\ CountInv => WalletCountsAll
  <2> SUFFICES ASSUME TypeOK, CountInv, "wallet" \in Subs PROVE WalletCountsAll
    BY DEF WalletCountsAll
  <2>1. {i \in Wanted("wallet") : since < i /\ i <= pos["wallet"]} = ReadSince
    BY DEF Read, ReadSince
  <2>2. {i \in Wanted("wallet") : 0 < i /\ i <= pos["wallet"]} \subseteq Read("wallet")
    BY DEF Read
  <2>3. /\ Cardinality(ReadSince) <= counted
        /\ InOrder => counted = Cardinality(ReadSince)
        /\ Read("wallet") \ tallied \subseteq unacked["wallet"]
    BY DEF CountInv
  <2> QED
    BY <2>1, <2>2, <2>3 DEF WalletCountsAll
<1> QED
  BY <1>1, CountInvariant, MarketRunsRuntime, TypeCorrect, PTL

\* The feed's state has its type.
THEOREM FeedTypeCorrect == MarketSpec => []FeedTypeOK
<1>1. TypeOK /\ DeliveryInv /\ ItemsInv /\ DepthInv /\ RecentInv /\ CountInv => FeedTypeOK
  <2> SUFFICES ASSUME TypeOK, DeliveryInv, ItemsInv, DepthInv, RecentInv, CountInv PROVE FeedTypeOK
    OBVIOUS
  <2>1. ASSUME NEW c \in Subs PROVE unacked[c] \subseteq 1..pos[c]
    <3>1. pos[c] \in Nat /\ unacked[c] \subseteq {i \in Wanted(c) : i <= pos[c]}
      BY DEF DeliveryInv
    <3>2. Wanted(c) \subseteq 1..Len(stream) /\ Len(stream) \in Nat
      BY DEF Wanted, TypeOK
    <3> QED
      BY <3>1, <3>2
  <2>2. Subs \in Readers /\ pos \in [Subs -> Nat] /\ feedFaults \subseteq FeedFaultKinds
        /\ feedFaultCount \in 0..MaxFeedFaults
    BY DEF DeliveryInv
  <2>3. items \in [OrderId -> Item] /\ bids \in [Prices -> Nat] /\ asks \in [Prices -> Nat]
    BY DEF ItemsInv, DepthInv, DepthIs
  <2>4. recent \in Seq(Trades) /\ Len(recent) <= MaxRecent /\ counted \in Nat
        /\ since \in Nat /\ tallied \subseteq DOMAIN stream
    BY DEF RecentInv, CountInv
  <2> QED
    BY <2>1, <2>2, <2>3, <2>4 DEF FeedTypeOK
<1> QED
  BY <1>1, MarketRunsRuntime, TypeCorrect, DeliveryInvariant, ItemsInvariant,
     DepthInvariant,
     RecentInvariant, CountInvariant, PTL

\* Under duplicated, late and re-read messages the depth at every price is the sum over
\* the orders the feed knows.
THEOREM DepthIsSum == MarketSpec => []DepthIsSumOfItems
<1>1. FeedTypeOK /\ ItemsInv /\ DepthInv => DepthIsSumOfItems
  <2> SUFFICES ASSUME FeedTypeOK, ItemsInv, DepthInv PROVE DepthIsSumOfItems
    OBVIOUS
  <2>1. items \in [OrderId -> Item]
    BY DEF ItemsInv
  <2>2. ASSUME NEW p \in Prices
        PROVE  /\ bids[p] = DepthOf("buy", p, LAMBDA o : ActiveRem(items[o]))
               /\ asks[p] = DepthOf("sell", p, LAMBDA o : ActiveRem(items[o]))
    <3>1. bids[p] = Sum(Active, At("buy", p)) /\ asks[p] = Sum(Active, At("sell", p))
      BY DEF DepthInv, DepthIs
    <3>2. DepthOf("buy", p, LAMBDA o : ActiveRem(items[o])) = Sum(Active, At("buy", p))
      BY <2>1, DepthOfItems
    <3>3. DepthOf("sell", p, LAMBDA o : ActiveRem(items[o])) = Sum(Active, At("sell", p))
      BY <2>1, DepthOfItems
    <3> QED
      BY <3>1, <3>2, <3>3
  <2> QED
    BY <2>2 DEF DepthIsSumOfItems
<1> QED
  BY <1>1, FeedTypeCorrect, ItemsInvariant, DepthInvariant, PTL

----------------------------------------------------------------------------
(* From the tables to the answer *)

\* The first levels of a list: what is at them, in order, and nothing better left out.
LEMMA TopIsBest ==
  ASSUME NEW S, IsFiniteSet(S), NEW R, TotalOrder(R, S), NEW s, Lists(s, S, R),
         NEW d, NEW n \in Nat, NEW L, L = Levels(d, s, n)
  PROVE  /\ \A i \in DOMAIN L : L[i].price \in S /\ L[i].qty = d[L[i].price]
         /\ \A i, j \in DOMAIN L : i < j => <<L[i].price, L[j].price>> \in R
         /\ \A q \in S : (\A i \in DOMAIN L : L[i].price # q) =>
              Len(L) = n /\ \A i \in DOMAIN L : <<L[i].price, q>> \in R
<1> DEFINE N == Cardinality(S)
           t == [i \in DOMAIN s |-> [price |-> s[i], qty |-> d[s[i]]]]
           V == {t[i] : i \in DOMAIN s}
<1>1. /\ N \in Nat /\ s \in [1..N -> S] /\ DOMAIN s = 1..N
      /\ \A i, j \in 1..N : i < j => <<s[i], s[j]>> \in R
  BY FS_CardinalityType DEF Lists
<1>2. \A q \in S : \E i \in 1..N : s[i] = q
  BY <1>1, ListsAll
<1> HIDE DEF N
<1>3. t \in Seq(V) /\ Len(t) = N /\ \A i \in 1..N : t[i].price = s[i] /\ t[i].qty = d[s[i]]
  <2>1. t \in [1..N -> V] /\ \A i \in 1..N : t[i].price = s[i] /\ t[i].qty = d[s[i]]
    BY <1>1
  <2> HIDE DEF t, V
  <2> QED
    BY <1>1, <2>1
<1>4. L = First(t, n)
  BY DEF Levels
<1> HIDE DEF t, V
<1>5. /\ DOMAIN L = 1..Len(L) /\ Len(L) = IF N > n THEN n ELSE N
      /\ \A i \in DOMAIN L : i \in DOMAIN t /\ L[i] = t[i]
  BY <1>3, <1>4, FirstOnes
<1>6. \A i \in DOMAIN L : i \in 1..N /\ L[i].price = s[i] /\ L[i].qty = d[s[i]]
  BY <1>1, <1>3, <1>5
<1>7. ASSUME NEW q \in S, \A i \in DOMAIN L : L[i].price # q
      PROVE  Len(L) = n /\ \A i \in DOMAIN L : <<L[i].price, q>> \in R
  <2>1. PICK k \in 1..N : s[k] = q
    BY <1>2
  <2>2. k \notin DOMAIN L
    BY <1>6, <1>7, <2>1
  <2>3. N > n /\ Len(L) = n /\ k > n
    BY <1>1, <1>5, <2>2
  <2>4. \A i \in DOMAIN L : i \in 1..N /\ i < k
    BY <1>1, <1>5, <1>6, <2>3
  <2> QED
    BY <1>1, <1>6, <2>1, <2>3, <2>4
<1> QED
  BY <1>1, <1>6, <1>7

\* While messages come in order and all were handled, the feed knows of each order what
\* the table has.
LEMMA FeedKnowsTable ==
  ASSUME TypeOK, RuntimeInv, StreamIsComplete, StreamInv, ItemsInv,
         MarketSubs \subseteq Subs, pc = "idle", faults = 0, InOrder, Drained
  PROVE  Active = InTable
<1>1. "orders" \in Subs /\ Read("orders") = Wanted("orders")
  BY DEF MarketSubs, Drained, Read
<1>2. ASSUME NEW o \in OrderId PROVE ActiveRem(items[o]) = TableRem(o)
  <2>1. CASE o \in Orders
    <3>1. PICK i \in DOMAIN stream :
             /\ stream[i] = OrderEvent(rows, o)
             /\ \A j \in (i + 1)..Len(stream) : ~ IsEventOf(stream[j], o)
      BY <2>1 DEF StreamIsComplete
    <3>2. /\ stream[i].kind = "order" /\ stream[i].id = o
          /\ stream[i].rem = rows[o].rem /\ stream[i].status = rows[o].status
      BY <3>1, OrderEventFields
    <3>3. i \in Read("orders")
      BY <1>1, <3>2 DEF Wanted, Subject
    <3>4. PICK k \in Read("orders") :
             Shows(o, k) /\ \A j \in Read("orders") : j > k => stream[j].id # o
      BY <1>1, <3>2, <3>3 DEF ItemsInv
    <3>5. k \in DOMAIN stream /\ stream[k].kind = "order" /\ stream[k].id = o
      BY <3>4 DEF Read, Wanted, Subject, Shows
    <3>6. DOMAIN stream = 1..Len(stream) /\ Len(stream) \in Nat
      BY DEF TypeOK
    <3>7. ~ (i > k)
      BY <3>2, <3>3, <3>4
    <3>8. ~ (k > i)
      BY <3>1, <3>5, <3>6 DEF IsEventOf
    <3>9. i = k
      BY <3>5, <3>6, <3>7, <3>8
    <3>10. items[o].rem = rows[o].rem /\ items[o].status = rows[o].status
      BY <3>2, <3>4, <3>9 DEF Shows
    <3> QED
      BY <3>10 DEF ActiveRem, TableRem
  <2>2. CASE o \notin Orders
    <3>1. rows[o].status \in {"none", "inFlight"}
      BY <2>2 DEF Orders, TypeOK, Row
    <3>2. ~ (o <= created /\ rows[o].status # "inFlight")
      BY <3>1 DEF RuntimeInv, RowsInv, TypeOK, OrderId
    <3>3. items[o] = NoItem
      <4>1. ASSUME items[o] # NoItem PROVE FALSE
        <5>1. PICK k \in Read("orders") : Shows(o, k)
          BY <4>1 DEF ItemsInv
        <5>2. k \in DOMAIN stream /\ stream[k].kind = "order" /\ stream[k].id = o
          BY <5>1 DEF Read, Wanted, Subject, Shows
        <5>3. o <= created /\ rows[o].status # "inFlight"
          BY <5>2 DEF StreamInv, AllStillTrue, StillTrue, OrderStillTrue
        <5> QED
          BY <3>2, <5>3
      <4> QED
        BY <4>1
    <3> QED
      BY <3>1, <3>3 DEF ActiveRem, TableRem, NoItem, Restable
  <2> QED
    BY <2>1, <2>2
<1> QED
  BY <1>2 DEF Active, InTable

\* A side whose depth is the table's answers the top of it.
LEMMA BidsAreTop ==
  ASSUME TypeOK, IsFiniteSet(Prices), bids \in [Prices -> Nat],
         \A p \in Prices : bids[p] = DepthOf("buy", p, TableRem), NEW n \in Nat
  PROVE  IsTopOfTable(OrderBook(n).bids, "buy", n, >)
<1> DEFINE S == PricesIn(bids)
           s == InOrderOf(S, >)
           L == Levels(bids, s, n)
<1>1. S \in SUBSET Nat /\ IsFiniteSet(S) /\ S \subseteq Prices
  <2>1. S \in SUBSET Prices
    BY DEF PricesIn
  <2> HIDE DEF S
  <2> QED
    BY <2>1, RuntimeAssumption, FS_Subset
<1>2. \A p \in Prices : p \in S <=> DepthOf("buy", p, TableRem) > 0
  BY DEF PricesIn
<1>3. OrderBook(n).bids = L
  BY DEF OrderBook
<1> HIDE DEF S
<1>4. Lists(s, S, Above) /\ TotalOrder(Above, S)
      /\ \A x, y \in S : <<x, y>> \in Above <=> x > y
  BY <1>1, SortedDown, NumbersAreOrdered
<1> HIDE DEF s, L
<1>5. L = Levels(bids, s, n)
  BY DEF L
<1>6. /\ \A i \in DOMAIN L : L[i].price \in S /\ L[i].qty = bids[L[i].price]
      /\ \A i, j \in DOMAIN L : i < j => <<L[i].price, L[j].price>> \in Above
      /\ \A q \in S : (\A i \in DOMAIN L : L[i].price # q) =>
           Len(L) = n /\ \A i \in DOMAIN L : <<L[i].price, q>> \in Above
  BY <1>1, <1>4, <1>5, TopIsBest
<1>7. {p \in Prices : DepthOf("buy", p, TableRem) > 0} = S
  BY <1>1, <1>2
<1>8. \A i \in DOMAIN L : L[i].qty = DepthOf("buy", L[i].price, TableRem)
  BY <1>1, <1>6
<1>9. \A i, j \in DOMAIN L : i < j => L[i].price > L[j].price
  BY <1>4, <1>6
<1>10. \A i \in DOMAIN L, q \in S : (\A j \in DOMAIN L : L[j].price # q) => L[i].price > q
  BY <1>4, <1>6
<1> QED
  BY <1>3, <1>6, <1>7, <1>8, <1>9, <1>10 DEF IsTopOfTable

\* The other side, likewise.
LEMMA AsksAreTop ==
  ASSUME TypeOK, IsFiniteSet(Prices), asks \in [Prices -> Nat],
         \A p \in Prices : asks[p] = DepthOf("sell", p, TableRem), NEW n \in Nat
  PROVE  IsTopOfTable(OrderBook(n).asks, "sell", n, <)
<1> DEFINE S == PricesIn(asks)
           s == InOrderOf(S, <)
           L == Levels(asks, s, n)
<1>1. S \in SUBSET Nat /\ IsFiniteSet(S) /\ S \subseteq Prices
  <2>1. S \in SUBSET Prices
    BY DEF PricesIn
  <2> HIDE DEF S
  <2> QED
    BY <2>1, RuntimeAssumption, FS_Subset
<1>2. \A p \in Prices : p \in S <=> DepthOf("sell", p, TableRem) > 0
  BY DEF PricesIn
<1>3. OrderBook(n).asks = L
  BY DEF OrderBook
<1> HIDE DEF S
<1>4. Lists(s, S, Below) /\ TotalOrder(Below, S)
      /\ \A x, y \in S : <<x, y>> \in Below <=> x < y
  BY <1>1, SortedUp, NumbersAreOrdered
<1> HIDE DEF s, L
<1>5. L = Levels(asks, s, n)
  BY DEF L
<1>6. /\ \A i \in DOMAIN L : L[i].price \in S /\ L[i].qty = asks[L[i].price]
      /\ \A i, j \in DOMAIN L : i < j => <<L[i].price, L[j].price>> \in Below
      /\ \A q \in S : (\A i \in DOMAIN L : L[i].price # q) =>
           Len(L) = n /\ \A i \in DOMAIN L : <<L[i].price, q>> \in Below
  BY <1>1, <1>4, <1>5, TopIsBest
<1>7. {p \in Prices : DepthOf("sell", p, TableRem) > 0} = S
  BY <1>1, <1>2
<1>8. \A i \in DOMAIN L : L[i].qty = DepthOf("sell", L[i].price, TableRem)
  BY <1>1, <1>6
<1>9. \A i, j \in DOMAIN L : i < j => L[i].price < L[j].price
  BY <1>4, <1>6
<1>10. \A i \in DOMAIN L, q \in S : (\A j \in DOMAIN L : L[j].price # q) => L[i].price < q
  BY <1>4, <1>6
<1> QED
  BY <1>3, <1>6, <1>7, <1>8, <1>9, <1>10 DEF IsTopOfTable

(***************************************************************************)
(* Prices are int64, so there are finitely many.                           *)
(***************************************************************************)
PricesAreFinite == IsFiniteSet(Prices)

\* End to end: between calls of an order-service that met no fault, a feed that handled all
\* there is, in order, answers the top of the table, of whatever depth is asked for.
THEOREM ShowsTheTable == ASSUME PricesAreFinite PROVE MarketSpec => []FeedShowsTable
<1>1. TypeOK /\ RuntimeInv /\ StreamIsComplete /\ StreamInv /\ ItemsInv /\ DepthInv => FeedShowsTable
  <2> SUFFICES ASSUME TypeOK, RuntimeInv, StreamIsComplete, StreamInv, ItemsInv, DepthInv,
                      MarketSubs \subseteq Subs, pc = "idle", faults = 0, InOrder, Drained,
                      NEW n \in 1..Cardinality(Prices)
               PROVE  /\ IsTopOfTable(OrderBook(n).bids, "buy", n, >)
                      /\ IsTopOfTable(OrderBook(n).asks, "sell", n, <)
    BY DEF FeedShowsTable
  <2>1. IsFiniteSet(Prices) /\ Cardinality(Prices) \in Nat
    BY PricesAreFinite, FS_CardinalityType DEF PricesAreFinite
  <2>2. n \in Nat
    BY <2>1
  <2>3. Active = InTable
    BY FeedKnowsTable
  <2>4. bids \in [Prices -> Nat] /\ asks \in [Prices -> Nat]
    BY DEF DepthInv, DepthIs
  <2>5. \A p \in Prices : bids[p] = Sum(InTable, At("buy", p)) /\ asks[p] = Sum(InTable, At("sell", p))
    BY <2>3 DEF DepthInv, DepthIs
  <2>6. \A p \in Prices : bids[p] = DepthOf("buy", p, TableRem)
    <3>1. ASSUME NEW p \in Prices PROVE bids[p] = DepthOf("buy", p, TableRem)
      <4>1. DepthOf("buy", p, TableRem) = Sum(InTable, At("buy", p))
        BY DepthOfTable
      <4> QED
        BY <2>5, <4>1
    <3> QED
      BY <3>1
  <2>7. \A p \in Prices : asks[p] = DepthOf("sell", p, TableRem)
    <3>1. ASSUME NEW p \in Prices PROVE asks[p] = DepthOf("sell", p, TableRem)
      <4>1. DepthOf("sell", p, TableRem) = Sum(InTable, At("sell", p))
        BY DepthOfTable
      <4> QED
        BY <2>5, <4>1
    <3> QED
      BY <3>1
  <2>8. IsTopOfTable(OrderBook(n).bids, "buy", n, >)
    BY <2>1, <2>2, <2>4, <2>6, BidsAreTop
  <2>9. IsTopOfTable(OrderBook(n).asks, "sell", n, <)
    BY <2>1, <2>2, <2>4, <2>7, AsksAreTop
  <2> QED
    BY <2>8, <2>9
<1> QED
  BY <1>1, MarketRunsRuntime, TypeCorrect, RuntimeInvariant, StreamComplete,
     StreamInvariant,
     ItemsInvariant, DepthInvariant, PTL

============================================================================
