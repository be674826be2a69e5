-------------------------- MODULE OrderBook_proofs --------------------------
(***************************************************************************)
(* For any number of orders, any prices and quantities: the linked levels, *)
(* the sorted prices and the index stay sound, and the book matches as     *)
(* PriceTimeBook says.                                                     *)
(*                                                                         *)
(*   Chain     the orders of a level are linked as they came: each to the  *)
(*             first of those behind it and to the last of those in front  *)
(*   BookInv   every level holds the resting orders of its price, chained  *)
(*             and counted; the prices listed are those with orders, best  *)
(*             first; the order being matched is not in the book yet       *)
(*                                                                         *)
(* BookInv says of a node only which nodes are next to it, so a step has   *)
(* to be followed no further than the neighbours of the node it moves.     *)
(* That whoever walks a level meets its orders at the places their numbers *)
(* give them is then shown of any chain, without looking at the steps.     *)
(***************************************************************************)
EXTENDS OrderBook, DataLemmas, FiniteSetTheorems, SequenceTheorems, TLAPS

----------------------------------------------------------------------------
(* Lists in the order of arrival *)

\* m came before n.
Earlier(heap, m, n) == heap[m].seq < heap[n].seq

Behind(o, M, heap) == {m \in M : Earlier(heap, o, m)}
InFront(o, M, heap) == {m \in M : Earlier(heap, m, o)}

\* The first of M to come, and the last; Nil if there is none.
IsFirst(h, M, heap) ==
  IF M = {} THEN h = Nil ELSE h \in M /\ \A m \in M \ {h} : Earlier(heap, h, m)
IsLast(t, M, heap) ==
  IF M = {} THEN t = Nil ELSE t \in M /\ \A m \in M \ {t} : Earlier(heap, m, t)

\* M has numbers of arrival that tell its orders apart.
Numbered(M, heap) ==
  /\ Nil \notin M
  /\ \A m \in M : heap[m].seq \in Nat
  /\ \A m, n \in M : heap[m].seq = heap[n].seq => m = n

\* The orders of M are linked as they came: from the first on, each to the first of
\* those behind it and back to the last of those in front of it.
Chain(M, heap, h, t) ==
  /\ IsFirst(h, M, heap) /\ IsLast(t, M, heap)
  /\ \A o \in M : /\ IsFirst(heap[o].next, Behind(o, M, heap), heap)
                  /\ IsLast(heap[o].prev, InFront(o, M, heap), heap)

\* A chain needs no more of the heap than the numbers and links of its orders.
LEMMA Unchained ==
  ASSUME NEW M, NEW heap, NEW heap2, NEW h, NEW t, Chain(M, heap, h, t),
         \A m \in M : /\ heap2[m].seq = heap[m].seq
                      /\ heap2[m].next = heap[m].next
                      /\ heap2[m].prev = heap[m].prev
  PROVE  Chain(M, heap2, h, t)
<1>1. ASSUME NEW o \in M
      PROVE  /\ Behind(o, M, heap2) = Behind(o, M, heap)
             /\ InFront(o, M, heap2) = InFront(o, M, heap)
  BY DEF Behind, InFront, Earlier
<1>2. ASSUME NEW S \in SUBSET M, NEW n
      PROVE  /\ IsFirst(n, S, heap) => IsFirst(n, S, heap2)
             /\ IsLast(n, S, heap) => IsLast(n, S, heap2)
  BY DEF IsFirst, IsLast, Earlier
<1>3. \A o \in M : Behind(o, M, heap) \in SUBSET M /\ InFront(o, M, heap) \in SUBSET M
  BY DEF Behind, InFront
<1> QED
  BY <1>1, <1>2, <1>3 DEF Chain

\* A new tail.
LEMMA ChainGrows ==
  ASSUME NEW M, NEW heap, NEW heap2, NEW h, NEW t, NEW n,
         Chain(M, heap, h, t), Numbered(M, heap), n \notin M, n # Nil,
         heap2[n].seq \in Nat, \A m \in M : heap[m].seq < heap2[n].seq,
         heap2[n].next = Nil, heap2[n].prev = t,
         \A m \in M : /\ heap2[m].seq = heap[m].seq
                      /\ heap2[m].prev = heap[m].prev
                      /\ heap2[m].next = IF m = t THEN n ELSE heap[m].next
  PROVE  Chain(M \cup {n}, heap2, IF t = Nil THEN n ELSE h, n)
<1> DEFINE N == M \cup {n}
<1>1. /\ \A m \in M : heap2[m].seq \in Nat /\ heap2[m].seq < heap2[n].seq /\ m # n
      /\ t = Nil <=> M = {}
  BY DEF Numbered, Chain, IsLast
<1>2. IsFirst(IF t = Nil THEN n ELSE h, N, heap2)
  BY <1>1 DEF IsFirst, Chain, Earlier
<1>3. IsLast(n, N, heap2)
  BY <1>1 DEF IsLast, Earlier
<1>4. ASSUME NEW o \in N
      PROVE  /\ IsFirst(heap2[o].next, Behind(o, N, heap2), heap2)
             /\ IsLast(heap2[o].prev, InFront(o, N, heap2), heap2)
  <2>1. CASE o = n
    <3>1. Behind(o, N, heap2) = {} /\ InFront(o, N, heap2) = M
      BY <1>1, <2>1 DEF Behind, InFront, Earlier
    <3>2. IsLast(t, M, heap2)
      BY DEF Chain, IsLast, Earlier
    <3> QED
      BY <2>1, <3>1, <3>2 DEF IsFirst
  <2>2. CASE o \in M
    <3>1. /\ Behind(o, N, heap2) = Behind(o, M, heap) \cup {n}
          /\ InFront(o, N, heap2) = InFront(o, M, heap)
      BY <1>1, <2>2 DEF Behind, InFront, Earlier
    <3>2. /\ IsFirst(heap[o].next, Behind(o, M, heap), heap)
          /\ IsLast(heap[o].prev, InFront(o, M, heap), heap)
      BY <2>2 DEF Chain
    <3>3. Behind(o, M, heap) \subseteq M /\ InFront(o, M, heap) \subseteq M
      BY DEF Behind, InFront
    <3>4. IsLast(heap2[o].prev, InFront(o, N, heap2), heap2)
      BY <2>2, <3>1, <3>2, <3>3 DEF IsLast, Earlier
    <3>5. CASE o = t
      <4>1. Behind(o, M, heap) = {}
        BY <2>2, <3>5 DEF Chain, IsLast, Behind, Earlier, Numbered
      <4> QED
        BY <2>2, <3>1, <3>4, <3>5, <4>1 DEF IsFirst
    <3>6. CASE o # t
      <4>1. t \in Behind(o, M, heap)
        BY <2>2, <3>6 DEF Chain, IsLast, Behind
      <4>2. heap2[o].next = heap[o].next /\ heap[o].next \in M
        BY <2>2, <3>2, <3>3, <3>6, <4>1 DEF IsFirst
      <4>3. \A m \in (Behind(o, M, heap) \cup {n}) \ {heap[o].next} :
              Earlier(heap2, heap[o].next, m)
        BY <1>1, <3>2, <3>3, <4>1, <4>2 DEF IsFirst, Earlier
      <4> QED
        BY <3>1, <3>2, <3>4, <4>1, <4>2, <4>3 DEF IsFirst
    <3> QED
      BY <3>5, <3>6
  <2> QED
    BY <2>1, <2>2
<1> QED
  BY <1>2, <1>3, <1>4 DEF Chain

\* One of them leaves: those next to it are linked to each other.
LEMMA ChainShrinks ==
  ASSUME NEW M, NEW heap, NEW heap2, NEW h, NEW t, NEW n \in M,
         Chain(M, heap, h, t), Numbered(M, heap),
         \A m \in M \ {n} :
           /\ heap2[m].seq = heap[m].seq
           /\ heap2[m].next = IF m = heap[n].prev THEN heap[n].next ELSE heap[m].next
           /\ heap2[m].prev = IF m = heap[n].next THEN heap[n].prev ELSE heap[m].prev
  PROVE  Chain(M \ {n}, heap2, IF heap[n].prev = Nil THEN heap[n].next ELSE h,
                               IF heap[n].next = Nil THEN heap[n].prev ELSE t)
<1> DEFINE N == M \ {n}
<1>1. /\ IsFirst(heap[n].next, Behind(n, M, heap), heap)
      /\ IsLast(heap[n].prev, InFront(n, M, heap), heap)
      /\ \A o \in M : /\ Behind(o, M, heap) \subseteq M \ {o}
                      /\ InFront(o, M, heap) \subseteq M \ {o}
  <2>1. \A o \in M : Behind(o, M, heap) \subseteq M \ {o}
    BY DEF Behind, Earlier, Numbered
  <2>2. \A o \in M : InFront(o, M, heap) \subseteq M \ {o}
    BY DEF InFront, Earlier, Numbered
  <2> QED
    BY <2>1, <2>2 DEF Chain
<1>2. /\ heap[n].prev = Nil <=> InFront(n, M, heap) = {}
      /\ heap[n].next = Nil <=> Behind(n, M, heap) = {}
  BY <1>1 DEF IsFirst, IsLast, Numbered
<1>3. ASSUME NEW o \in N
      PROVE  /\ Behind(o, N, heap2) = Behind(o, M, heap) \ {n}
             /\ InFront(o, N, heap2) = InFront(o, M, heap) \ {n}
  BY DEF Behind, InFront, Earlier
<1>4. ASSUME NEW S \in SUBSET N, NEW k
      PROVE  /\ IsFirst(k, S, heap) => IsFirst(k, S, heap2)
             /\ IsLast(k, S, heap) => IsLast(k, S, heap2)
  BY DEF IsFirst, IsLast, Earlier
<1>5. IsFirst(IF heap[n].prev = Nil THEN heap[n].next ELSE h, N, heap)
  <2>1. CASE heap[n].prev = Nil
    <3>1. Behind(n, M, heap) = N
      BY <1>1, <1>2, <2>1 DEF Behind, InFront, Earlier, Numbered
    <3> QED
      BY <1>1, <2>1, <3>1
  <2>2. CASE heap[n].prev # Nil
    <3>1. h # n /\ h \in M
      BY <1>1, <1>2, <2>2 DEF Chain, IsFirst, InFront, Earlier, Numbered
    <3> QED
      BY <2>2, <3>1 DEF Chain, IsFirst
  <2> QED
    BY <2>1, <2>2
<1>6. IsLast(IF heap[n].next = Nil THEN heap[n].prev ELSE t, N, heap)
  <2>1. CASE heap[n].next = Nil
    <3>1. InFront(n, M, heap) = N
      BY <1>1, <1>2, <2>1 DEF Behind, InFront, Earlier, Numbered
    <3> QED
      BY <1>1, <2>1, <3>1
  <2>2. CASE heap[n].next # Nil
    <3>1. t # n /\ t \in M
      BY <1>1, <1>2, <2>2 DEF Chain, IsLast, Behind, Earlier, Numbered
    <3> QED
      BY <2>2, <3>1 DEF Chain, IsLast
  <2> QED
    BY <2>1, <2>2
<1>7. ASSUME NEW o \in N PROVE IsFirst(heap2[o].next, Behind(o, M, heap) \ {n}, heap)
  <2>1. IsFirst(heap[o].next, Behind(o, M, heap), heap)
    BY DEF Chain
  <2>2. CASE o = heap[n].prev
    <3>1. o \in InFront(n, M, heap) /\ \A m \in InFront(n, M, heap) \ {o} : Earlier(heap, m, o)
      BY <1>1, <1>2, <2>2 DEF IsLast, Numbered
    <3>2. Behind(o, M, heap) \ {n} = Behind(n, M, heap)
      BY <3>1 DEF Behind, InFront, Earlier, Numbered
    <3> QED
      BY <1>1, <2>2, <3>2
  <2>3. CASE o # heap[n].prev
    <3>1. heap2[o].next = heap[o].next
      BY <2>3
    <3>2. CASE n \notin Behind(o, M, heap)
      BY <2>1, <3>1, <3>2 DEF IsFirst
    <3>3. CASE n \in Behind(o, M, heap)
      <4>1. o \in InFront(n, M, heap)
        BY <3>3 DEF Behind, InFront
      <4>2. heap[n].prev \in M /\ Earlier(heap, heap[n].prev, n) /\ Earlier(heap, o, heap[n].prev)
        BY <1>1, <2>3, <4>1 DEF IsLast, InFront
      <4>3. heap[n].prev \in Behind(o, M, heap) \ {n}
        BY <4>2 DEF Behind, Earlier, Numbered
      <4>4. heap[o].next # n
        BY <2>1, <4>2, <4>3 DEF IsFirst, Earlier, Numbered
      <4> QED
        BY <2>1, <3>1, <4>3, <4>4 DEF IsFirst
    <3> QED
      BY <3>2, <3>3
  <2> QED
    BY <2>2, <2>3
<1>8. ASSUME NEW o \in N PROVE IsLast(heap2[o].prev, InFront(o, M, heap) \ {n}, heap)
  <2>1. IsLast(heap[o].prev, InFront(o, M, heap), heap)
    BY DEF Chain
  <2>2. CASE o = heap[n].next
    <3>1. o \in Behind(n, M, heap) /\ \A m \in Behind(n, M, heap) \ {o} : Earlier(heap, o, m)
      BY <1>1, <1>2, <2>2 DEF IsFirst, Numbered
    <3>2. InFront(o, M, heap) \ {n} = InFront(n, M, heap)
      BY <3>1 DEF Behind, InFront, Earlier, Numbered
    <3> QED
      BY <1>1, <2>2, <3>2
  <2>3. CASE o # heap[n].next
    <3>1. heap2[o].prev = heap[o].prev
      BY <2>3
    <3>2. CASE n \notin InFront(o, M, heap)
      BY <2>1, <3>1, <3>2 DEF IsLast
    <3>3. CASE n \in InFront(o, M, heap)
      <4>1. o \in Behind(n, M, heap)
        BY <3>3 DEF Behind, InFront
      <4>2. heap[n].next \in M /\ Earlier(heap, n, heap[n].next) /\ Earlier(heap, heap[n].next, o)
        BY <1>1, <2>3, <4>1 DEF IsFirst, Behind
      <4>3. heap[n].next \in InFront(o, M, heap) \ {n}
        BY <4>2 DEF InFront, Earlier, Numbered
      <4>4. heap[o].prev # n
        BY <2>1, <4>2, <4>3 DEF IsLast, Earlier, Numbered
      <4> QED
        BY <2>1, <3>1, <4>3, <4>4 DEF IsLast
    <3> QED
      BY <3>2, <3>3
  <2> QED
    BY <2>2, <2>3
<1>9. \A o \in N : Behind(o, N, heap2) \subseteq N /\ InFront(o, N, heap2) \subseteq N
  BY DEF Behind, InFront
<1> QED
  BY <1>3, <1>4, <1>5, <1>6, <1>7, <1>8, <1>9 DEF Chain

----------------------------------------------------------------------------
(* The sorted prices of a side *)

\* What InsertAt gives.
LEMMA InsertedAt ==
  ASSUME NEW T, NEW w \in Seq(T), NEW k \in 1..Len(w), NEW p \in T
  PROVE  /\ InsertAt(w, k, p) \in Seq(T)
         /\ Len(InsertAt(w, k, p)) = Len(w) + 1
         /\ \A i \in 1..(Len(w) + 1) :
              InsertAt(w, k, p)[i] = IF i < k THEN w[i] ELSE IF i = k THEN p ELSE w[i - 1]
<1> DEFINE a == SubSeq(w, 1, k - 1)
           b == SubSeq(w, k, Len(w))
<1>1. a \in Seq(T) /\ Len(a) = k - 1 /\ \A i \in 1..(k - 1) : a[i] = w[i]
  BY SubSeqProperties
<1>2. b \in Seq(T) /\ Len(b) = Len(w) - k + 1 /\ \A i \in 1..Len(b) : b[i] = w[k + i - 1]
  BY SubSeqProperties
<1>3. InsertAt(w, k, p) = (a \o <<p>>) \o b
  BY DEF InsertAt
<1> HIDE DEF a, b
<1> DEFINE c == a \o <<p>>
<1>4. c \in Seq(T) /\ Len(c) = k /\ \A i \in 1..k : c[i] = IF i < k THEN w[i] ELSE p
  <2>1. <<p>> \in Seq(T) /\ Len(<<p>>) = 1 /\ <<p>>[1] = p
    OBVIOUS
  <2>2. /\ c \in Seq(T) /\ Len(c) = Len(a) + 1
        /\ \A i \in 1..(Len(a) + 1) : c[i] = IF i <= Len(a) THEN a[i] ELSE <<p>>[i - Len(a)]
    BY <1>1, <2>1, ConcatProperties
  <2> HIDE DEF c
  <2> QED
    BY <1>1, <2>1, <2>2
<1> HIDE DEF c
<1>5. /\ c \o b \in Seq(T) /\ Len(c \o b) = Len(w) + 1
      /\ \A i \in 1..(Len(w) + 1) : (c \o b)[i] = IF i <= k THEN c[i] ELSE b[i - k]
  <2>1. /\ c \o b \in Seq(T) /\ Len(c \o b) = Len(c) + Len(b)
        /\ \A i \in 1..(Len(c) + Len(b)) :
             (c \o b)[i] = IF i <= Len(c) THEN c[i] ELSE b[i - Len(c)]
    BY <1>2, <1>4, ConcatProperties
  <2> QED
    BY <1>2, <1>4, <2>1
<1>6. ASSUME NEW i \in 1..(Len(w) + 1)
      PROVE  InsertAt(w, k, p)[i] = IF i < k THEN w[i] ELSE IF i = k THEN p ELSE w[i - 1]
  <2>1. CASE i <= k
    BY <1>3, <1>4, <1>5, <2>1 DEF c
  <2>2. CASE i > k
    <3>1. i - k \in 1..Len(b) /\ k + (i - k) - 1 = i - 1
      BY <1>2, <2>2
    <3> QED
      BY <1>2, <1>3, <1>5, <2>2, <3>1 DEF c
  <2> QED
    BY <2>1, <2>2
<1> QED
  BY <1>3, <1>5, <1>6 DEF c

\* What RemoveAt gives.
LEMMA RemovedAt ==
  ASSUME NEW T, NEW w \in Seq(T), NEW k \in 1..Len(w)
  PROVE  /\ RemoveAt(w, k) \in Seq(T)
         /\ Len(RemoveAt(w, k)) = Len(w) - 1
         /\ \A i \in 1..(Len(w) - 1) : RemoveAt(w, k)[i] = IF i < k THEN w[i] ELSE w[i + 1]
<1> DEFINE a == SubSeq(w, 1, k - 1)
           b == SubSeq(w, k + 1, Len(w))
<1>1. a \in Seq(T) /\ Len(a) = k - 1 /\ \A i \in 1..(k - 1) : a[i] = w[i]
  BY SubSeqProperties
<1>2. b \in Seq(T) /\ Len(b) = Len(w) - k /\ \A i \in 1..Len(b) : b[i] = w[k + i]
  BY SubSeqProperties
<1>3. RemoveAt(w, k) = a \o b
  BY DEF RemoveAt
<1> HIDE DEF a, b
<1>4. /\ a \o b \in Seq(T) /\ Len(a \o b) = Len(w) - 1
      /\ \A i \in 1..(Len(w) - 1) : (a \o b)[i] = IF i < k THEN a[i] ELSE b[i - k + 1]
  <2>1. /\ a \o b \in Seq(T) /\ Len(a \o b) = Len(a) + Len(b)
        /\ \A i \in 1..(Len(a) + Len(b)) :
             (a \o b)[i] = IF i <= Len(a) THEN a[i] ELSE b[i - Len(a)]
    BY <1>1, <1>2, ConcatProperties
  <2> QED
    BY <1>1, <1>2, <2>1
<1>5. ASSUME NEW i \in 1..(Len(w) - 1)
      PROVE  RemoveAt(w, k)[i] = IF i < k THEN w[i] ELSE w[i + 1]
  <2>1. CASE i < k
    BY <1>1, <1>3, <1>4, <2>1
  <2>2. CASE i >= k
    <3>1. i - k + 1 \in 1..Len(b) /\ k + (i - k + 1) = i + 1
      BY <1>2, <2>2
    <3> QED
      BY <1>2, <1>3, <1>4, <2>2, <3>1
  <2> QED
    BY <2>1, <2>2
<1> QED
  BY <1>3, <1>4, <1>5

\* Sorted, and no price twice.
BestFirst(s, w) == \A i, j \in 1..Len(w) : i < j => Better(s, w[i], w[j])

\* Better is a strict order of the prices.
LEMMA BetterOrders ==
  ASSUME NEW s \in Sides
  PROVE  /\ \A p, q, r \in Nat : Better(s, p, q) /\ Better(s, q, r) => Better(s, p, r)
         /\ \A p, q \in Nat : Better(s, p, q) \/ Better(s, q, p) \/ p = q
         /\ \A p, q \in Nat : Better(s, p, q) => p # q /\ ~ Better(s, q, p)
BY DEF Better

\* A new price goes where it belongs.
LEMMA PriceInserted ==
  ASSUME Prices \subseteq Nat, NEW s \in Sides, NEW p \in Prices,
         prices[s] \in Seq(Prices), BestFirst(s, prices[s]), p \notin ToSet(prices[s])
  PROVE  /\ InsertPrice(s, p) \in Seq(Prices)
         /\ BestFirst(s, InsertPrice(s, p))
         /\ ToSet(InsertPrice(s, p)) = ToSet(prices[s]) \cup {p}
<1>1. PICK w : w = prices[s]
  OBVIOUS
<1> DEFINE I == {i \in 1..Len(w) : Better(s, p, w[i])}
           r == InsertPrice(s, p)
<1>2. r = IF I # {} THEN (IF Min(I) = 0 THEN Append(w, p) ELSE InsertAt(w, Min(I), p))
                    ELSE Append(w, p)
  BY <1>1 DEF InsertPrice, SelectInSeq
<1>3. I # {} => Min(I) \in I /\ \A i \in I : Min(I) <= i
  <2>1. IsFiniteSet(1..Len(w)) /\ I \in SUBSET Nat /\ I \in SUBSET (1..Len(w))
    BY <1>1, FS_Interval
  <2>2. IsFiniteSet(I)
    BY <2>1, FS_Subset
  <2> HIDE DEF I
  <2> QED
    BY <2>1, <2>2, LeastExists
<1>4. w \in Seq(Prices) /\ BestFirst(s, w) /\ p \notin ToSet(w)
  BY <1>1
<1>5. \A i \in 1..Len(w) : w[i] \in Prices /\ w[i] # p
  BY <1>4 DEF ToSet
<1> HIDE DEF r
<1>6. CASE I = {}
  <2>1. r = Append(w, p) /\ \A i \in 1..Len(w) : ~ Better(s, p, w[i])
    BY <1>2, <1>6
  <2>2. /\ r \in Seq(Prices) /\ Len(r) = Len(w) + 1
        /\ \A i \in 1..Len(w) : r[i] = w[i]
        /\ r[Len(w) + 1] = p
    BY <1>4, <2>1
  <2>3. \A i \in 1..Len(w) : Better(s, w[i], p)
    BY <1>5, <2>1, BetterOrders
  <2>4. Len(w) \in Nat /\ DOMAIN w = 1..Len(w) /\ DOMAIN r = 1..(Len(w) + 1)
    BY <1>4, <2>2
  <2>5. BestFirst(s, r)
    <3> SUFFICES ASSUME NEW i \in 1..(Len(w) + 1), NEW j \in 1..(Len(w) + 1), i < j
                 PROVE  Better(s, r[i], r[j])
      BY <2>2 DEF BestFirst
    <3>1. i \in 1..Len(w) /\ r[i] = w[i]
      BY <2>2, <2>4
    <3>2. CASE j = Len(w) + 1
      BY <2>2, <2>3, <3>1, <3>2
    <3>3. CASE j # Len(w) + 1
      <4>1. j \in 1..Len(w) /\ r[j] = w[j]
        BY <2>2, <2>4, <3>3
      <4> QED
        BY <1>4, <3>1, <4>1 DEF BestFirst
    <3> QED
      BY <3>2, <3>3
  <2>6. ToSet(r) = ToSet(w) \cup {p}
    BY <2>2, <2>4 DEF ToSet
  <2> QED
    BY <1>1, <2>2, <2>5, <2>6 DEF r
<1>7. CASE I # {}
  <2>1. PICK k \in 1..Len(w) : /\ r = InsertAt(w, k, p)
                               /\ Better(s, p, w[k])
                               /\ \A i \in 1..Len(w) : Better(s, p, w[i]) => k <= i
    <3>1. Min(I) \in I /\ \A i \in I : Min(I) <= i
      BY <1>7, <1>3
    <3> DEFINE k == Min(I)
    <3>2. k \in 1..Len(w) /\ Better(s, p, w[k])
      BY <3>1
    <3>3. \A i \in 1..Len(w) : Better(s, p, w[i]) => k <= i
      BY <3>1
    <3>4. r = InsertAt(w, k, p)
      BY <1>2, <1>7, <3>2
    <3> QED
      BY <3>2, <3>3, <3>4
  <2>2. /\ r \in Seq(Prices) /\ Len(r) = Len(w) + 1
        /\ \A i \in 1..(Len(w) + 1) :
             r[i] = IF i < k THEN w[i] ELSE IF i = k THEN p ELSE w[i - 1]
    BY <1>4, <2>1, InsertedAt
  <2> HIDE DEF I
  <2>3. Len(w) \in Nat /\ p \in Nat /\ \A i \in 1..Len(w) : w[i] \in Nat
    <3>1. Len(w) \in Nat
      BY <1>4
    <3> QED
      BY <1>5, <3>1
  <2>4. \A i \in 1..Len(w) : /\ i < k => Better(s, w[i], p)
                             /\ i >= k => Better(s, p, w[i])
    <3> SUFFICES ASSUME NEW i \in 1..Len(w)
                 PROVE  /\ i < k => Better(s, w[i], p)
                        /\ i >= k => Better(s, p, w[i])
      OBVIOUS
    <3>1. CASE i < k
      BY <1>5, <2>1, <2>3, <3>1, BetterOrders
    <3>2. CASE i = k
      BY <2>1, <3>2
    <3>3. CASE i > k
      <4>1. Better(s, w[k], w[i])
        BY <1>4, <3>3 DEF BestFirst
      <4> QED
        BY <2>1, <2>3, <3>3, <4>1, BetterOrders
    <3> QED
      BY <2>3, <3>1, <3>2, <3>3
  <2>5. BestFirst(s, r)
    <3> SUFFICES ASSUME NEW i \in 1..Len(r), NEW j \in 1..Len(r), i < j
                 PROVE  Better(s, r[i], r[j])
      BY DEF BestFirst
    <3> DEFINE old(m) == IF m < k THEN m ELSE m - 1
    <3>1. \A m \in 1..Len(r) : m # k => old(m) \in 1..Len(w) /\ r[m] = w[old(m)]
      BY <2>2, <2>3
    <3>2. r[k] = p
      BY <2>2, <2>3
    <3>3. CASE i = k
      BY <2>2, <2>3, <2>4, <3>1, <3>2, <3>3, SMTT(30)
    <3>4. CASE j = k
      BY <2>2, <2>3, <2>4, <3>1, <3>2, <3>4
    <3>5. CASE i # k /\ j # k
      <4>1. old(i) < old(j)
        BY <2>2, <2>3, <3>5
      <4>2. old(i) \in 1..Len(w) /\ old(j) \in 1..Len(w) /\ r[i] = w[old(i)] /\ r[j] = w[old(j)]
        BY <3>1, <3>5
      <4> HIDE DEF old
      <4> QED
        BY <1>4, <4>1, <4>2 DEF BestFirst
    <3> QED
      BY <3>3, <3>4, <3>5
  <2>6. ToSet(r) = ToSet(w) \cup {p}
    <3>1. ASSUME NEW i \in 1..Len(r) PROVE r[i] \in ToSet(w) \cup {p}
      BY <1>4, <2>2, <2>3 DEF ToSet
    <3>2. p \in ToSet(r)
      <4>1. r[k] = p /\ k \in DOMAIN r
        BY <2>2, <2>3
      <4> QED
        BY <4>1 DEF ToSet
    <3>3. ASSUME NEW i \in 1..Len(w) PROVE w[i] \in ToSet(r)
      <4>1. w[i] = r[IF i < k THEN i ELSE i + 1] /\ (IF i < k THEN i ELSE i + 1) \in DOMAIN r
        BY <2>2, <2>3
      <4> QED
        BY <4>1 DEF ToSet
    <3>4. DOMAIN r = 1..Len(r) /\ DOMAIN w = 1..Len(w)
      BY <1>4, <2>2
    <3> QED
      BY <3>1, <3>2, <3>3, <3>4 DEF ToSet
  <2> QED
    BY <1>1, <2>2, <2>5, <2>6 DEF r
<1> QED
  BY <1>6, <1>7

\* A price that is listed leaves.
LEMMA PriceRemoved ==
  ASSUME NEW s \in Sides, NEW w \in Seq(Nat), BestFirst(s, w), NEW p \in ToSet(w)
  PROVE  /\ \A T : w \in Seq(T) => RemoveFirst(w, p) \in Seq(T)
         /\ BestFirst(s, RemoveFirst(w, p))
         /\ ToSet(RemoveFirst(w, p)) = ToSet(w) \ {p}
<1> DEFINE I == {i \in 1..Len(w) : w[i] = p}
           r == RemoveFirst(w, p)
<1>1. PICK k \in 1..Len(w) : w[k] = p
  BY DEF ToSet
<1>2. I = {k}
  BY <1>1, BetterOrders DEF BestFirst
<1>3. Min(I) = k
  BY <1>2 DEF Min
<1>4. r = RemoveAt(w, k)
  <2>1. SelectInSeq(w, LAMBDA v : v = p) = k
    BY <1>2, <1>3 DEF SelectInSeq
  <2> QED
    BY <1>1, <2>1 DEF RemoveFirst
<1> HIDE DEF r, I
<1>5. \A T : w \in Seq(T) => r \in Seq(T)
  BY <1>4, RemovedAt
<1>6. /\ Len(r) = Len(w) - 1 /\ r \in Seq(Nat)
      /\ \A i \in 1..(Len(w) - 1) : r[i] = IF i < k THEN w[i] ELSE w[i + 1]
  BY <1>4, RemovedAt
<1>7. Len(w) \in Nat /\ DOMAIN w = 1..Len(w) /\ DOMAIN r = 1..Len(r)
  BY <1>6
<1> DEFINE old(m) == IF m < k THEN m ELSE m + 1
<1>8. \A m \in 1..Len(r) : old(m) \in 1..Len(w) /\ old(m) # k /\ r[m] = w[old(m)]
  BY <1>6, <1>7, SMTT(30)
<1>9. BestFirst(s, r)
  <2> SUFFICES ASSUME NEW i \in 1..Len(r), NEW j \in 1..Len(r), i < j
               PROVE  Better(s, r[i], r[j])
    BY DEF BestFirst
  <2>1. old(i) < old(j)
    BY <1>6, <1>7, SMTT(30)
  <2> HIDE DEF old
  <2> QED
    BY <1>8, <2>1 DEF BestFirst
<1>10. ToSet(r) = ToSet(w) \ {p}
  <2>1. \A i \in 1..Len(w) : w[i] = p => i = k
    BY <1>1, BetterOrders DEF BestFirst
  <2>2. ASSUME NEW i \in 1..Len(r) PROVE r[i] \in ToSet(w) \ {p}
    <3>1. old(i) \in 1..Len(w) /\ w[old(i)] # p /\ r[i] = w[old(i)]
      BY <1>8, <2>1
    <3> QED
      BY <1>7, <3>1 DEF ToSet
  <2>3. ASSUME NEW i \in 1..Len(w), w[i] # p PROVE w[i] \in ToSet(r)
    <3>1. PICK j \in 1..Len(r) : r[j] = w[i]
      <4>1. CASE i < k
        <5>1. i \in 1..Len(r) /\ r[i] = w[i]
          BY <1>6, <1>7, <4>1, SMTT(30)
        <5> QED
          BY <5>1
      <4>2. CASE i > k
        <5>1. i - 1 \in 1..Len(r) /\ r[i - 1] = w[i]
          BY <1>6, <1>7, <4>2, SMTT(30)
        <5> QED
          BY <5>1
      <4>3. i # k
        BY <1>1, <2>3
      <4> QED
        BY <4>1, <4>2, <4>3
    <3> QED
      BY <1>7, <3>1 DEF ToSet
  <2> QED
    BY <1>7, <2>2, <2>3 DEF ToSet
<1> QED
  BY <1>5, <1>9, <1>10 DEF r

----------------------------------------------------------------------------
(* The invariant *)

\* The resting orders of one level.
At(ids, heap, s, p) == {o \in ids : heap[o].side = s /\ heap[o].price = p}

\* Level l holds the orders M.
Linked(l, M, heap) == l.len = Cardinality(M) /\ Chain(M, heap, l.head, l.tail)

EveryLevelLinked ==
  \A s \in Sides, p \in Prices : Linked(levels[s][p], At(byID, node, s, p), node)

\* The prices somebody rests at.
Occupied(s) == {p \in Prices : At(byID, node, s, p) # {}}

PricesListed ==
  \A s \in Sides : BestFirst(s, prices[s]) /\ ToSet(prices[s]) = Occupied(s)

RestingOrders ==
  /\ byID \subseteq 1..used
  /\ \A o \in byID : node[o].price \in Prices /\ node[o].rem > 0 /\ node[o].seq \in 1..nextSeq
  /\ Numbered(byID, node)

\* The order being matched is the last that came, and not in the book; the rebuild is over.
TakerWaits ==
  taker # Nil =>
    /\ inUse
    /\ taker = used /\ taker \notin byID
    /\ nextSeq < used
    /\ node[taker].price \in Prices
    /\ node[taker].next = Nil

BookInv == /\ TypeOK /\ RestingOrders /\ TakerWaits /\ nextSeq <= used
           /\ EveryLevelLinked /\ PricesListed

\* Sizes of finite sets.
LEMMA Sizes ==
  /\ \A M : IsFiniteSet(M) => Cardinality(M) \in Nat /\ (Cardinality(M) = 0 <=> M = {})
  /\ \A M, n : IsFiniteSet(M) /\ n \notin M => Cardinality(M \cup {n}) = Cardinality(M) + 1
  /\ \A M, n : IsFiniteSet(M) /\ n \in M => Cardinality(M \ {n}) = Cardinality(M) - 1
<1>1. \A M : IsFiniteSet(M) => Cardinality(M) \in Nat /\ (Cardinality(M) = 0 <=> M = {})
  BY FS_CardinalityType, FS_EmptySet
<1>2. \A M, n : IsFiniteSet(M) /\ n \notin M => Cardinality(M \cup {n}) = Cardinality(M) + 1
  BY FS_AddElement
<1>3. \A M, n : IsFiniteSet(M) /\ n \in M => Cardinality(M \ {n}) = Cardinality(M) - 1
  BY FS_RemoveElement
<1> QED
  BY <1>1, <1>2, <1>3

\* The orders of a level are finitely many.
LEMMA LevelsAreFinite ==
  ASSUME TypeOK, NEW s, NEW p
  PROVE  /\ IsFiniteSet(byID) /\ IsFiniteSet(At(byID, node, s, p))
         /\ At(byID, node, s, p) \subseteq byID
<1>1. byID \in SUBSET (1..MaxOrders) /\ IsFiniteSet(1..MaxOrders)
  BY OrderBookAssumption, FS_Interval DEF TypeOK, OrderId
<1>2. IsFiniteSet(byID)
  BY <1>1, FS_Subset
<1>3. At(byID, node, s, p) \in SUBSET byID
  BY DEF At
<1> QED
  BY <1>2, <1>3, FS_Subset

\* A level without orders is no level.
LEMMA EmptyLevel ==
  ASSUME NEW l \in Level, NEW M, NEW heap, Linked(l, M, heap), IsFiniteSet(M), Nil \notin M
  PROVE  /\ M = {} <=> l = NoLevel
         /\ M = {} <=> l.tail = Nil
         /\ l.len = Cardinality(M) /\ l.len \in Nat
<1>1. M = {} => l.head = Nil /\ l.tail = Nil /\ l.len = 0
  BY Sizes DEF Linked, Chain, IsFirst, IsLast
<1>2. M = {} => l = NoLevel
  BY <1>1 DEF Level, NoLevel
<1>3. l.tail = Nil => M = {}
  BY DEF Linked, Chain, IsLast
<1>4. l = NoLevel => l.tail = Nil
  BY DEF NoLevel
<1> QED
  BY <1>1, <1>2, <1>3, <1>4, Sizes DEF Linked

\* Orders, prices and quantities are numbers, and Nil is no order.
LEMMA Arithmetic ==
  /\ MaxOrders \in Nat /\ Prices \subseteq Nat /\ Quantities \subseteq Nat
  /\ \A q \in Quantities : q > 0
  /\ \A p \in Prices : p > 0
  /\ Nil \notin OrderId
BY OrderBookAssumption DEF OrderId, Nil

\* A new node at the tail of its level: every level is linked, the prices are listed.
LEMMA NodeIsAdded ==
  ASSUME BookInv, NEW n \in OrderId \ byID, NEW new \in Node,
         new.price \in Prices, new.next = Nil, new.seq = nextSeq + 1,
         AddNode(n, new), byID' = byID \cup {n}
  PROVE  /\ node' \in [OrderId -> Node]
         /\ \A o \in OrderId : /\ o # n => /\ node'[o].side = node[o].side
                                           /\ node'[o].price = node[o].price
                                           /\ node'[o].rem = node[o].rem
                                           /\ node'[o].seq = node[o].seq
         /\ node'[n].side = new.side /\ node'[n].price = new.price
         /\ node'[n].rem = new.rem /\ node'[n].seq = new.seq
         /\ levels' \in [Sides -> [Prices -> Level]]
         /\ prices' \in [Sides -> Seq(Prices)]
         /\ EveryLevelLinked' /\ PricesListed'
<1> DEFINE s0 == new.side
           p0 == new.price
           l == levels[s0][p0]
           M0 == At(byID, node, s0, p0)
<1>1. /\ s0 \in Sides /\ p0 \in Prices /\ l \in Level /\ n # Nil /\ Nil \notin byID
      /\ new.rem \in Nat /\ new.seq \in Nat /\ new.prev \in OrderId \cup {Nil}
  BY Arithmetic DEF BookInv, TypeOK, Node
<1>2. Linked(l, M0, node) /\ IsFiniteSet(M0) /\ M0 \subseteq byID /\ Nil \notin M0 /\ n \notin M0
  BY <1>1, LevelsAreFinite DEF BookInv, EveryLevelLinked
<1>3. /\ M0 = {} <=> l = NoLevel
      /\ M0 = {} <=> l.tail = Nil
      /\ l.len = Cardinality(M0) /\ l.len \in Nat
  BY <1>1, <1>2, EmptyLevel
<1>4. l.tail \in M0 \cup {Nil} /\ l.head \in M0 \cup {Nil}
  BY <1>2 DEF Linked, Chain, IsLast, IsFirst
<1>5. /\ node' = [o \in OrderId |->
                   IF o = n THEN [new EXCEPT !.prev = l.tail, !.inLevel = TRUE]
                   ELSE IF o = l.tail THEN [node[o] EXCEPT !.next = n]
                   ELSE node[o]]
      /\ levels' = [levels EXCEPT ![s0][p0] =
                     [head |-> IF l.tail = Nil THEN n ELSE l.head,
                      tail |-> n, len |-> l.len + 1]]
      /\ prices' = IF l = NoLevel THEN [prices EXCEPT ![s0] = InsertPrice(s0, p0)]
                                 ELSE prices
  BY DEF AddNode
<1> HIDE DEF l, M0, s0, p0
<1>6. node \in [OrderId -> Node] /\ byID \subseteq OrderId /\ n \notin byID /\ nextSeq \in Nat
  BY DEF BookInv, TypeOK
<1>7. node' \in [OrderId -> Node]
  <2> SUFFICES ASSUME NEW o \in OrderId
               PROVE  (IF o = n THEN [new EXCEPT !.prev = l.tail, !.inLevel = TRUE]
                       ELSE IF o = l.tail THEN [node[o] EXCEPT !.next = n]
                       ELSE node[o]) \in Node
    BY <1>5
  <2>1. l.tail \in OrderId \cup {Nil}
    BY <1>2, <1>4, <1>6
  <2>2. [new EXCEPT !.prev = l.tail, !.inLevel = TRUE] \in Node
    BY <2>1 DEF Node
  <2>3. node[o] \in Node /\ [node[o] EXCEPT !.next = n] \in Node
    BY <1>6 DEF Node
  <2> QED
    BY <2>2, <2>3
<1>8. \A o \in OrderId \ {n} :
        /\ node'[o].side = node[o].side /\ node'[o].price = node[o].price
        /\ node'[o].rem = node[o].rem /\ node'[o].seq = node[o].seq
        /\ node'[o].prev = node[o].prev
        /\ node'[o].next = IF o = l.tail THEN n ELSE node[o].next
  BY <1>5, <1>6 DEF Node
<1>9. /\ node'[n].side = s0 /\ node'[n].price = p0 /\ node'[n].rem = new.rem
      /\ node'[n].seq = nextSeq + 1 /\ node'[n].prev = l.tail /\ node'[n].next = Nil
  BY <1>5 DEF Node, s0, p0
<1>10. levels' \in [Sides -> [Prices -> Level]]
  <2>1. [head |-> IF l.tail = Nil THEN n ELSE l.head, tail |-> n, len |-> l.len + 1] \in Level
    BY <1>2, <1>3, <1>4, <1>6 DEF Level
  <2> QED
    BY <1>1, <1>5, <2>1 DEF BookInv, TypeOK
<1>11. \A s \in Sides, p \in Prices :
         levels'[s][p] = IF s = s0 /\ p = p0
                           THEN [head |-> IF l.tail = Nil THEN n ELSE l.head,
                                 tail |-> n, len |-> l.len + 1]
                           ELSE levels[s][p]
  BY <1>1, <1>5 DEF BookInv, TypeOK
<1>12. \A s, p : At(byID', node', s, p) = IF s = s0 /\ p = p0 THEN M0 \cup {n}
                                                             ELSE At(byID, node, s, p)
  BY <1>6, <1>8, <1>9 DEF At, M0
<1>13. EveryLevelLinked'
  <2> SUFFICES ASSUME NEW s \in Sides, NEW p \in Prices
               PROVE  Linked(levels'[s][p], At(byID', node', s, p), node')
    BY DEF EveryLevelLinked
  <2>1. CASE s = s0 /\ p = p0
    <3>1. Chain(M0, node, l.head, l.tail) /\ Numbered(M0, node)
      BY <1>2 DEF Linked, BookInv, RestingOrders, Numbered
    <3>2. \A m \in M0 : node[m].seq < nextSeq + 1
      BY <1>2, <1>6 DEF BookInv, RestingOrders
    <3>3. \A m \in M0 : /\ node'[m].seq = node[m].seq
                        /\ node'[m].prev = node[m].prev
                        /\ node'[m].next = IF m = l.tail THEN n ELSE node[m].next
      BY <1>2, <1>6, <1>8
    <3>4. Chain(M0 \cup {n}, node', IF l.tail = Nil THEN n ELSE l.head, n)
      <4>1. PICK M, heap, heap2, h, t :
              M = M0 /\ heap = node /\ heap2 = node' /\ h = l.head /\ t = l.tail
        OBVIOUS
      <4>2. /\ Chain(M, heap, h, t) /\ Numbered(M, heap) /\ n \notin M /\ n # Nil
            /\ heap2[n].seq \in Nat /\ \A m \in M : heap[m].seq < heap2[n].seq
            /\ heap2[n].next = Nil /\ heap2[n].prev = t
        BY <1>1, <1>2, <1>6, <1>9, <3>1, <3>2, <4>1
      <4>3. \A m \in M : /\ heap2[m].seq = heap[m].seq
                         /\ heap2[m].prev = heap[m].prev
                         /\ heap2[m].next = IF m = t THEN n ELSE heap[m].next
        BY <3>3, <4>1
      <4>4. Chain(M \cup {n}, heap2, IF t = Nil THEN n ELSE h, n)
        BY <4>2, <4>3, ChainGrows, SMTT(30)
      <4> QED
        BY <4>1, <4>4
    <3>5. Cardinality(M0 \cup {n}) = l.len + 1
      BY <1>2, <1>3, Sizes
    <3> QED
      BY <1>11, <1>12, <2>1, <3>4, <3>5 DEF Linked
  <2>2. CASE ~ (s = s0 /\ p = p0)
    <3>1. Linked(levels[s][p], At(byID, node, s, p), node)
      BY DEF BookInv, EveryLevelLinked
    <3>2. l.tail \notin At(byID, node, s, p)
      BY <1>1, <1>4, <2>2 DEF At, M0
    <3>3. \A m \in At(byID, node, s, p) : /\ node'[m].seq = node[m].seq
                                          /\ node'[m].next = node[m].next
                                          /\ node'[m].prev = node[m].prev
      BY <1>6, <1>8, <3>2 DEF At
    <3>4. Chain(At(byID, node, s, p), node', levels[s][p].head, levels[s][p].tail)
      BY <3>1, <3>3, Unchained DEF Linked
    <3> QED
      BY <1>11, <1>12, <2>2, <3>1, <3>4 DEF Linked
  <2> QED
    BY <2>1, <2>2
<1>14. PricesListed' /\ prices' \in [Sides -> Seq(Prices)]
  <2>1. /\ prices \in [Sides -> Seq(Prices)]
        /\ \A s \in Sides : BestFirst(s, prices[s]) /\ ToSet(prices[s]) = Occupied(s)
    BY DEF BookInv, TypeOK, PricesListed
  <2>2. \A s : Occupied(s)' = IF s = s0 THEN Occupied(s) \cup {p0} ELSE Occupied(s)
    BY <1>1, <1>12 DEF Occupied, M0
  <2>3. CASE l = NoLevel
    <3>1. p0 \notin ToSet(prices[s0])
      BY <1>1, <1>3, <2>1, <2>3 DEF Occupied, M0
    <3>2. /\ InsertPrice(s0, p0) \in Seq(Prices)
          /\ BestFirst(s0, InsertPrice(s0, p0))
          /\ ToSet(InsertPrice(s0, p0)) = ToSet(prices[s0]) \cup {p0}
      BY <1>1, <2>1, <3>1, Arithmetic, PriceInserted
    <3>3. \A s \in Sides : prices'[s] = IF s = s0 THEN InsertPrice(s0, p0) ELSE prices[s]
      BY <1>5, <2>1, <2>3
    <3>4. prices' \in [Sides -> Seq(Prices)]
      BY <1>5, <2>1, <2>3, <3>2
    <3>5. PricesListed'
      BY <2>1, <2>2, <3>2, <3>3 DEF PricesListed
    <3> QED
      BY <3>4, <3>5
  <2>4. CASE l # NoLevel
    <3>1. p0 \in Occupied(s0)
      BY <1>1, <1>3, <2>4 DEF Occupied, M0
    <3>2. prices' = prices /\ \A s : Occupied(s)' = Occupied(s)
      BY <1>5, <2>2, <2>4, <3>1
    <3> QED
      BY <2>1, <3>2 DEF PricesListed
  <2> QED
    BY <2>3, <2>4
<1> QED
  BY <1>6, <1>7, <1>8, <1>9, <1>10, <1>13, <1>14 DEF s0, p0

\* The heap with nothing but what is left of n changed.
OnlyRemOf(n, nodes) ==
  /\ nodes \in [OrderId -> Node]
  /\ \A o \in OrderId :
       /\ nodes[o].side = node[o].side /\ nodes[o].price = node[o].price
       /\ nodes[o].seq = node[o].seq
       /\ nodes[o].prev = node[o].prev /\ nodes[o].next = node[o].next
       /\ o # n => nodes[o].rem = node[o].rem

\* A node leaves its level: every level is linked, the prices are listed.
LEMMA NodeIsRemoved ==
  ASSUME BookInv, NEW n \in byID, NEW nodes, OnlyRemOf(n, nodes), RemoveNode(nodes, n)
  PROVE  /\ node' \in [OrderId -> Node] /\ byID' = byID \ {n}
         /\ \A o \in OrderId : /\ node'[o].side = node[o].side
                               /\ node'[o].price = node[o].price
                               /\ node'[o].seq = node[o].seq
                               /\ o # n => node'[o].rem = node[o].rem
                               /\ o \notin byID => node'[o].next = node[o].next
         /\ levels' \in [Sides -> [Prices -> Level]]
         /\ prices' \in [Sides -> Seq(Prices)]
         /\ EveryLevelLinked' /\ PricesListed'
<1> DEFINE s0 == node[n].side
           p0 == node[n].price
           l == levels[s0][p0]
           M0 == At(byID, node, s0, p0)
           l2 == LevelWithout(l, n)
<1>1. node \in [OrderId -> Node] /\ byID \subseteq OrderId /\ n \in OrderId
  BY DEF BookInv, TypeOK
<1>2. /\ s0 \in Sides /\ p0 \in Prices /\ l \in Level /\ Nil \notin byID
  <2>1. s0 \in Sides
    BY <1>1 DEF Node
  <2>2. p0 \in Prices
    BY DEF BookInv, RestingOrders
  <2>3. l \in Level
    BY <2>1, <2>2 DEF BookInv, TypeOK
  <2>4. Nil \notin byID
    BY <1>1, Arithmetic
  <2> HIDE DEF l, s0, p0
  <2> QED
    BY <2>1, <2>2, <2>3, <2>4
<1>3. Linked(l, M0, node) /\ IsFiniteSet(M0) /\ M0 \subseteq byID /\ Nil \notin M0 /\ n \in M0
  <2>1. n \in M0
    BY DEF At
  <2>2. Linked(l, M0, node)
    BY <1>2 DEF BookInv, EveryLevelLinked
  <2>3. IsFiniteSet(M0) /\ M0 \subseteq byID
    BY LevelsAreFinite DEF BookInv
  <2> HIDE DEF l, M0
  <2> QED
    BY <1>2, <2>1, <2>2, <2>3
<1>4. l.len = Cardinality(M0) /\ l.len \in Nat /\ Numbered(M0, node)
  BY <1>2, <1>3, EmptyLevel DEF BookInv, RestingOrders, Numbered
<1>5. /\ l.tail \in M0 \cup {Nil} /\ l.head \in M0 \cup {Nil}
      /\ node[n].prev \in M0 \cup {Nil} /\ node[n].next \in M0 \cup {Nil}
  <2>1. l.tail \in M0 \cup {Nil} /\ l.head \in M0 \cup {Nil}
    BY <1>3 DEF Linked, Chain, IsLast, IsFirst
  <2>2. node[n].prev \in M0 \cup {Nil} /\ node[n].next \in M0 \cup {Nil}
    BY <1>3 DEF Linked, Chain, IsLast, IsFirst, Behind, InFront
  <2> QED
    BY <2>1, <2>2
<1>6. node[n].prev # n /\ node[n].next # n
  <2>1. ~ Earlier(node, n, n)
    BY <1>3, <1>4 DEF Earlier, Numbered
  <2>2. n \notin Behind(n, M0, node) /\ n \notin InFront(n, M0, node) /\ n # Nil
    BY <1>3, <2>1 DEF Behind, InFront
  <2>3. /\ IsFirst(node[n].next, Behind(n, M0, node), node)
        /\ IsLast(node[n].prev, InFront(n, M0, node), node)
    BY <1>3 DEF Linked, Chain
  <2> QED
    BY <2>2, <2>3 DEF IsFirst, IsLast
<1>7. /\ node' = [o \in OrderId |->
           IF o = n THEN [nodes[n] EXCEPT !.prev = Nil, !.next = Nil, !.inLevel = FALSE]
           ELSE IF o = nodes[n].prev THEN [nodes[o] EXCEPT !.next = nodes[n].next]
           ELSE IF o = nodes[n].next THEN [nodes[o] EXCEPT !.prev = nodes[n].prev]
           ELSE nodes[o]]
      /\ levels' = [levels EXCEPT ![s0][p0] = IF l2.len = 0 THEN NoLevel ELSE l2]
      /\ prices' = IF l2.len = 0 THEN [prices EXCEPT ![s0] = RemoveFirst(@, p0)] ELSE prices
      /\ byID' = byID \ {n}
  BY DEF RemoveNode, Unlinked
<1>8. l2 = [head |-> IF node[n].prev = Nil THEN node[n].next ELSE l.head,
             tail |-> IF node[n].next = Nil THEN node[n].prev ELSE l.tail,
             len  |-> l.len - 1]
  BY DEF LevelWithout
<1> HIDE DEF l, M0, s0, p0, l2
<1>9. node' \in [OrderId -> Node]
  <2> SUFFICES ASSUME NEW o \in OrderId
               PROVE  node'[o] \in Node
    BY <1>7
  <2>1. nodes[o] \in Node /\ nodes[n] \in Node
    BY <1>1 DEF OnlyRemOf
  <2>2. /\ [nodes[o] EXCEPT !.prev = Nil, !.next = Nil, !.inLevel = FALSE] \in Node
        /\ [nodes[o] EXCEPT !.next = nodes[n].next] \in Node
        /\ [nodes[o] EXCEPT !.prev = nodes[n].prev] \in Node
    BY <2>1 DEF Node
  <2> QED
    BY <1>7, <2>1, <2>2
<1>10. \A o \in OrderId :
        /\ node'[o].side = node[o].side /\ node'[o].price = node[o].price
        /\ node'[o].seq = node[o].seq
        /\ o # n => node'[o].rem = node[o].rem
        /\ o # n => node'[o].next = IF o = node[n].prev THEN node[n].next ELSE node[o].next
  <2> SUFFICES ASSUME NEW o \in OrderId
               PROVE  /\ node'[o].side = node[o].side /\ node'[o].price = node[o].price
                      /\ node'[o].seq = node[o].seq
                      /\ o # n => node'[o].rem = node[o].rem
                      /\ o # n => node'[o].next = IF o = node[n].prev THEN node[n].next
                                                                     ELSE node[o].next
    OBVIOUS
  <2>1. nodes[o] \in Node /\ nodes[n] \in Node
    BY <1>1 DEF OnlyRemOf
  <2>2. /\ nodes[o].side = node[o].side /\ nodes[o].price = node[o].price
        /\ nodes[o].seq = node[o].seq
        /\ nodes[o].prev = node[o].prev /\ nodes[o].next = node[o].next
        /\ o # n => nodes[o].rem = node[o].rem
        /\ nodes[n].prev = node[n].prev /\ nodes[n].next = node[n].next
    BY <1>1 DEF OnlyRemOf
  <2> QED
    BY <1>7, <2>1, <2>2 DEF Node
<1>11. \A o \in OrderId \ {n} :
        node'[o].prev = IF o = node[n].next THEN node[n].prev ELSE node[o].prev
  <2> SUFFICES ASSUME NEW o \in OrderId \ {n}
               PROVE  node'[o].prev = IF o = node[n].next THEN node[n].prev ELSE node[o].prev
    OBVIOUS
  <2>1. node[n].prev = node[n].next => node[n].prev = Nil
    BY <1>3, <1>4 DEF Linked, Chain, IsLast, IsFirst, Behind, InFront, Earlier, Numbered
  <2>2. nodes[o] \in Node /\ nodes[n] \in Node /\ o # Nil
    BY <1>1, Arithmetic DEF OnlyRemOf
  <2>3. /\ nodes[o].prev = node[o].prev
        /\ nodes[n].prev = node[n].prev /\ nodes[n].next = node[n].next
    BY <1>1 DEF OnlyRemOf
  <2> QED
    BY <1>7, <2>1, <2>2, <2>3 DEF Node
<1>12. l2 \in Level
  BY <1>3, <1>4, <1>5, <1>1, <1>8, Sizes DEF Level
<1>13. levels' \in [Sides -> [Prices -> Level]]
  <2>1. NoLevel \in Level
    BY DEF NoLevel, Level
  <2> QED
    BY <1>2, <1>7, <1>12, <2>1 DEF BookInv, TypeOK
<1>14. \A s \in Sides, p \in Prices :
         levels'[s][p] = IF s = s0 /\ p = p0 THEN (IF l2.len = 0 THEN NoLevel ELSE l2)
                                             ELSE levels[s][p]
  BY <1>2, <1>7 DEF BookInv, TypeOK
<1>15. \A s, p : At(byID', node', s, p) = IF s = s0 /\ p = p0 THEN M0 \ {n}
                                                             ELSE At(byID, node, s, p)
  <2>1. \A s, p : n \in At(byID, node, s, p) => s = s0 /\ p = p0
    BY DEF At, s0, p0
  <2>2. \A o \in byID' : o \in OrderId
    BY <1>7, <1>1
  <2>3. \A s, p : At(byID', node', s, p) = At(byID, node, s, p) \ {n}
    BY <1>7, <1>1, <1>10, <2>2 DEF At
  <2> QED
    BY <2>1, <2>3 DEF M0
<1>16. Linked(l2, M0 \ {n}, node')
  <2>1. PICK M, heap, heap2, h, t :
          M = M0 /\ heap = node /\ heap2 = node' /\ h = l.head /\ t = l.tail
    OBVIOUS
  <2>2. Chain(M, heap, h, t) /\ Numbered(M, heap) /\ n \in M
    BY <1>3, <1>4, <2>1 DEF Linked
  <2>3. \A m \in M \ {n} :
           /\ heap2[m].seq = heap[m].seq
           /\ heap2[m].next = IF m = heap[n].prev THEN heap[n].next ELSE heap[m].next
           /\ heap2[m].prev = IF m = heap[n].next THEN heap[n].prev ELSE heap[m].prev
    BY <1>3, <1>1, <1>10, <1>11, <2>1
  <2>4. Chain(M \ {n}, heap2, IF heap[n].prev = Nil THEN heap[n].next ELSE h,
                              IF heap[n].next = Nil THEN heap[n].prev ELSE t)
    BY <2>2, <2>3, ChainShrinks
  <2>5. l2.len = Cardinality(M0 \ {n})
    BY <1>3, <1>4, <1>8, Sizes
  <2> QED
    BY <1>8, <2>1, <2>4, <2>5 DEF Linked
<1>17. M0 \ {n} = {} <=> l2.len = 0
  <2>1. IsFiniteSet(M0 \ {n})
    BY <1>3, FS_RemoveElement
  <2> QED
    BY <1>16, <2>1, Sizes DEF Linked
<1>18. EveryLevelLinked'
  <2> SUFFICES ASSUME NEW s \in Sides, NEW p \in Prices
               PROVE  Linked(levels'[s][p], At(byID', node', s, p), node')
    BY DEF EveryLevelLinked
  <2>1. CASE s = s0 /\ p = p0
    <3>1. CASE l2.len = 0
      <4>1. Linked(NoLevel, {}, node')
        BY Sizes, FS_EmptySet DEF Linked, Chain, IsFirst, IsLast, NoLevel
      <4> QED
        BY <1>14, <1>15, <1>17, <2>1, <3>1, <4>1
    <3>2. CASE l2.len # 0
      BY <1>14, <1>15, <1>16, <2>1, <3>2
    <3> QED
      BY <3>1, <3>2
  <2>2. CASE ~ (s = s0 /\ p = p0)
    <3>1. Linked(levels[s][p], At(byID, node, s, p), node)
      BY DEF BookInv, EveryLevelLinked
    <3>2. /\ n \notin At(byID, node, s, p)
          /\ node[n].prev \notin At(byID, node, s, p)
          /\ node[n].next \notin At(byID, node, s, p)
      BY <1>2, <1>3, <1>5, <2>2 DEF At, M0
    <3>3. \A m \in At(byID, node, s, p) : /\ node'[m].seq = node[m].seq
                                          /\ node'[m].next = node[m].next
                                          /\ node'[m].prev = node[m].prev
      BY <1>1, <1>10, <1>11, <3>2 DEF At
    <3>4. Chain(At(byID, node, s, p), node', levels[s][p].head, levels[s][p].tail)
      BY <3>1, <3>3, Unchained DEF Linked
    <3> QED
      BY <1>14, <1>15, <2>2, <3>1, <3>4 DEF Linked
  <2> QED
    BY <2>1, <2>2
<1>19. PricesListed' /\ prices' \in [Sides -> Seq(Prices)]
  <2>1. /\ prices \in [Sides -> Seq(Prices)]
        /\ \A s \in Sides : BestFirst(s, prices[s]) /\ ToSet(prices[s]) = Occupied(s)
    BY DEF BookInv, TypeOK, PricesListed
  <2>2. \A s : Occupied(s)' = IF s = s0 /\ l2.len = 0 THEN Occupied(s) \ {p0} ELSE Occupied(s)
    BY <1>2, <1>3, <1>15, <1>17 DEF Occupied, M0
  <2>3. CASE l2.len = 0
    <3>1. p0 \in ToSet(prices[s0])
      BY <1>2, <1>3, <2>1 DEF Occupied, M0
    <3>2. prices[s0] \in Seq(Prices) /\ prices[s0] \in Seq(Nat) /\ BestFirst(s0, prices[s0])
      <4>1. prices[s0] \in Seq(Prices) /\ BestFirst(s0, prices[s0])
        BY <1>2, <2>1
      <4>2. \A w \in Seq(Prices) : w \in Seq(Nat)
        <5> SUFFICES ASSUME NEW w \in Seq(Prices) PROVE w \in Seq(Nat)
          OBVIOUS
        <5>1. Len(w) \in Nat /\ w = [i \in 1..Len(w) |-> w[i]] /\ \A i \in 1..Len(w) : w[i] \in Nat
          BY Arithmetic
        <5> QED
          BY <5>1
      <4> QED
        BY <4>1, <4>2
    <3>3. PICK w, T : w = prices[s0] /\ T = Prices
      OBVIOUS
    <3>4. /\ RemoveFirst(w, p0) \in Seq(T)
          /\ BestFirst(s0, RemoveFirst(w, p0))
          /\ ToSet(RemoveFirst(w, p0)) = ToSet(w) \ {p0}
      <4>1. w \in Seq(Nat) /\ BestFirst(s0, w) /\ p0 \in ToSet(w) /\ w \in Seq(T)
        BY <3>2, <3>1, <3>3
      <4>2. /\ \A U : w \in Seq(U) => RemoveFirst(w, p0) \in Seq(U)
            /\ BestFirst(s0, RemoveFirst(w, p0))
            /\ ToSet(RemoveFirst(w, p0)) = ToSet(w) \ {p0}
        <5>1. PICK a, b : a = s0 /\ b = p0
          OBVIOUS
        <5>2. a \in Sides /\ BestFirst(a, w) /\ b \in ToSet(w)
          BY <1>2, <4>1, <5>1
        <5>3. /\ \A U : w \in Seq(U) => RemoveFirst(w, b) \in Seq(U)
              /\ BestFirst(a, RemoveFirst(w, b))
              /\ ToSet(RemoveFirst(w, b)) = ToSet(w) \ {b}
          BY <4>1, <5>2, PriceRemoved
        <5> QED
          BY <5>1, <5>3
      <4> QED
        BY <4>1, <4>2
    <3>5. \A s \in Sides : prices'[s] = IF s = s0 THEN RemoveFirst(w, p0) ELSE prices[s]
      BY <1>7, <2>1, <2>3, <3>3
    <3>6. prices' \in [Sides -> Seq(Prices)]
      BY <1>7, <2>1, <2>3, <3>4, <3>3
    <3>7. PricesListed'
      BY <2>1, <2>2, <2>3, <3>4, <3>5, <3>3 DEF PricesListed
    <3> QED
      BY <3>6, <3>7
  <2>4. CASE l2.len # 0
    <3>1. prices' = prices /\ \A s : Occupied(s)' = Occupied(s)
      BY <1>7, <2>2, <2>4
    <3> QED
      BY <2>1, <3>1 DEF PricesListed
  <2> QED
    BY <2>3, <2>4
<1>20. \A o \in OrderId : o \notin byID => node'[o].next = node[o].next
  BY <1>2, <1>3, <1>5, <1>10, Arithmetic
<1> QED
  BY <1>7, <1>9, <1>10, <1>13, <1>18, <1>19, <1>20

\* Nothing changes for the levels when no link, number, side or price of a resting
\* order does.
LEMMA LevelsKept ==
  ASSUME BookInv, UNCHANGED <<levels, prices, byID>>,
         \A o \in byID : /\ node'[o].side = node[o].side
                         /\ node'[o].price = node[o].price
                         /\ node'[o].seq = node[o].seq
                         /\ node'[o].next = node[o].next
                         /\ node'[o].prev = node[o].prev
  PROVE  EveryLevelLinked' /\ PricesListed'
<1>1. \A s, p : At(byID', node', s, p) = At(byID, node, s, p)
  BY DEF At
<1>2. PricesListed'
  BY <1>1 DEF BookInv, PricesListed, Occupied
<1>3. ASSUME NEW s \in Sides, NEW p \in Prices
      PROVE  Linked(levels'[s][p], At(byID', node', s, p), node')
  <2>1. Linked(levels[s][p], At(byID, node, s, p), node)
    BY DEF BookInv, EveryLevelLinked
  <2>2. Chain(At(byID, node, s, p), node', levels[s][p].head, levels[s][p].tail)
    BY <2>1, Unchained DEF Linked, At
  <2> QED
    BY <1>1, <2>1, <2>2 DEF Linked
<1> QED
  BY <1>2, <1>3 DEF EveryLevelLinked

\* The empty book is sound.
LEMMA BookInit == Init => BookInv
<1> SUFFICES ASSUME Init PROVE BookInv
  OBVIOUS
<1>1. TypeOK
  <2>1. NoNode \in Node
    BY DEF NoNode, Node, Sides
  <2>2. NoLevel \in Level
    BY DEF NoLevel, Level
  <2>3. node \in [OrderId -> Node] /\ levels \in [Sides -> [Prices -> Level]]
    BY <2>1, <2>2 DEF Init
  <2>4. prices \in [Sides -> Seq(Prices)]
    BY DEF Init
  <2> QED
    <3>1. inUse \in BOOLEAN
      BY DEF Init
    <3>2. /\ byID \subseteq OrderId /\ nextSeq \in 0..MaxOrders /\ used \in 0..MaxOrders
          /\ taker \in 0..used /\ takerRem \in Nat
      BY Arithmetic DEF Init, Nil
    <3> QED
      BY <2>3, <2>4, <3>1, <3>2 DEF TypeOK
<1>2. \A s, p : At(byID, node, s, p) = {}
  BY DEF At, Init
<1>3. EveryLevelLinked
  <2>1. Linked(NoLevel, {}, node)
    BY Sizes, FS_EmptySet DEF Linked, Chain, IsFirst, IsLast, NoLevel
  <2>2. \A s \in Sides, p \in Prices : levels[s][p] = NoLevel
    BY DEF Init
  <2> QED
    BY <1>2, <2>1, <2>2 DEF EveryLevelLinked
<1>4. PricesListed
  <2>1. \A s \in Sides : prices[s] = <<>>
    BY DEF Init
  <2>2. \A s : Occupied(s) = {}
    BY <1>2 DEF Occupied
  <2>3. ToSet(<<>>) = {} /\ \A s : BestFirst(s, <<>>)
    BY DEF ToSet, BestFirst
  <2> QED
    BY <2>1, <2>2, <2>3 DEF PricesListed
<1>5. RestingOrders /\ TakerWaits /\ nextSeq <= used
  BY DEF Init, RestingOrders, TakerWaits, Numbered
<1> QED
  BY <1>1, <1>3, <1>4, <1>5 DEF BookInv

\* An order as it comes.
LEMMA IncomingOrder ==
  ASSUME NEW s \in Sides, NEW p \in Prices
  PROVE  /\ Incoming(s, p) \in Node /\ Incoming(s, p).side = s /\ Incoming(s, p).price = p
         /\ Incoming(s, p).next = Nil
BY Arithmetic DEF Incoming, NoNode, Node, Sides

\* A new order waits for its turn outside the book.
LEMMA SubmitKeeps ==
  ASSUME BookInv, NEW s \in Sides, NEW p \in Prices, NEW q \in Quantities, Submit(s, p, q)
  PROVE  BookInv'
<1> DEFINE new == Incoming(s, p)
<1>1. /\ used \in 0..MaxOrders /\ used + 1 \in OrderId
      /\ byID \subseteq 1..used /\ used + 1 \notin byID
      /\ nextSeq \in 0..MaxOrders /\ nextSeq <= used
  BY Arithmetic DEF BookInv, TypeOK, Submit, OrderId, RestingOrders
<1>2. new \in Node /\ new.price = p /\ new.next = Nil
  BY IncomingOrder
<1> HIDE DEF new
<1>3. node' \in [OrderId -> Node] /\ node' = [node EXCEPT ![used + 1] = new]
  BY <1>1, <1>2 DEF BookInv, TypeOK, Submit, new
<1>4. \A o \in byID : node'[o] = node[o]
  BY <1>1, <1>3 DEF BookInv, TypeOK
<1>5. EveryLevelLinked' /\ PricesListed'
  BY <1>4, LevelsKept DEF Submit
<1>6. /\ used' = used + 1 /\ taker' = used + 1 /\ takerRem' = q /\ inUse' = TRUE
      /\ UNCHANGED <<levels, prices, byID, nextSeq>>
  BY DEF Submit
<1>7. TypeOK'
  <2>1. /\ used' \in 0..MaxOrders /\ taker' \in 0..used'
        /\ takerRem' \in Nat /\ nextSeq' \in 0..MaxOrders /\ inUse' \in BOOLEAN
    BY <1>1, <1>6, Arithmetic DEF OrderId
  <2> QED
    BY <1>3, <1>6, <2>1 DEF BookInv, TypeOK
<1>8. RestingOrders'
  <2>1. Numbered(byID', node')
    BY <1>4, <1>6 DEF BookInv, RestingOrders, Numbered
  <2>2. \A o \in byID : node'[o].price \in Prices /\ node'[o].rem > 0 /\ node'[o].seq \in 1..nextSeq
    BY <1>4 DEF BookInv, RestingOrders
  <2>3. byID' \subseteq 1..used'
    BY <1>1, <1>6
  <2> QED
    BY <1>6, <2>1, <2>2, <2>3 DEF RestingOrders
<1>9. TakerWaits'
  <2>1. node'[used + 1] = new
    BY <1>1, <1>3 DEF BookInv, TypeOK
  <2>2. nextSeq' < used'
    BY <1>1, <1>6
  <2> QED
    BY <1>1, <1>2, <1>6, <2>1, <2>2 DEF TakerWaits
<1>10. nextSeq' <= used'
  BY <1>1, <1>6
<1> QED
  BY <1>5, <1>7, <1>8, <1>9, <1>10 DEF BookInv

\* A node leaves, with what the match left of it or by a cancel.
LEMMA RemovalKeeps ==
  ASSUME BookInv, NEW n \in byID, NEW nodes, OnlyRemOf(n, nodes), RemoveNode(nodes, n),
         takerRem' \in Nat, UNCHANGED <<nextSeq, used, taker>>,
         inUse' = inUse \/ inUse' = TRUE
  PROVE  BookInv'
<1>1. /\ node' \in [OrderId -> Node] /\ byID' = byID \ {n}
      /\ \A o \in OrderId : /\ node'[o].side = node[o].side
                            /\ node'[o].price = node[o].price
                            /\ node'[o].seq = node[o].seq
                            /\ o # n => node'[o].rem = node[o].rem
                            /\ o \notin byID => node'[o].next = node[o].next
      /\ levels' \in [Sides -> [Prices -> Level]]
      /\ prices' \in [Sides -> Seq(Prices)]
      /\ EveryLevelLinked' /\ PricesListed'
  BY NodeIsRemoved
<1>2. TypeOK'
  BY <1>1 DEF BookInv, TypeOK
<1>3. RestingOrders'
  <2>1. Numbered(byID', node')
    <3>1. byID \subseteq OrderId /\ Numbered(byID, node)
      BY DEF BookInv, TypeOK, RestingOrders
    <3>2. \A m \in byID' : m \in byID /\ node'[m].seq = node[m].seq
      BY <1>1, <3>1
    <3>3. \A m, k \in byID' : node'[m].seq = node'[k].seq => m = k
      BY <3>1, <3>2 DEF Numbered
    <3>4. Nil \notin byID' /\ \A m \in byID' : node'[m].seq \in Nat
      BY <3>1, <3>2 DEF Numbered
    <3> QED
      BY <3>3, <3>4 DEF Numbered
  <2>2. \A o \in byID' : /\ node'[o].price \in Prices /\ node'[o].rem > 0
                        /\ node'[o].seq \in 1..nextSeq
    <3>1. byID \subseteq OrderId
      BY DEF BookInv, TypeOK
    <3>2. \A o \in byID' : /\ o \in byID /\ node'[o].seq = node[o].seq
                          /\ node'[o].price = node[o].price /\ node'[o].rem = node[o].rem
      BY <1>1, <3>1
    <3> QED
      BY <3>2 DEF BookInv, RestingOrders
  <2> QED
    BY <1>1, <2>1, <2>2 DEF BookInv, RestingOrders
<1>4. TakerWaits'
  <2>1. taker # Nil => taker \in OrderId
    BY Arithmetic DEF BookInv, TypeOK, OrderId, Nil
  <2>2. ASSUME taker # Nil
        PROVE  /\ inUse' /\ taker = used /\ taker \notin byID' /\ nextSeq < used
               /\ node'[taker].price \in Prices /\ node'[taker].next = Nil
    <3>1. /\ inUse /\ taker = used /\ taker \notin byID /\ nextSeq < used
          /\ node[taker].price \in Prices /\ node[taker].next = Nil
      BY <2>2 DEF BookInv, TakerWaits
    <3> QED
      BY <1>1, <2>1, <2>2, <3>1
  <2> QED
    BY <2>2 DEF TakerWaits
<1> QED
  BY <1>1, <1>2, <1>3, <1>4 DEF BookInv

\* A cancel writes nothing to the heap before the node leaves.
LEMMA OwnRem ==
  ASSUME BookInv, NEW o \in byID
  PROVE  OnlyRemOf(o, node)
BY DEF BookInv, TypeOK, OnlyRemOf

\* An order is cancelled.
LEMMA CancelKeeps ==
  ASSUME BookInv, NEW o \in OrderId, RemoveOrderByID(o)
  PROVE  BookInv'
<1>1. /\ o \in byID /\ RemoveNode(node, o) /\ UNCHANGED <<nextSeq, used, taker, takerRem>>
      /\ inUse' = TRUE
  BY DEF RemoveOrderByID, takerVars
<1>2. takerRem' \in Nat
  BY <1>1 DEF BookInv, TypeOK
<1>3. PICK nodes : nodes = node
  OBVIOUS
<1>4. OnlyRemOf(o, nodes) /\ RemoveNode(nodes, o)
  BY <1>1, <1>3, OwnRem
<1> QED
  BY <1>1, <1>2, <1>4, RemovalKeeps

\* An order is put in the book.
LEMMA RestingKeeps ==
  ASSUME BookInv, NEW n \in OrderId \ byID, NEW x \in Node, x.price \in Prices, x.next = Nil,
         NEW q \in Nat, q > 0, AppendRestingOrder(n, x, q),
         inUse' \in BOOLEAN, taker' = Nil, takerRem' \in Nat,
         used' \in 0..MaxOrders, used <= used', n <= used', nextSeq < used'
  PROVE  /\ BookInv'
         /\ byID' = byID \cup {n} /\ nextSeq' = nextSeq + 1
         /\ node'[n].rem = q /\ node'[n].seq = nextSeq + 1
         /\ node'[n].side = x.side /\ node'[n].price = x.price
         /\ \A o \in OrderId : o # n => /\ node'[o].side = node[o].side
                                        /\ node'[o].price = node[o].price
                                        /\ node'[o].rem = node[o].rem
                                        /\ node'[o].seq = node[o].seq
<1> DEFINE new == [x EXCEPT !.rem = q, !.seq = nextSeq + 1]
<1>1. nextSeq \in Nat /\ used \in Nat /\ used' \in Nat /\ used' <= MaxOrders /\ MaxOrders \in Nat
  BY Arithmetic DEF BookInv, TypeOK
<1>2. /\ new \in Node /\ new.price = x.price /\ new.side = x.side
      /\ new.next = Nil /\ new.seq = nextSeq + 1 /\ new.rem = q
  <2>1. PICK k : k = nextSeq + 1
    OBVIOUS
  <2>2. k \in Nat
    BY <1>1, <2>1
  <2>3. [x EXCEPT !.rem = q, !.seq = k] \in Node
    BY <2>2 DEF Node
  <2>4. PICK e : e = [x EXCEPT !.rem = q, !.seq = k]
    OBVIOUS
  <2>5. e.price = x.price /\ e.side = x.side /\ e.next = x.next /\ e.seq = k /\ e.rem = q
    BY <2>2, <2>4 DEF Node
  <2> QED
    BY <2>1, <2>3, <2>4, <2>5
<1>3. AddNode(n, new) /\ byID' = byID \cup {n} /\ nextSeq' = nextSeq + 1
  BY DEF AppendRestingOrder
<1> HIDE DEF new
<1>4. /\ node' \in [OrderId -> Node]
      /\ \A o \in OrderId : /\ o # n => /\ node'[o].side = node[o].side
                                        /\ node'[o].price = node[o].price
                                        /\ node'[o].rem = node[o].rem
                                        /\ node'[o].seq = node[o].seq
      /\ node'[n].side = new.side /\ node'[n].price = new.price
      /\ node'[n].rem = new.rem /\ node'[n].seq = new.seq
      /\ levels' \in [Sides -> [Prices -> Level]]
      /\ prices' \in [Sides -> Seq(Prices)]
      /\ EveryLevelLinked' /\ PricesListed'
  <2>1. PICK nw : nw = new
    OBVIOUS
  <2>2. /\ nw \in Node /\ nw.price \in Prices /\ nw.next = Nil
        /\ nw.seq = nextSeq + 1 /\ AddNode(n, nw) /\ byID' = byID \cup {n}
    BY <1>2, <1>3, <2>1
  <2>3. /\ node' \in [OrderId -> Node]
        /\ \A o \in OrderId : /\ o # n => /\ node'[o].side = node[o].side
                                          /\ node'[o].price = node[o].price
                                          /\ node'[o].rem = node[o].rem
                                          /\ node'[o].seq = node[o].seq
        /\ node'[n].side = nw.side /\ node'[n].price = nw.price
        /\ node'[n].rem = nw.rem /\ node'[n].seq = nw.seq
        /\ levels' \in [Sides -> [Prices -> Level]]
        /\ prices' \in [Sides -> Seq(Prices)]
        /\ EveryLevelLinked' /\ PricesListed'
    BY <2>2, NodeIsAdded
  <2> QED
    BY <2>1, <2>3
<1>5. TypeOK'
  <2>1. /\ nextSeq' \in 0..MaxOrders /\ taker' \in 0..used' /\ takerRem' \in Nat
    BY <1>1, <1>3 DEF Nil
  <2>2. byID' \subseteq OrderId
    BY <1>3 DEF BookInv, TypeOK
  <2> QED
    BY <1>4, <2>1, <2>2 DEF TypeOK
<1>6. RestingOrders'
  <2>1. byID \subseteq OrderId /\ \A o \in byID : o # n
    BY DEF BookInv, TypeOK
  <2>2. ASSUME NEW o \in byID'
        PROVE  /\ node'[o].price \in Prices /\ node'[o].rem > 0
               /\ node'[o].seq \in 1..nextSeq'
               /\ o = n <=> node'[o].seq = nextSeq + 1
    <3>1. CASE o = n
      BY <1>1, <1>2, <1>3, <1>4, <3>1
    <3>2. CASE o # n
      <4>1. o \in byID /\ node'[o].price = node[o].price /\ node'[o].rem = node[o].rem
            /\ node'[o].seq = node[o].seq
        BY <1>3, <1>4, <2>1, <3>2
      <4>2. node[o].seq \in 1..nextSeq /\ node[o].price \in Prices /\ node[o].rem > 0
        BY <4>1 DEF BookInv, RestingOrders
      <4> QED
        BY <1>1, <1>3, <3>2, <4>1, <4>2
    <3> QED
      BY <3>1, <3>2
  <2>3. Numbered(byID', node')
    <3>1. \A m, k \in byID : node[m].seq = node[k].seq => m = k
      BY DEF BookInv, RestingOrders, Numbered
    <3>2. \A m, k \in byID' : node'[m].seq = node'[k].seq => m = k
      BY <1>3, <1>4, <2>1, <2>2, <3>1
    <3>3. Nil \notin byID'
      BY <1>3, <2>1, Arithmetic
    <3>4. \A m \in byID' : node'[m].seq \in Nat
      BY <1>1, <1>3, <2>2
    <3> QED
      BY <3>2, <3>3, <3>4 DEF Numbered
  <2>4. byID' \subseteq 1..used'
    <3>1. byID \subseteq 1..used /\ n \in 1..MaxOrders
      BY DEF BookInv, RestingOrders, OrderId
    <3> QED
      BY <1>1, <1>3, <3>1
  <2> QED
    BY <2>2, <2>3, <2>4 DEF RestingOrders
<1>7. TakerWaits' /\ nextSeq' <= used'
  BY <1>1, <1>3 DEF TakerWaits
<1> QED
  BY <1>2, <1>3, <1>4, <1>5, <1>6, <1>7 DEF BookInv

\* What is left of the order being matched rests.
LEMMA TakerRests ==
  ASSUME BookInv, taker # Nil, takerRem > 0, AppendRestingOrder(taker, node[taker], takerRem),
         taker' = Nil, takerRem' = 0, UNCHANGED <<inUse, used>>
  PROVE  /\ BookInv'
         /\ byID' = byID \cup {taker} /\ nextSeq' = nextSeq + 1
         /\ node'[taker].rem = takerRem /\ node'[taker].seq = nextSeq + 1
         /\ \A o \in OrderId : /\ node'[o].side = node[o].side /\ node'[o].price = node[o].price
                               /\ o # taker => /\ node'[o].rem = node[o].rem
                                               /\ node'[o].seq = node[o].seq
<1>1. /\ taker \in OrderId /\ taker = used /\ taker \notin byID
      /\ nextSeq < used /\ used \in 0..MaxOrders /\ used <= used
      /\ node[taker] \in Node /\ takerRem \in Nat /\ inUse \in BOOLEAN
      /\ node[taker].price \in Prices /\ node[taker].next = Nil
  <2>1. taker \in OrderId
    BY Arithmetic DEF BookInv, TypeOK, OrderId, Nil
  <2> QED
    BY <2>1, Arithmetic DEF BookInv, TypeOK, TakerWaits
<1>2. PICK n, x, q : n = taker /\ x = node[taker] /\ q = takerRem
  OBVIOUS
<1>3. /\ n \in OrderId \ byID /\ x \in Node /\ x.price \in Prices /\ x.next = Nil
      /\ q \in Nat /\ q > 0 /\ AppendRestingOrder(n, x, q)
      /\ used' \in 0..MaxOrders /\ used <= used' /\ n <= used' /\ nextSeq < used'
      /\ inUse' \in BOOLEAN
  BY <1>1, <1>2
<1>4. /\ BookInv'
      /\ byID' = byID \cup {n} /\ nextSeq' = nextSeq + 1
      /\ node'[n].rem = q /\ node'[n].seq = nextSeq + 1
      /\ node'[n].side = x.side /\ node'[n].price = x.price
      /\ \A o \in OrderId : o # n => /\ node'[o].side = node[o].side
                                     /\ node'[o].price = node[o].price
                                     /\ node'[o].rem = node[o].rem
                                     /\ node'[o].seq = node[o].seq
  BY <1>3, RestingKeeps
<1> QED
  BY <1>2, <1>4

\* A row of the table comes into the book.
LEMMA RestoreKeeps ==
  ASSUME BookInv, NEW s \in Sides, NEW p \in Prices, NEW q \in Quantities, Restore(s, p, q)
  PROVE  /\ BookInv'
         /\ used + 1 \in OrderId \ byID /\ taker = Nil /\ takerRem' = takerRem /\ taker' = taker
         /\ byID' = byID \cup {used + 1} /\ nextSeq' = nextSeq + 1
         /\ node'[used + 1].rem = q /\ node'[used + 1].seq = nextSeq + 1
         /\ node'[used + 1].side = s /\ node'[used + 1].price = p
         /\ \A o \in OrderId : o # used + 1 => /\ node'[o].side = node[o].side
                                               /\ node'[o].price = node[o].price
                                               /\ node'[o].rem = node[o].rem
                                               /\ node'[o].seq = node[o].seq
<1>1. /\ used \in Nat /\ used + 1 \in OrderId \ byID /\ nextSeq <= used /\ nextSeq \in Nat
      /\ taker = Nil
  BY Arithmetic DEF BookInv, TypeOK, Restore, OrderId, RestingOrders, TakerWaits
<1>2. /\ AppendRestingOrder(used + 1, Incoming(s, p), q)
      /\ used' = used + 1 /\ UNCHANGED <<inUse, taker, takerRem>>
  BY DEF Restore
<1>3. PICK n, x : n = used + 1 /\ x = Incoming(s, p)
  OBVIOUS
<1>4. /\ n \in OrderId \ byID /\ AppendRestingOrder(n, x, q)
      /\ x \in Node /\ x.price \in Prices /\ x.next = Nil /\ q \in Nat /\ q > 0
  BY <1>1, <1>2, <1>3, IncomingOrder, Arithmetic
<1>5. /\ used' \in 0..MaxOrders /\ used <= used' /\ n <= used' /\ nextSeq < used'
      /\ inUse' \in BOOLEAN /\ taker' = Nil /\ takerRem' \in Nat
  BY <1>1, <1>2, <1>3, Arithmetic DEF BookInv, TypeOK, OrderId
<1>6. /\ BookInv'
      /\ byID' = byID \cup {n} /\ nextSeq' = nextSeq + 1
      /\ node'[n].rem = q /\ node'[n].seq = nextSeq + 1
      /\ node'[n].side = x.side /\ node'[n].price = x.price
      /\ \A o \in OrderId : o # n => /\ node'[o].side = node[o].side
                                     /\ node'[o].price = node[o].price
                                     /\ node'[o].rem = node[o].rem
                                     /\ node'[o].seq = node[o].seq
  BY <1>4, <1>5, RestingKeeps
<1> QED
  BY <1>1, <1>2, <1>3, <1>6, IncomingOrder

\* Who may match the taker.
Against == {m \in byID : node[m].side = OppositeSide(node[taker].side)}

\* m is due before n on side s.
Due(s, m, n) == \/ Better(s, node[m].price, node[n].price)
                \/ node[m].price = node[n].price /\ node[m].seq < node[n].seq

\* Types of the orders that are matched.
LEMMA TakerSide ==
  ASSUME BookInv, taker # Nil
  PROVE  /\ taker \in OrderId /\ taker \in 1..used /\ taker \notin byID /\ node[taker] \in Node
         /\ node[taker].side \in Sides
         /\ OppositeSide(node[taker].side) \in Sides
         /\ OppositeSide(node[taker].side) # node[taker].side
         /\ \A o \in byID : /\ o \in OrderId /\ o \in 1..used /\ node[o] \in Node
                            /\ node[o].side \in Sides /\ node[o].price \in Prices
                            /\ node[o].price \in Nat /\ node[o].rem \in Nat /\ node[o].rem > 0
                            /\ node[o].seq \in Nat /\ node[o].seq > 0
<1>1. taker \in OrderId /\ taker \in 1..used /\ taker \notin byID
  BY Arithmetic DEF BookInv, TypeOK, TakerWaits, OrderId, Nil
<1>2. \A o \in OrderId : node[o] \in Node /\ node[o].side \in Sides /\ node[o].price \in Nat
                         /\ node[o].rem \in Nat /\ node[o].seq \in Nat
  <2>1. node \in [OrderId -> Node]
    BY DEF BookInv, TypeOK
  <2> QED
    BY <2>1 DEF Node
<1>3. \A o \in byID : o \in OrderId /\ o \in 1..used
  BY DEF BookInv, TypeOK, RestingOrders
<1>4. \A o \in byID : node[o].price \in Prices /\ node[o].rem > 0 /\ node[o].seq > 0
  BY DEF BookInv, TypeOK, RestingOrders
<1>5. \A s \in Sides : OppositeSide(s) \in Sides /\ OppositeSide(s) # s
  BY DEF OppositeSide, Sides
<1> QED
  BY <1>1, <1>2, <1>3, <1>4, <1>5

\* The head of the best opposite level is the order that is due.
LEMMA HeadIsDue ==
  ASSUME BookInv, taker # Nil
  PROVE  /\ BestMaker = Nil => Against = {}
         /\ BestMaker # Nil => /\ BestMaker \in Against
                               /\ \A n \in Against \ {BestMaker} :
                                    Due(OppositeSide(node[taker].side), BestMaker, n)
<1> DEFINE s == OppositeSide(node[taker].side)
<1>1. s \in Sides /\ \A o \in byID : node[o].price \in Prices /\ o # Nil
  BY TakerSide, Arithmetic
<1>2. /\ BestFirst(s, prices[s]) /\ ToSet(prices[s]) = Occupied(s) /\ prices[s] \in Seq(Prices)
  BY <1>1 DEF BookInv, TypeOK, PricesListed
<1>3. BestMaker = IF prices[s] = <<>> THEN Nil ELSE levels[s][Head(prices[s])].head
  BY DEF BestMaker
<1>4. Against = {m \in byID : node[m].side = s}
  BY DEF Against
<1> HIDE DEF s
<1>5. \A n \in Against : node[n].price \in ToSet(prices[s])
  BY <1>1, <1>2, <1>4 DEF Occupied, At
<1>6. CASE prices[s] = <<>>
  <2>1. ToSet(prices[s]) = {}
    BY <1>6 DEF ToSet
  <2> QED
    BY <1>3, <1>5, <1>6, <2>1
<1>7. CASE prices[s] # <<>>
  <2> DEFINE p == Head(prices[s])
             b == levels[s][p].head
  <2>1. p = prices[s][1] /\ 1 \in 1..Len(prices[s]) /\ DOMAIN prices[s] = 1..Len(prices[s])
        /\ Len(prices[s]) \in Nat
    BY <1>2, <1>7
  <2>2. p \in Prices /\ p \in Occupied(s)
    BY <1>2, <2>1 DEF ToSet
  <2> HIDE DEF p
  <2>3. IsFirst(b, At(byID, node, s, p), node) /\ At(byID, node, s, p) # {}
    BY <1>1, <2>2 DEF BookInv, EveryLevelLinked, Linked, Chain, Occupied
  <2> HIDE DEF b
  <2>4. /\ b \in At(byID, node, s, p)
        /\ \A m \in At(byID, node, s, p) \ {b} : node[b].seq < node[m].seq
    BY <2>3 DEF IsFirst, Earlier
  <2>5. BestMaker = b
    BY <1>3, <1>7 DEF b, p
  <2>6. b \in Against /\ node[b].price = p
    BY <1>4, <2>4 DEF At
  <2>7. ASSUME NEW n \in Against \ {b} PROVE Due(s, b, n)
    <3>1. CASE node[n].price = p
      <4>1. n \in At(byID, node, s, p)
        BY <1>4, <3>1 DEF At
      <4> QED
        BY <2>4, <2>6, <3>1, <4>1 DEF Due
    <3>2. CASE node[n].price # p
      <4>1. PICK i \in DOMAIN prices[s] : prices[s][i] = node[n].price
        BY <1>5 DEF ToSet
      <4>2. 1 < i /\ i \in 1..Len(prices[s])
        BY <2>1, <3>2, <4>1
      <4>3. Better(s, p, node[n].price)
        BY <1>2, <2>1, <4>1, <4>2 DEF BestFirst
      <4> QED
        BY <2>6, <4>3 DEF Due
    <3> QED
      BY <3>1, <3>2
  <2>8. b # Nil
    BY <1>1, <1>4, <2>6
  <2> QED
    BY <2>5, <2>6, <2>7, <2>8 DEF s
<1> QED
  BY <1>6, <1>7

\* One turn of the matching loop.
LEMMA MatchKeeps ==
  ASSUME BookInv, MatchStep
  PROVE  /\ BookInv'
         /\ taker # Nil /\ takerRem > 0 /\ BestMaker \in Against /\ IsCrossed(BestMaker)
         /\ takerRem' = takerRem - FillQty(BestMaker)
         /\ UNCHANGED <<nextSeq, inUse, used, taker>>
         /\ byID' = IF node[BestMaker].rem = FillQty(BestMaker) THEN byID \ {BestMaker} ELSE byID
         /\ \A o \in OrderId : /\ node'[o].side = node[o].side /\ node'[o].price = node[o].price
                               /\ node'[o].seq = node[o].seq
                               /\ o # BestMaker => node'[o].rem = node[o].rem
         /\ node[BestMaker].rem # FillQty(BestMaker) =>
              node'[BestMaker].rem = node[BestMaker].rem - FillQty(BestMaker)
<1>1. PICK m, q, filled : /\ m = BestMaker /\ q = FillQty(BestMaker)
                          /\ filled = [node EXCEPT ![m].rem = @ - q]
  OBVIOUS
<1>2. /\ taker # Nil /\ takerRem > 0 /\ m # Nil /\ IsCrossed(m) /\ takerRem' = takerRem - q
      /\ UNCHANGED <<nextSeq, inUse, used, taker>>
      /\ IF filled[m].rem = 0 THEN RemoveNode(filled, m)
                              ELSE node' = filled /\ UNCHANGED <<levels, prices, byID>>
  BY <1>1 DEF MatchStep
<1>3. m \in Against /\ m \in byID
  BY <1>1, <1>2, HeadIsDue DEF Against
<1>4. /\ m \in OrderId /\ node[m] \in Node /\ node[m].rem \in Nat /\ node[m].rem > 0
  BY <1>2, <1>3, TakerSide
<1>5. takerRem \in Nat /\ node \in [OrderId -> Node] /\ byID \subseteq OrderId
  BY DEF BookInv, TypeOK
<1>6. q \in Nat /\ q <= node[m].rem /\ q <= takerRem /\ takerRem' \in Nat
  BY <1>1, <1>2, <1>4, <1>5 DEF FillQty
<1>7. filled[m] = [node[m] EXCEPT !.rem = node[m].rem - q] /\ filled[m] \in Node
      /\ \A o \in OrderId \ {m} : filled[o] = node[o]
  <2>1. filled[m] = [node[m] EXCEPT !.rem = node[m].rem - q]
    BY <1>1, <1>4, <1>5
  <2>2. \A o \in OrderId \ {m} : filled[o] = node[o]
    BY <1>1, <1>4, <1>5
  <2>3. node[m].rem - q \in Nat
    BY <1>4, <1>6
  <2>4. [node[m] EXCEPT !.rem = node[m].rem - q] \in Node
    BY <1>4, <2>3 DEF Node
  <2> QED
    BY <2>1, <2>2, <2>4
<1>8. /\ filled[m].rem = node[m].rem - q
      /\ filled[m].side = node[m].side /\ filled[m].price = node[m].price
      /\ filled[m].seq = node[m].seq /\ filled[m].prev = node[m].prev
      /\ filled[m].next = node[m].next
  BY <1>4, <1>7 DEF Node
<1>9. OnlyRemOf(m, filled)
  <2>1. filled \in [OrderId -> Node]
    <3>1. \A o \in OrderId : filled[o] \in Node
      BY <1>5, <1>7
    <3>2. filled = [o \in OrderId |-> filled[o]]
      BY <1>1, <1>5
    <3> QED
      BY <3>1, <3>2
  <2> QED
    BY <1>7, <1>8, <2>1 DEF OnlyRemOf
<1>10. filled[m].rem = 0 <=> node[m].rem = q
  BY <1>4, <1>6, <1>8
<1>11. CASE node[m].rem = q
  <2>1. RemoveNode(filled, m)
    BY <1>2, <1>10, <1>11
  <2>2. BookInv'
    BY <1>2, <1>3, <1>6, <1>9, <2>1, RemovalKeeps
  <2>3. /\ byID' = byID \ {m}
        /\ \A o \in OrderId : /\ node'[o].side = node[o].side
                              /\ node'[o].price = node[o].price
                              /\ node'[o].seq = node[o].seq
                              /\ o # m => node'[o].rem = node[o].rem
    BY <1>3, <1>9, <2>1, NodeIsRemoved
  <2> QED
    BY <1>1, <1>2, <1>3, <1>11, <2>2, <2>3
<1>12. CASE node[m].rem # q
  <2>1. node' = filled /\ UNCHANGED <<levels, prices, byID>>
    BY <1>2, <1>10, <1>12
  <2>2. \A o \in OrderId : /\ node'[o].side = node[o].side
                           /\ node'[o].price = node[o].price
                           /\ node'[o].seq = node[o].seq
                           /\ node'[o].next = node[o].next
                           /\ node'[o].prev = node[o].prev
                           /\ o # m => node'[o].rem = node[o].rem
    BY <1>9, <2>1 DEF OnlyRemOf
  <2>3. node'[m].rem = node[m].rem - q
    BY <1>8, <2>1
  <2>4. EveryLevelLinked' /\ PricesListed'
    BY <1>5, <2>1, <2>2, LevelsKept
  <2>5. TypeOK'
    BY <1>2, <1>6, <1>9, <2>1 DEF BookInv, TypeOK, OnlyRemOf
  <2>6. RestingOrders'
    <3>1. \A o \in byID : /\ node'[o].rem > 0 /\ node'[o].price \in Prices
                         /\ node'[o].seq \in 1..nextSeq
      <4>1. node'[m].rem > 0
        BY <1>4, <1>6, <1>12, <2>3
      <4>2. \A o \in byID : /\ node[o].rem > 0 /\ node[o].price \in Prices
                           /\ node[o].seq \in 1..nextSeq
        BY DEF BookInv, RestingOrders
      <4> QED
        BY <1>5, <2>2, <4>1, <4>2
    <3>2. Numbered(byID', node')
      <4>1. Numbered(byID, node)
        BY DEF BookInv, RestingOrders
      <4>2. \A o \in byID : node'[o].seq = node[o].seq
        BY <1>5, <2>2
      <4> QED
        BY <2>1, <4>1, <4>2 DEF Numbered
    <3> QED
      BY <1>2, <2>1, <3>1, <3>2 DEF BookInv, RestingOrders
  <2>7. TakerWaits' /\ nextSeq' <= used'
    <3>1. taker \in OrderId
      BY <1>2, TakerSide
    <3> QED
      BY <1>2, <2>1, <2>2, <3>1 DEF BookInv, TakerWaits
  <2> QED
    BY <1>1, <1>2, <1>3, <1>12, <2>1, <2>2, <2>3, <2>4, <2>5, <2>6, <2>7 DEF BookInv
<1> QED
  BY <1>11, <1>12

\* The matching loop ends.
LEMMA DoneKeeps ==
  ASSUME BookInv, MatchDone
  PROVE  BookInv'
<1>1. taker # Nil /\ taker' = Nil /\ takerRem' = 0 /\ UNCHANGED <<inUse, used>>
  BY DEF MatchDone
<1>2. CASE takerRem > 0
  BY <1>1, <1>2, TakerRests DEF MatchDone
<1>3. CASE ~ (takerRem > 0)
  <2>1. UNCHANGED <<node, levels, prices, byID, nextSeq>>
    BY <1>3 DEF MatchDone, bookVars
  <2>2. EveryLevelLinked' /\ PricesListed'
    BY <2>1, LevelsKept
  <2>3. TypeOK'
    BY <1>1, <2>1 DEF BookInv, TypeOK, Nil
  <2>4. RestingOrders' /\ TakerWaits' /\ nextSeq' <= used'
    BY <1>1, <2>1 DEF BookInv, RestingOrders, TakerWaits
  <2> QED
    BY <2>2, <2>3, <2>4 DEF BookInv
<1> QED
  BY <1>2, <1>3

\* Nothing happens.
LEMMA StutterKeeps == BookInv /\ UNCHANGED vars => BookInv'
<1> SUFFICES ASSUME BookInv, UNCHANGED vars PROVE BookInv'
  OBVIOUS
<1>1. UNCHANGED <<node, levels, prices, byID, nextSeq, inUse, used, taker, takerRem>>
  BY DEF vars, bookVars, takerVars
<1>2. EveryLevelLinked' /\ PricesListed'
  BY <1>1, LevelsKept
<1> QED
  BY <1>1, <1>2 DEF BookInv, TypeOK, RestingOrders, TakerWaits

\* The book is sound in every state.
THEOREM BookInvariant == Spec => []BookInv
<1>1. Init => BookInv
  BY BookInit
<1>2. BookInv /\ [Next]_vars => BookInv'
  <2> SUFFICES ASSUME BookInv, [Next]_vars PROVE BookInv'
    OBVIOUS
  <2>1. ASSUME NEW s \in Sides, NEW p \in Prices, NEW q \in Quantities, Submit(s, p, q)
        PROVE  BookInv'
    BY <2>1, SubmitKeeps
  <2>2. ASSUME NEW s \in Sides, NEW p \in Prices, NEW q \in Quantities, Restore(s, p, q)
        PROVE  BookInv'
    BY <2>2, RestoreKeeps
  <2>3. CASE MatchStep
    BY <2>3, MatchKeeps
  <2>4. CASE MatchDone
    BY <2>4, DoneKeeps
  <2>5. ASSUME NEW o \in OrderId, RemoveOrderByID(o) PROVE BookInv'
    BY <2>5, CancelKeeps
  <2>6. CASE UNCHANGED vars
    BY <2>6, StutterKeeps
  <2> QED
    BY <2>1, <2>2, <2>3, <2>4, <2>5, <2>6 DEF Next
<1> QED
  BY <1>1, <1>2, PTL DEF Spec

\* Every variable of the book has its type.
THEOREM BookTypeCorrect == Spec => []TypeOK
BY BookInvariant, PTL DEF BookInv

(* What PriceTimeBook sees *)

OrderBar == [o \in OrderId |-> Terms(o)]
RemBar   == [o \in OrderId |-> IF o \in byID THEN node[o].rem ELSE 0]
SeqBar   == [o \in OrderId |-> IF o \in byID THEN node[o].seq ELSE 0]

\* The orders that may match the taker are those the index holds on the other side.
LEMMA OppositeIsAgainst ==
  ASSUME BookInv, taker # Nil
  PROVE  /\ PT!Opposite(taker) = Against
         /\ \A m \in Against :
              /\ PT!Crosses(taker, m) <=> IsCrossed(m)
              /\ \A n \in Against : PT!Ahead(m, n) <=> Due(OppositeSide(node[taker].side), m, n)
<1>1. \A o \in OrderId : /\ RemBar[o] = IF o \in byID THEN node[o].rem ELSE 0
                         /\ SeqBar[o] = IF o \in byID THEN node[o].seq ELSE 0
                         /\ OrderBar[o] = Terms(o)
  BY DEF RemBar, SeqBar, OrderBar
<1>2. \A o \in byID \cup {taker} : /\ o \in OrderId
                                   /\ OrderBar[o].side = node[o].side
                                   /\ OrderBar[o].price = node[o].price
  <2>1. \A o \in byID \cup {taker} : o \in OrderId
    BY TakerSide DEF BookInv, TypeOK
  <2>2. \A o \in byID \cup {taker} : Terms(o) = [side |-> node[o].side, price |-> node[o].price]
    BY DEF Terms
  <2>3. \A o \in byID \cup {taker} : OrderBar[o] = [side |-> node[o].side, price |-> node[o].price]
    BY <1>1, <2>1, <2>2
  <2>4. ASSUME NEW o \in byID \cup {taker}
        PROVE  o \in OrderId /\ OrderBar[o].side = node[o].side /\ OrderBar[o].price = node[o].price
    <3>1. PICK r : r = OrderBar[o]
      OBVIOUS
    <3>2. r = [side |-> node[o].side, price |-> node[o].price]
      BY <2>3, <3>1
    <3>3. r.side = node[o].side /\ r.price = node[o].price
      BY <3>2
    <3> QED
      BY <2>1, <3>1, <3>3
  <2> QED
    BY <2>4
<1>3. \A o \in OrderId : RemBar[o] > 0 <=> o \in byID
  BY <1>1, TakerSide
<1>4. PT!Opposite(taker) =
        {m \in OrderId : RemBar[m] > 0 /\ OrderBar[m].side # OrderBar[taker].side}
  BY DEF PT!Opposite, PT!Resting, PT!OrderId, OrderId, RemBar, OrderBar
<1>5. \A m \in byID : node[m].side # node[taker].side
                        <=> node[m].side = OppositeSide(node[taker].side)
  BY TakerSide DEF OppositeSide, Sides
<1>6. PT!Opposite(taker) = Against
  BY <1>2, <1>3, <1>4, <1>5 DEF Against
<1>7. ASSUME NEW m \in Against PROVE PT!Crosses(taker, m) <=> IsCrossed(m)
  <2>1. PT!Crosses(taker, m) <=>
          IF OrderBar[taker].side = "buy" THEN OrderBar[m].price <= OrderBar[taker].price
                                          ELSE OrderBar[m].price >= OrderBar[taker].price
    BY DEF PT!Crosses, OrderBar
  <2>2. m \in byID
    BY DEF Against
  <2> QED
    BY <1>2, <2>1, <2>2 DEF IsCrossed
<1>8. ASSUME NEW m \in Against, NEW n \in Against
      PROVE  PT!Ahead(m, n) <=> Due(OppositeSide(node[taker].side), m, n)
  <2>1. PT!Ahead(m, n) <=>
          \/ IF OrderBar[m].side = "sell" THEN OrderBar[m].price < OrderBar[n].price
                                          ELSE OrderBar[m].price > OrderBar[n].price
          \/ OrderBar[m].price = OrderBar[n].price /\ SeqBar[m] < SeqBar[n]
    BY DEF PT!Ahead, OrderBar, SeqBar
  <2>2. m \in byID /\ n \in byID /\ node[m].side = OppositeSide(node[taker].side)
    BY DEF Against
  <2>3. SeqBar[m] = node[m].seq /\ SeqBar[n] = node[n].seq
    BY <1>1, <1>2, <2>2
  <2>4. OrderBar[m].side = OppositeSide(node[taker].side)
        /\ OrderBar[m].price = node[m].price /\ OrderBar[n].price = node[n].price
    BY <1>2, <2>2
  <2>5. OppositeSide(node[taker].side) = "buy" \/ OppositeSide(node[taker].side) = "sell"
    BY TakerSide DEF Sides
  <2>6. CASE OppositeSide(node[taker].side) = "sell"
    BY <2>1, <2>3, <2>4, <2>6 DEF Due, Better
  <2>7. CASE OppositeSide(node[taker].side) = "buy"
    BY <2>1, <2>3, <2>4, <2>7 DEF Due, Better
  <2> QED
    BY <2>5, <2>6, <2>7
<1> QED
  BY <1>6, <1>7, <1>8

\* The empty book is the empty PriceTimeBook.
LEMMA InitImplements == Init => PT!Init
<1> SUFFICES ASSUME Init PROVE PT!Init
  OBVIOUS
<1>1. \A o \in OrderId : Terms(o) = PT!NoOrder
  BY Arithmetic DEF Terms, Init, PT!NoOrder
<1> QED
  BY <1>1 DEF Init, PT!Init, PT!OrderId, OrderId, Nil

\* The orders PriceTimeBook knows after a step, from those it knew before.
LEMMA TermsOf ==
  ASSUME NEW n \in OrderId, NEW s, NEW p, \A o \in byID \cup {taker} : o # n,
         \A o \in OrderId : o # n => node'[o].side = node[o].side /\ node'[o].price = node[o].price,
         node'[n].side = s, node'[n].price = p,
         \A o \in OrderId : o \in (byID \cup {taker})' <=> o = n \/ o \in byID \cup {taker}
  PROVE  /\ PT!Unknown(n)
         /\ OrderBar' = [OrderBar EXCEPT ![n] = PT!Terms(s, p)]
<1>1. \A o \in OrderId : Terms(o)' = IF o = n THEN [side |-> s, price |-> p] ELSE Terms(o)
  BY DEF Terms
<1>2. Terms(n) = PT!NoOrder
  BY DEF Terms, PT!NoOrder
<1> QED
  BY <1>1, <1>2 DEF OrderBar, PT!Unknown, PT!Terms

\* A row of the table comes into the book, and does not match.
LEMMA RestoreImplements ==
  ASSUME BookInv, NEW s \in Sides, NEW p \in Prices, NEW q \in Quantities, Restore(s, p, q)
  PROVE  \E o \in OrderId : PT!Rest(o, s, p, q)
<1>1. PICK n : n = used + 1
  OBVIOUS
<1>2. /\ n \in OrderId \ byID /\ taker = Nil /\ takerRem' = takerRem /\ taker' = taker
      /\ byID' = byID \cup {n} /\ nextSeq' = nextSeq + 1
      /\ node'[n].rem = q /\ node'[n].seq = nextSeq + 1
      /\ node'[n].side = s /\ node'[n].price = p
      /\ \A o \in OrderId : o # n => /\ node'[o].side = node[o].side
                                     /\ node'[o].price = node[o].price
                                     /\ node'[o].rem = node[o].rem
                                     /\ node'[o].seq = node[o].seq
  BY <1>1, RestoreKeeps
<1>3. PT!Unknown(n) /\ OrderBar' = [OrderBar EXCEPT ![n] = PT!Terms(s, p)]
  <2>1. \A o \in byID \cup {taker} : o # n
    BY <1>2, Arithmetic
  <2> QED
    BY <1>2, <2>1, TermsOf
<1>4. RemBar' = [RemBar EXCEPT ![n] = q]
  <2>1. \A o \in OrderId : RemBar'[o] = IF o = n THEN q ELSE RemBar[o]
    BY <1>2 DEF RemBar
  <2> QED
    BY <2>1 DEF RemBar
<1>5. SeqBar' = [SeqBar EXCEPT ![n] = nextSeq + 1]
  <2>1. \A o \in OrderId : SeqBar'[o] = IF o = n THEN nextSeq + 1 ELSE SeqBar[o]
    BY <1>2 DEF SeqBar
  <2> QED
    BY <2>1 DEF SeqBar
<1>6. PT!Rest(n, s, p, q)
  BY <1>2, <1>3, <1>4, <1>5 DEF PT!Rest, PT!Arrive, OrderBar, RemBar, SeqBar, Nil
<1> QED
  BY <1>2, <1>6

\* ProcessNewOrder is called.
LEMMA SubmitImplements ==
  ASSUME BookInv, NEW s \in Sides, NEW p \in Prices, NEW q \in Quantities, Submit(s, p, q)
  PROVE  \E o \in OrderId : PT!Submit(o, s, p, q)
<1>1. /\ used \in 0..MaxOrders /\ used + 1 \in OrderId /\ byID \subseteq 1..used
      /\ used < MaxOrders /\ taker = Nil
  BY Arithmetic DEF BookInv, TypeOK, Submit, OrderId, RestingOrders
<1>2. PICK n, x : n = used + 1 /\ x = Incoming(s, p)
  OBVIOUS
<1>3. /\ taker' = n /\ takerRem' = q /\ UNCHANGED <<byID, nextSeq>>
      /\ node' = [node EXCEPT ![n] = x]
  BY <1>2 DEF Submit
<1>4. /\ \A o \in OrderId \ {n} : node'[o] = node[o]
      /\ node'[n].side = s /\ node'[n].price = p
  BY <1>1, <1>2, <1>3, IncomingOrder DEF BookInv, TypeOK
<1>5. n \in OrderId /\ \A o \in byID \cup {taker} : o # n
  BY <1>1, <1>2, Arithmetic
<1>6. RemBar' = RemBar /\ SeqBar' = SeqBar
  BY <1>3, <1>4, <1>5 DEF RemBar, SeqBar
<1>7. PT!Unknown(n) /\ OrderBar' = [OrderBar EXCEPT ![n] = PT!Terms(s, p)]
  <2>1. \A o \in OrderId : o \in (byID \cup {taker})' <=> o = n \/ o \in byID \cup {taker}
    BY <1>1, <1>3, Arithmetic
  <2>2. \A o \in OrderId : o # n => /\ node'[o].side = node[o].side
                                   /\ node'[o].price = node[o].price
    BY <1>4
  <2> QED
    BY <1>4, <1>5, <2>1, <2>2, TermsOf
<1>8. PT!Submit(n, s, p, q)
  BY <1>1, <1>3, <1>6, <1>7 DEF PT!Submit, OrderBar, RemBar, SeqBar, Nil
<1> QED
  BY <1>5, <1>8

\* Orders that rest or wait keep their terms, and those that leave are forgotten.
LEMMA TermsKept ==
  ASSUME \A o \in OrderId : node'[o].side = node[o].side /\ node'[o].price = node[o].price
  PROVE  /\ (\A o \in OrderId : o \in (byID \cup {taker})' <=> o \in byID \cup {taker})
              => OrderBar' = OrderBar
         /\ \A n \in OrderId :
              (\A o \in OrderId : o \in (byID \cup {taker})' <=> o # n /\ o \in byID \cup {taker})
                => OrderBar' = [OrderBar EXCEPT ![n] = PT!NoOrder]
<1>1. (\A o \in OrderId : o \in (byID \cup {taker})' <=> o \in byID \cup {taker})
        => OrderBar' = OrderBar
  BY DEF OrderBar, Terms
<1>2. ASSUME NEW n \in OrderId,
             \A o \in OrderId : o \in (byID \cup {taker})' <=> o # n /\ o \in byID \cup {taker}
      PROVE  OrderBar' = [OrderBar EXCEPT ![n] = PT!NoOrder]
  <2>1. \A o \in OrderId : Terms(o)' = IF o = n THEN PT!NoOrder ELSE Terms(o)
    BY <1>2 DEF Terms, PT!NoOrder
  <2> QED
    BY <2>1 DEF OrderBar
<1> QED
  BY <1>1, <1>2

\* One turn of the matching loop meets the order that is due (matcher.go:87).
LEMMA MatchImplements ==
  ASSUME BookInv, MatchStep
  PROVE  \E m \in PT!OrderId : PT!Hit(m)
<1>1. PICK m, q : m = BestMaker /\ q = FillQty(BestMaker)
  OBVIOUS
<1>2. /\ taker # Nil /\ takerRem > 0 /\ m \in Against /\ IsCrossed(m)
      /\ takerRem' = takerRem - q
      /\ UNCHANGED <<nextSeq, used, taker>>
      /\ byID' = IF node[m].rem = q THEN byID \ {m} ELSE byID
      /\ \A o \in OrderId : /\ node'[o].side = node[o].side /\ node'[o].price = node[o].price
                            /\ node'[o].seq = node[o].seq
                            /\ o # m => node'[o].rem = node[o].rem
      /\ node[m].rem # q => node'[m].rem = node[m].rem - q
  BY <1>1, MatchKeeps
<1>3. m \in byID /\ m \in OrderId /\ m # Nil /\ node[m].rem \in Nat /\ byID \subseteq OrderId
  BY <1>2, TakerSide, Arithmetic DEF Against
<1>4. PT!Best(m) /\ PT!Crosses(taker, m)
  <2>1. \A n \in Against \ {m} : Due(OppositeSide(node[taker].side), m, n)
    BY <1>1, <1>2, <1>3, HeadIsDue
  <2>2. PT!Crosses(taker, m) /\ \A n \in Against \ {m} : PT!Ahead(m, n)
    BY <1>2, <2>1, OppositeIsAgainst
  <2>3. PT!Opposite(taker) = Against
    BY <1>2, OppositeIsAgainst
  <2> QED
    BY <1>2, <2>2, <2>3 DEF PT!Best
<1>5. OrderBar' = IF node[m].rem = q THEN [OrderBar EXCEPT ![m] = PT!NoOrder] ELSE OrderBar
  <2>1. taker # m
    BY <1>2, <1>3, TakerSide
  <2>2. CASE node[m].rem = q
    <3>1. \A o \in OrderId : o \in (byID \cup {taker})' <=> o # m /\ o \in byID \cup {taker}
      BY <1>2, <2>1, <2>2
    <3> QED
      BY <1>2, <1>3, <2>2, <3>1, TermsKept
  <2>3. CASE node[m].rem # q
    <3>1. \A o \in OrderId : o \in (byID \cup {taker})' <=> o \in byID \cup {taker}
      BY <1>2, <2>3
    <3> QED
      BY <1>2, <2>3, <3>1, TermsKept
  <2> QED
    BY <2>2, <2>3
<1>6. RemBar[m] = node[m].rem
  BY <1>3 DEF RemBar
<1>7. q = IF takerRem < RemBar[m] THEN takerRem ELSE RemBar[m]
  BY <1>1, <1>6 DEF FillQty
<1>8. RemBar' = [RemBar EXCEPT ![m] = @ - q]
  <2>1. \A o \in OrderId : RemBar'[o] = IF o = m THEN node[m].rem - q ELSE RemBar[o]
    <3> SUFFICES ASSUME NEW o \in OrderId
                 PROVE  RemBar'[o] = IF o = m THEN node[m].rem - q ELSE RemBar[o]
      OBVIOUS
    <3>1. RemBar'[o] = IF o \in byID' THEN node'[o].rem ELSE 0
      BY DEF RemBar
    <3>2. RemBar[o] = IF o \in byID THEN node[o].rem ELSE 0
      BY DEF RemBar
    <3> QED
      BY <1>2, <1>3, <3>1, <3>2
  <2> QED
    BY <1>3, <1>6, <2>1 DEF RemBar
<1>9. SeqBar' = IF RemBar[m] = q THEN [SeqBar EXCEPT ![m] = 0] ELSE SeqBar
  <2>1. \A o \in OrderId :
          SeqBar'[o] = IF o = m THEN (IF RemBar[m] = q THEN 0 ELSE SeqBar[m]) ELSE SeqBar[o]
    <3> SUFFICES ASSUME NEW o \in OrderId
                 PROVE  SeqBar'[o] = IF o = m THEN (IF RemBar[m] = q THEN 0 ELSE SeqBar[m])
                                              ELSE SeqBar[o]
      OBVIOUS
    <3>1. SeqBar'[o] = IF o \in byID' THEN node'[o].seq ELSE 0
      BY DEF SeqBar
    <3>2. SeqBar[o] = IF o \in byID THEN node[o].seq ELSE 0
      BY DEF SeqBar
    <3> QED
      BY <1>2, <1>3, <1>6, <3>1, <3>2
  <2> QED
    BY <1>3, <2>1 DEF SeqBar
<1>10. PT!Hit(m)
  BY <1>2, <1>4, <1>5, <1>6, <1>7, <1>8, <1>9 DEF PT!Hit, OrderBar, RemBar, SeqBar, Nil
<1> QED
  BY <1>3, <1>10 DEF PT!OrderId, OrderId

\* The loop ends only when no resting order crosses, though only the head of the
\* best level was asked (matcher.go:93).
LEMMA DoneImplements ==
  ASSUME BookInv, MatchDone
  PROVE  PT!Finish
<1>1. /\ taker # Nil /\ taker' = Nil /\ takerRem' = 0 /\ UNCHANGED <<inUse, used>>
      /\ takerRem = 0 \/ (BestMaker # Nil => ~ IsCrossed(BestMaker))
  BY DEF MatchDone
<1>2. takerRem = 0 \/ ~ \E m \in PT!Opposite(taker) : PT!Crosses(taker, m)
  <2> SUFFICES ASSUME takerRem # 0, NEW m \in Against
               PROVE  ~ IsCrossed(m)
    BY <1>1, OppositeIsAgainst
  <2>1. BestMaker # Nil /\ BestMaker \in Against /\ ~ IsCrossed(BestMaker)
    BY <1>1, HeadIsDue
  <2>2. CASE m = BestMaker
    BY <2>1, <2>2
  <2>3. CASE m # BestMaker
    <3>1. PICK b : b = BestMaker
      OBVIOUS
    <3>2. Due(OppositeSide(node[taker].side), b, m)
      BY <1>1, <2>1, <2>3, <3>1, HeadIsDue
    <3>3. /\ node[b].price \in Nat /\ node[m].price \in Nat /\ node[taker].price \in Nat
          /\ node[taker].side = "buy" \/ node[taker].side = "sell"
      BY <1>1, <2>1, <3>1, TakerSide DEF Against, Node, Sides
    <3>4. CASE node[taker].side = "buy"
      BY <2>1, <3>1, <3>2, <3>3, <3>4 DEF Due, Better, OppositeSide, IsCrossed
    <3>5. CASE node[taker].side = "sell"
      BY <2>1, <3>1, <3>2, <3>3, <3>5 DEF Due, Better, OppositeSide, IsCrossed
    <3> QED
      BY <3>3, <3>4, <3>5
  <2> QED
    BY <2>2, <2>3
<1>3. CASE takerRem > 0
  <2>1. AppendRestingOrder(taker, node[taker], takerRem)
    BY <1>3 DEF MatchDone
  <2>2. /\ byID' = byID \cup {taker} /\ nextSeq' = nextSeq + 1
        /\ node'[taker].rem = takerRem /\ node'[taker].seq = nextSeq + 1
        /\ \A o \in OrderId : /\ node'[o].side = node[o].side /\ node'[o].price = node[o].price
                              /\ o # taker => /\ node'[o].rem = node[o].rem
                                              /\ node'[o].seq = node[o].seq
    BY <1>1, <1>3, <2>1, TakerRests
  <2>3. taker \in OrderId
    BY <1>1, TakerSide
  <2>4. OrderBar' = OrderBar
    <3>1. \A o \in OrderId : o \in (byID \cup {taker})' <=> o \in byID \cup {taker}
      BY <1>1, <2>2, Arithmetic
    <3> QED
      BY <2>2, <3>1, TermsKept
  <2>5. RemBar' = [RemBar EXCEPT ![taker] = takerRem]
    <3>1. \A o \in OrderId : RemBar'[o] = IF o = taker THEN takerRem ELSE RemBar[o]
      BY <2>2 DEF RemBar
    <3> QED
      BY <2>3, <3>1 DEF RemBar
  <2>6. SeqBar' = [SeqBar EXCEPT ![taker] = nextSeq + 1]
    <3>1. \A o \in OrderId : SeqBar'[o] = IF o = taker THEN nextSeq + 1 ELSE SeqBar[o]
      BY <2>2 DEF SeqBar
    <3> QED
      BY <2>3, <3>1 DEF SeqBar
  <2>7. PT!Arrive(taker, takerRem)
    BY <2>2, <2>5, <2>6 DEF PT!Arrive, RemBar, SeqBar
  <2> QED
    BY <1>1, <1>2, <1>3, <2>4, <2>7 DEF PT!Finish, OrderBar, Nil
<1>4. CASE ~ (takerRem > 0)
  <2>1. UNCHANGED <<node, byID, nextSeq>>
    BY <1>4 DEF MatchDone, bookVars
  <2>2. RemBar' = RemBar /\ SeqBar' = SeqBar
    BY <1>1, <2>1 DEF RemBar, SeqBar
  <2>3. OrderBar' = [OrderBar EXCEPT ![taker] = PT!NoOrder]
    <3>1. taker \in OrderId /\ taker \notin byID
      BY <1>1, TakerSide
    <3>2. \A o \in OrderId : o \in (byID \cup {taker})' <=> o # taker /\ o \in byID \cup {taker}
      BY <1>1, <2>1, <3>1, Arithmetic
    <3> QED
      BY <2>1, <3>1, <3>2, TermsKept
  <2> QED
    BY <1>1, <1>2, <1>4, <2>1, <2>2, <2>3 DEF PT!Finish, OrderBar, RemBar, SeqBar, Nil
<1> QED
  BY <1>3, <1>4

\* RemoveOrderByID takes the one order out.
LEMMA CancelImplements ==
  ASSUME BookInv, NEW k \in OrderId, RemoveOrderByID(k)
  PROVE  PT!Cancel(k)
<1>1. k \in byID /\ RemoveNode(node, k) /\ taker = Nil /\ k # Nil
      /\ UNCHANGED <<nextSeq, used, taker, takerRem>>
  BY Arithmetic DEF RemoveOrderByID, takerVars
<1>2. PICK nodes : nodes = node
  OBVIOUS
<1>3. OnlyRemOf(k, nodes) /\ RemoveNode(nodes, k)
  BY <1>1, <1>2, OwnRem
<1>4. /\ byID' = byID \ {k}
      /\ \A o \in OrderId : /\ node'[o].side = node[o].side /\ node'[o].price = node[o].price
                            /\ node'[o].seq = node[o].seq
                            /\ o # k => node'[o].rem = node[o].rem
  BY <1>1, <1>3, NodeIsRemoved
<1>5. OrderBar' = [OrderBar EXCEPT ![k] = PT!NoOrder]
  <2>1. \A o \in OrderId : o \in (byID \cup {taker})' <=> o # k /\ o \in byID \cup {taker}
    BY <1>1, <1>4
  <2> QED
    BY <1>4, <2>1, TermsKept
<1>6. RemBar' = [RemBar EXCEPT ![k] = 0]
  <2>1. \A o \in OrderId : RemBar'[o] = IF o = k THEN 0 ELSE RemBar[o]
    BY <1>4 DEF RemBar
  <2> QED
    BY <2>1 DEF RemBar
<1>7. SeqBar' = [SeqBar EXCEPT ![k] = 0]
  <2>1. \A o \in OrderId : SeqBar'[o] = IF o = k THEN 0 ELSE SeqBar[o]
    BY <1>4 DEF SeqBar
  <2> QED
    BY <2>1 DEF SeqBar
<1>8. RemBar[k] > 0
  <2>1. node[k].rem > 0
    BY <1>1 DEF BookInv, RestingOrders
  <2> QED
    BY <1>1, <2>1 DEF RemBar
<1> QED
  BY <1>1, <1>5, <1>6, <1>7, <1>8 DEF PT!Cancel, PT!Resting, OrderBar, RemBar, SeqBar, Nil

\* Every step of the book is a step of PriceTimeBook, or nothing to it.
LEMMA StepImplements == BookInv /\ [Next]_vars => [PT!Next]_PT!ptVars
<1> SUFFICES ASSUME BookInv, [Next]_vars PROVE [PT!Next]_PT!ptVars
  OBVIOUS
<1>1. PT!OrderId = OrderId /\ PT!Sides = Sides
  BY DEF PT!OrderId, OrderId, PT!Sides, Sides
<1>2. ASSUME NEW s \in Sides, NEW p \in Prices, NEW q \in Quantities, Submit(s, p, q)
      PROVE  PT!Next
  BY <1>1, <1>2, SubmitImplements DEF PT!Next
<1>3. ASSUME NEW s \in Sides, NEW p \in Prices, NEW q \in Quantities, Restore(s, p, q)
      PROVE  PT!Next
  BY <1>1, <1>3, RestoreImplements DEF PT!Next
<1>4. CASE MatchStep
  BY <1>4, MatchImplements DEF PT!Next
<1>5. CASE MatchDone
  BY <1>5, DoneImplements DEF PT!Next
<1>6. ASSUME NEW o \in OrderId, RemoveOrderByID(o) PROVE PT!Next
  BY <1>1, <1>6, CancelImplements DEF PT!Next
<1>7. CASE UNCHANGED vars
  <2>1. UNCHANGED <<node, byID, nextSeq, used, taker, takerRem>>
    BY <1>7 DEF vars, bookVars, takerVars
  <2>2. OrderBar' = OrderBar /\ RemBar' = RemBar /\ SeqBar' = SeqBar
    BY <2>1 DEF OrderBar, Terms, RemBar, SeqBar
  <2> QED
    BY <2>1, <2>2 DEF PT!ptVars, OrderBar, RemBar, SeqBar
<1> QED
  BY <1>2, <1>3, <1>4, <1>5, <1>6, <1>7 DEF Next

\* The lists, slices and index of order_book.go, with the loop of matcher.go that walks
\* them, match in price-time order: they implement PriceTimeBook, the book OrderRuntime
\* matches against.
THEOREM BookImplementsPriceTime == Spec => ImplementsPriceTime
<1>1. Init => PT!Init
  BY InitImplements
<1>2. BookInv /\ [Next]_vars => [PT!Next]_PT!ptVars
  BY StepImplements
<1>3. Spec => []BookInv
  BY BookInvariant
<1> QED
  BY <1>1, <1>2, <1>3, PTL DEF Spec, ImplementsPriceTime, PT!Spec

(* Places in a level *)

\* The place of o in the order of arrival.
Place(o, M, heap) == Cardinality(InFront(o, M, heap)) + 1

\* The places run from 1 and grow with the numbers of arrival.
LEMMA PlacesInOrder ==
  ASSUME NEW M, NEW heap, IsFiniteSet(M), Numbered(M, heap)
  PROVE  /\ Cardinality(M) \in Nat
         /\ \A o \in M : Place(o, M, heap) \in 1..Cardinality(M)
         /\ \A m, n \in M : Earlier(heap, m, n) => Place(m, M, heap) < Place(n, M, heap)
         /\ \A m, n \in M : Place(m, M, heap) = Place(n, M, heap) => m = n
         /\ \A m, n \in M : Place(m, M, heap) < Place(n, M, heap) => Earlier(heap, m, n)
<1>1. ASSUME NEW o \in M
      PROVE  /\ IsFiniteSet(InFront(o, M, heap)) /\ o \notin InFront(o, M, heap)
             /\ Cardinality(InFront(o, M, heap)) \in Nat
             /\ Cardinality(InFront(o, M, heap) \cup {o}) = Place(o, M, heap)
             /\ Place(o, M, heap) = Cardinality(InFront(o, M, heap)) + 1
  <2>1. InFront(o, M, heap) \in SUBSET M
    BY DEF InFront
  <2>2. o \notin InFront(o, M, heap)
    BY DEF InFront, Earlier, Numbered
  <2>3. IsFiniteSet(InFront(o, M, heap))
    BY <2>1, FS_Subset
  <2> QED
    BY <2>2, <2>3, Sizes DEF Place
<1>2. ASSUME NEW o \in M PROVE Place(o, M, heap) \in 1..Cardinality(M)
  <2>1. InFront(o, M, heap) \cup {o} \in SUBSET M
    BY DEF InFront
  <2>2. Cardinality(InFront(o, M, heap) \cup {o}) <= Cardinality(M)
    BY <2>1, FS_Subset
  <2>3. Cardinality(M) \in Nat
    BY Sizes
  <2> QED
    BY <1>1, <2>2, <2>3
<1>3. ASSUME NEW m \in M, NEW n \in M, Earlier(heap, m, n)
      PROVE  Place(m, M, heap) < Place(n, M, heap)
  <2>1. InFront(m, M, heap) \cup {m} \in SUBSET InFront(n, M, heap)
    BY <1>3 DEF InFront, Earlier, Numbered
  <2>2. IsFiniteSet(InFront(n, M, heap))
    BY <1>1
  <2>3. Cardinality(InFront(m, M, heap) \cup {m}) <= Cardinality(InFront(n, M, heap))
    BY <2>1, <2>2, FS_Subset
  <2>4. Place(m, M, heap) <= Cardinality(InFront(n, M, heap))
    BY <1>1, <2>3
  <2>5. /\ Cardinality(InFront(n, M, heap)) \in Nat
        /\ Place(n, M, heap) = Cardinality(InFront(n, M, heap)) + 1
    BY <1>1
  <2>6. /\ Cardinality(InFront(m, M, heap)) \in Nat
        /\ Place(m, M, heap) = Cardinality(InFront(m, M, heap)) + 1
    BY <1>1
  <2> QED
    BY <2>4, <2>5, <2>6
<1>4. \A m, n \in M : Earlier(heap, m, n) \/ Earlier(heap, n, m) \/ m = n
  BY DEF Earlier, Numbered
<1>5. \A m, n \in M : Place(m, M, heap) = Place(n, M, heap) => m = n
  BY <1>2, <1>3, <1>4
<1>6. \A m, n \in M : Place(m, M, heap) < Place(n, M, heap) => Earlier(heap, m, n)
  BY <1>2, <1>3, <1>4
<1> QED
  BY <1>2, <1>3, <1>5, <1>6, Sizes

\* Following a link moves one place on, back one place back.
LEMMA LinksAreNeighbours ==
  ASSUME NEW M, NEW heap, NEW h, NEW t, IsFiniteSet(M), Numbered(M, heap), Chain(M, heap, h, t)
  PROVE  /\ IF M = {} THEN h = Nil /\ t = Nil
            ELSE /\ h \in M /\ Place(h, M, heap) = 1
                 /\ t \in M /\ Place(t, M, heap) = Cardinality(M)
         /\ \A o \in M :
              /\ IF heap[o].next = Nil THEN Place(o, M, heap) = Cardinality(M)
                 ELSE heap[o].next \in M /\ Place(heap[o].next, M, heap) = Place(o, M, heap) + 1
              /\ IF heap[o].prev = Nil THEN Place(o, M, heap) = 1
                 ELSE heap[o].prev \in M /\ Place(heap[o].prev, M, heap) + 1 = Place(o, M, heap)
<1>1. ASSUME NEW o \in M
      PROVE  /\ IsFiniteSet(InFront(o, M, heap)) /\ o \notin InFront(o, M, heap)
             /\ Cardinality(InFront(o, M, heap)) \in Nat
             /\ Cardinality(InFront(o, M, heap) \cup {o}) = Place(o, M, heap)
  <2>1. InFront(o, M, heap) \in SUBSET M
    BY DEF InFront
  <2>2. o \notin InFront(o, M, heap)
    BY DEF InFront, Earlier, Numbered
  <2>3. IsFiniteSet(InFront(o, M, heap))
    BY <2>1, FS_Subset
  <2> QED
    BY <2>2, <2>3, Sizes DEF Place
<1>2. ASSUME NEW o \in M, Behind(o, M, heap) = {}
      PROVE  Place(o, M, heap) = Cardinality(M)
  <2>1. InFront(o, M, heap) \cup {o} = M
    BY <1>2 DEF InFront, Behind, Earlier, Numbered
  <2> QED
    BY <1>1, <2>1
<1>3. ASSUME NEW o \in M, InFront(o, M, heap) = {}
      PROVE  Place(o, M, heap) = 1
  BY <1>3, Sizes, FS_EmptySet DEF Place
<1>4. ASSUME NEW o \in M, NEW n \in M,
             IsFirst(n, Behind(o, M, heap), heap), Behind(o, M, heap) # {}
      PROVE  Place(n, M, heap) = Place(o, M, heap) + 1
  <2>1. n \in Behind(o, M, heap) /\ \A m \in Behind(o, M, heap) \ {n} : Earlier(heap, n, m)
    BY <1>4 DEF IsFirst
  <2>2. InFront(n, M, heap) = InFront(o, M, heap) \cup {o}
    BY <2>1 DEF InFront, Behind, Earlier, Numbered
  <2> QED
    BY <1>1, <2>2 DEF Place
<1>5. ASSUME NEW o \in M, NEW n \in M,
             IsLast(n, InFront(o, M, heap), heap), InFront(o, M, heap) # {}
      PROVE  Place(n, M, heap) + 1 = Place(o, M, heap)
  <2>1. n \in InFront(o, M, heap) /\ \A m \in InFront(o, M, heap) \ {n} : Earlier(heap, m, n)
    BY <1>5 DEF IsLast
  <2>2. InFront(o, M, heap) = InFront(n, M, heap) \cup {n}
    BY <2>1 DEF InFront, Earlier, Numbered
  <2> QED
    BY <1>1, <2>2 DEF Place
<1>6. M # {} => /\ h \in M /\ Place(h, M, heap) = 1
                /\ t \in M /\ Place(t, M, heap) = Cardinality(M)
  <2> SUFFICES ASSUME M # {} PROVE /\ h \in M /\ Place(h, M, heap) = 1
                                   /\ t \in M /\ Place(t, M, heap) = Cardinality(M)
    OBVIOUS
  <2>1. h \in M /\ InFront(h, M, heap) = {}
    BY DEF Chain, IsFirst, InFront, Earlier, Numbered
  <2>2. t \in M /\ Behind(t, M, heap) = {}
    BY DEF Chain, IsLast, Behind, Earlier, Numbered
  <2> QED
    BY <1>2, <1>3, <2>1, <2>2
<1>7. M = {} => h = Nil /\ t = Nil
  BY DEF Chain, IsFirst, IsLast
<1>8. ASSUME NEW o \in M
      PROVE  /\ IF heap[o].next = Nil THEN Place(o, M, heap) = Cardinality(M)
                ELSE heap[o].next \in M /\ Place(heap[o].next, M, heap) = Place(o, M, heap) + 1
             /\ IF heap[o].prev = Nil THEN Place(o, M, heap) = 1
                ELSE heap[o].prev \in M /\ Place(heap[o].prev, M, heap) + 1 = Place(o, M, heap)
  <2>1. /\ IsFirst(heap[o].next, Behind(o, M, heap), heap)
        /\ IsLast(heap[o].prev, InFront(o, M, heap), heap)
    BY DEF Chain
  <2>2. Behind(o, M, heap) \subseteq M /\ InFront(o, M, heap) \subseteq M /\ Nil \notin M
    BY DEF Behind, InFront, Numbered
  <2>3. heap[o].next = Nil <=> Behind(o, M, heap) = {}
    BY <2>1, <2>2 DEF IsFirst
  <2>4. heap[o].prev = Nil <=> InFront(o, M, heap) = {}
    BY <2>1, <2>2 DEF IsLast
  <2>5. heap[o].next # Nil => heap[o].next \in M
    BY <2>1, <2>2, <2>3 DEF IsFirst
  <2>6. heap[o].prev # Nil => heap[o].prev \in M
    BY <2>1, <2>2, <2>4 DEF IsLast
  <2> QED
    BY <1>2, <1>3, <1>4, <1>5, <2>1, <2>3, <2>4, <2>5, <2>6
<1> QED
  BY <1>6, <1>7, <1>8

\* Every place up to the number of orders is taken.
LEMMA EveryPlaceTaken ==
  ASSUME NEW M, NEW heap, NEW h, NEW t, IsFiniteSet(M), Numbered(M, heap), Chain(M, heap, h, t)
  PROVE  \A i \in 1..Cardinality(M) : \E o \in M : Place(o, M, heap) = i
<1> DEFINE Free == {i \in 1..Cardinality(M) : \A o \in M : Place(o, M, heap) # i}
<1>1. SUFFICES ASSUME Free # {} PROVE FALSE
  OBVIOUS
<1>2. /\ IsFiniteSet(1..Cardinality(M)) /\ Free \in SUBSET (1..Cardinality(M))
      /\ Cardinality(M) \in Nat
  BY FS_Interval, Sizes
<1>3. IsFiniteSet(Free) /\ Free \in SUBSET Nat
  <2> HIDE DEF Free
  <2>1. IsFiniteSet(Free)
    BY <1>2, FS_Subset
  <2> QED
    BY <1>2, <2>1
<1>4. PICK i \in Free : \A j \in Free : i <= j
  <2> HIDE DEF Free
  <2> QED
    BY <1>1, <1>3, LeastExists
<1>5. M # {}
  BY <1>2, <1>4, Sizes
<1>6. i # 1
  BY <1>4, <1>5, LinksAreNeighbours
<1>7. PICK o \in M : Place(o, M, heap) = i - 1
  <2>1. i - 1 \in 1..Cardinality(M) /\ ~ (i <= i - 1)
    BY <1>2, <1>4, <1>6
  <2> QED
    BY <1>4, <2>1
<1>8. CASE heap[o].next = Nil
  BY <1>2, <1>4, <1>7, <1>8, LinksAreNeighbours
<1>9. CASE heap[o].next # Nil
  <2>1. heap[o].next \in M /\ Place(heap[o].next, M, heap) = i
    BY <1>2, <1>4, <1>7, <1>9, LinksAreNeighbours
  <2> QED
    BY <1>4, <2>1
<1> QED
  BY <1>8, <1>9

(* Walks *)

\* One link on, or back; Nil stays.
Step(heap, fwd, n) == IF n = Nil THEN Nil ELSE IF fwd THEN heap[n].next ELSE heap[n].prev

IsWalk(f, N, h, heap, fwd) == f = [i \in 1..N |-> IF i = 1 THEN h ELSE Step(heap, fwd, f[i - 1])]

\* From one end there is one walk.
LEMMA OneWalk ==
  ASSUME NEW N \in Nat, NEW h, NEW heap, NEW fwd, NEW f, NEW g,
         IsWalk(f, N, h, heap, fwd), IsWalk(g, N, h, heap, fwd)
  PROVE  f = g
<1> DEFINE Apart == {i \in 1..N : f[i] # g[i]}
<1>1. /\ f = [i \in 1..N |-> f[i]] /\ g = [i \in 1..N |-> g[i]]
      /\ \A i \in 1..N : f[i] = IF i = 1 THEN h ELSE Step(heap, fwd, f[i - 1])
      /\ \A i \in 1..N : g[i] = IF i = 1 THEN h ELSE Step(heap, fwd, g[i - 1])
  BY DEF IsWalk
<1>2. CASE Apart = {}
  <2>1. \A i \in 1..N : f[i] = g[i]
    BY <1>2
  <2> QED
    BY <1>1, <2>1
<1>3. CASE Apart # {}
  <2>1. IsFiniteSet(1..N) /\ Apart \in SUBSET (1..N)
    BY FS_Interval
  <2>2. IsFiniteSet(Apart) /\ Apart \in SUBSET Nat
    <3> HIDE DEF Apart
    <3>1. IsFiniteSet(Apart)
      BY <2>1, FS_Subset
    <3> QED
      BY <2>1, <3>1
  <2>3. PICK i \in Apart : \A j \in Apart : i <= j
    <3> HIDE DEF Apart
    <3> QED
      BY <1>3, <2>2, LeastExists
  <2>4. i # 1
    BY <1>1, <2>3
  <2>5. f[i - 1] = g[i - 1]
    <3>1. i - 1 \in 1..N /\ ~ (i <= i - 1)
      BY <2>3, <2>4
    <3> QED
      BY <2>3, <3>1
  <2> QED
    <3>1. i \in 1..N /\ f[i] # g[i]
      BY <2>3
    <3>2. f[i] = Step(heap, fwd, f[i - 1]) /\ g[i] = Step(heap, fwd, g[i - 1])
      BY <1>1, <2>4, <3>1
    <3> QED
      BY <2>5, <3>1, <3>2
<1> QED
  BY <1>2, <1>3

\* The order at place i.
Standing(i, M, heap) == CHOOSE o \in M : Place(o, M, heap) = i

\* A level from its head on, and from its tail back, followed by Nil.
FromHead(N, M, heap) ==
  [i \in 1..N |-> IF i <= Cardinality(M) THEN Standing(i, M, heap) ELSE Nil]
FromTail(N, M, heap) ==
  [i \in 1..N |-> IF i <= Cardinality(M) THEN Standing(Cardinality(M) + 1 - i, M, heap) ELSE Nil]

\* Every place has its order and every order its place.
LEMMA StandingStands ==
  ASSUME NEW M, NEW heap, NEW h, NEW t, IsFiniteSet(M), Numbered(M, heap), Chain(M, heap, h, t)
  PROVE  /\ \A i \in 1..Cardinality(M) :
              Standing(i, M, heap) \in M /\ Place(Standing(i, M, heap), M, heap) = i
         /\ \A o \in M : Standing(Place(o, M, heap), M, heap) = o
<1>1. \A i \in 1..Cardinality(M) : \E o \in M : Place(o, M, heap) = i
  BY EveryPlaceTaken
<1>2. \A i \in 1..Cardinality(M) :
        Standing(i, M, heap) \in M /\ Place(Standing(i, M, heap), M, heap) = i
  BY <1>1 DEF Standing
<1>3. /\ \A o \in M : Place(o, M, heap) \in 1..Cardinality(M)
      /\ \A m, n \in M : Place(m, M, heap) = Place(n, M, heap) => m = n
  BY PlacesInOrder
<1>4. \A o \in M : Standing(Place(o, M, heap), M, heap) = o
  BY <1>2, <1>3
<1> QED
  BY <1>2, <1>4

\* The links are followed place by place.
LEMMA LevelsAreWalked ==
  ASSUME NEW M, NEW heap, NEW h, NEW t, IsFiniteSet(M), Numbered(M, heap), Chain(M, heap, h, t),
         NEW N \in Nat
  PROVE  /\ IsWalk(FromHead(N, M, heap), N, h, heap, TRUE)
         /\ IsWalk(FromTail(N, M, heap), N, t, heap, FALSE)
<1> DEFINE k == Cardinality(M)
           At1(i) == Standing(i, M, heap)
           f == FromHead(N, M, heap)
           g == FromTail(N, M, heap)
<1>1. k \in Nat /\ (k = 0 <=> M = {}) /\ Nil \notin M
  BY Sizes DEF Numbered
<1>2. /\ \A i \in 1..k : At1(i) \in M /\ Place(At1(i), M, heap) = i
      /\ \A o \in M : At1(Place(o, M, heap)) = o
  BY StandingStands
<1>3. /\ IF M = {} THEN h = Nil /\ t = Nil
         ELSE /\ h \in M /\ Place(h, M, heap) = 1
              /\ t \in M /\ Place(t, M, heap) = k
      /\ \A o \in M :
           /\ IF heap[o].next = Nil THEN Place(o, M, heap) = k
              ELSE heap[o].next \in M /\ Place(heap[o].next, M, heap) = Place(o, M, heap) + 1
           /\ IF heap[o].prev = Nil THEN Place(o, M, heap) = 1
              ELSE heap[o].prev \in M /\ Place(heap[o].prev, M, heap) + 1 = Place(o, M, heap)
           /\ Place(o, M, heap) \in 1..k
  <2>1. \A o \in M : Place(o, M, heap) \in 1..k
    BY PlacesInOrder
  <2> QED
    BY <2>1, LinksAreNeighbours
<1>4. /\ \A i \in 1..N : f[i] = IF i <= k THEN At1(i) ELSE Nil
      /\ \A i \in 1..N : g[i] = IF i <= k THEN At1(k + 1 - i) ELSE Nil
  BY DEF FromHead, FromTail
<1>5. f = [i \in 1..N |-> f[i]] /\ g = [i \in 1..N |-> g[i]]
  BY DEF FromHead, FromTail
<1> HIDE DEF k, At1, f, g
<1>6. ASSUME NEW i \in 1..N
      PROVE  f[i] = IF i = 1 THEN h ELSE Step(heap, TRUE, f[i - 1])
  <2>1. CASE i = 1
    BY <1>1, <1>2, <1>3, <1>4, <2>1
  <2>2. CASE i # 1
    <3>1. i - 1 \in 1..N
      BY <2>2
    <3>2. CASE i - 1 > k
      BY <1>1, <1>4, <3>1, <3>2 DEF Step
    <3>3. CASE i - 1 <= k
      <4>1. PICK o : o = At1(i - 1)
        OBVIOUS
      <4>2. o \in M /\ Place(o, M, heap) = i - 1 /\ f[i - 1] = o
        BY <1>2, <1>4, <3>1, <3>3, <4>1
      <4>3. CASE heap[o].next = Nil
        <5>1. i - 1 = k
          BY <1>3, <4>2, <4>3
        <5> QED
          BY <1>1, <1>4, <2>2, <4>2, <4>3, <5>1 DEF Step
      <4>4. CASE heap[o].next # Nil
        <5>1. heap[o].next \in M /\ Place(heap[o].next, M, heap) = i /\ i \in 1..k
          BY <1>1, <1>3, <4>2, <4>4
        <5>2. At1(i) = heap[o].next
          BY <1>2, <5>1
        <5> QED
          BY <1>1, <1>4, <2>2, <4>2, <5>1, <5>2 DEF Step
      <4> QED
        BY <4>3, <4>4
    <3>4. i - 1 > k \/ i - 1 <= k
      BY <1>1, <3>1
    <3> QED
      BY <3>2, <3>3, <3>4
  <2> QED
    BY <2>1, <2>2
<1>7. ASSUME NEW i \in 1..N
      PROVE  g[i] = IF i = 1 THEN t ELSE Step(heap, FALSE, g[i - 1])
  <2>1. CASE i = 1
    <3>1. CASE M = {}
      BY <1>1, <1>3, <1>4, <2>1, <3>1
    <3>2. CASE M # {}
      <4>1. k + 1 - i = k /\ i <= k
        BY <1>1, <2>1, <3>2
      <4>2. At1(k) = t
        BY <1>2, <1>3, <3>2
      <4> QED
        BY <1>4, <2>1, <4>1, <4>2
    <3> QED
      BY <3>1, <3>2
  <2>2. CASE i # 1
    <3>1. i - 1 \in 1..N
      BY <2>2
    <3>2. CASE i - 1 > k
      BY <1>1, <1>4, <3>1, <3>2 DEF Step
    <3>3. CASE i - 1 <= k
      <4>1. k + 1 - (i - 1) \in 1..k /\ k + 1 - (i - 1) = k + 2 - i
        BY <1>1, <3>1, <3>3
      <4>2. PICK o : o = At1(k + 1 - (i - 1))
        OBVIOUS
      <4>3. o \in M /\ Place(o, M, heap) = k + 2 - i /\ g[i - 1] = o
        BY <1>2, <1>4, <3>1, <3>3, <4>1, <4>2
      <4>4. CASE heap[o].prev = Nil
        <5>1. i - 1 = k
          BY <1>1, <1>3, <4>3, <4>4
        <5> QED
          BY <1>1, <1>4, <2>2, <4>3, <4>4, <5>1 DEF Step
      <4>5. CASE heap[o].prev # Nil
        <5>1. heap[o].prev \in M /\ Place(heap[o].prev, M, heap) = k + 1 - i /\ k + 1 - i \in 1..k
          BY <1>1, <1>3, <4>3, <4>5
        <5>2. At1(k + 1 - i) = heap[o].prev
          BY <1>2, <5>1
        <5>3. i <= k
          BY <1>1, <5>1
        <5> QED
          BY <1>1, <1>4, <2>2, <4>3, <5>1, <5>2, <5>3 DEF Step
      <4> QED
        BY <4>4, <4>5
    <3>4. i - 1 > k \/ i - 1 <= k
      BY <1>1, <3>1
    <3> QED
      BY <3>2, <3>3, <3>4
  <2> QED
    BY <2>1, <2>2
<1> QED
  BY <1>5, <1>6, <1>7 DEF IsWalk, f, g

\* The size of 1..k.
LEMMA Segment == \A k \in Nat : IsFiniteSet(1..k) /\ Cardinality(1..k) = k
<1> SUFFICES ASSUME NEW k \in Nat PROVE IsFiniteSet(1..k) /\ Cardinality(1..k) = k
  OBVIOUS
<1>1. IsFiniteSet(1..k) /\ Cardinality(1..k) = IF 1 > k THEN 0 ELSE k - 1 + 1
  BY FS_Interval
<1> QED
  BY <1>1

\* A sequence that stays at Nil after its first k.
LEMMA CutAtNil ==
  ASSUME NEW N \in Nat, NEW k \in 0..N, NEW f, f = [i \in 1..N |-> f[i]],
         \A i \in 1..N : f[i] # Nil <=> i <= k
  PROVE  UpToNil(f) = [i \in 1..k |-> f[i]]
<1>1. /\ k \in Nat /\ k - 1 + 1 = k /\ (1 > k => k = 0) /\ (~ (1 <= k) => k = 0)
      /\ \A i \in 1..k : 1 + i - 1 = i
  OBVIOUS
<1> DEFINE T == {f[i] : i \in 1..N}
<1>2. f \in Seq(T) /\ Len(f) = N
  <2>1. f \in [1..N -> T]
    OBVIOUS
  <2> HIDE DEF T
  <2> QED
    BY <2>1
<1>3. {i \in DOMAIN f : f[i] # Nil} = 1..k
  OBVIOUS
<1>4. Cardinality(1..k) = k
  BY <1>1, Segment
<1>5. UpToNil(f) = SubSeq(f, 1, k)
  BY <1>3, <1>4 DEF UpToNil
<1>6. PICK r : r = SubSeq(f, 1, k)
  OBVIOUS
<1>7. r \in Seq(T) /\ Len(r) = k /\ \A i \in 1..k : r[i] = f[i]
  <2>1. \A i \in 1..k : f[i] \in T
    OBVIOUS
  <2> HIDE DEF T
  <2>2. /\ SubSeq(f, 1, k) \in Seq(T)
        /\ Len(SubSeq(f, 1, k)) = IF 1 <= k THEN k - 1 + 1 ELSE 0
        /\ \A i \in 1..(k - 1 + 1) : SubSeq(f, 1, k)[i] = f[1 + i - 1]
    BY <2>1, SubSeqProperties, SMTT(30)
  <2>3. r \in Seq(T) /\ Len(r) = k
    BY <1>1, <1>6, <2>2
  <2>4. \A i \in 1..k : r[i] = f[i]
    BY <1>1, <1>6, <2>2
  <2> QED
    BY <2>3, <2>4
<1>8. r = [i \in 1..k |-> f[i]]
  <2> HIDE DEF T
  <2>1. r = [i \in 1..Len(r) |-> r[i]]
    BY <1>7
  <2> QED
    BY <1>7, <2>1
<1> QED
  BY <1>5, <1>6, <1>8

\* The orders of a level as they came, and the other way round.
InPlace(M, heap) == [i \in 1..Cardinality(M) |-> Standing(i, M, heap)]
Backwards(M, heap) == [i \in 1..Cardinality(M) |-> Standing(Cardinality(M) + 1 - i, M, heap)]

\* What is read on the way.
LEMMA WalksRead ==
  ASSUME NEW M, NEW heap, NEW h, NEW t, IsFiniteSet(M), Numbered(M, heap), Chain(M, heap, h, t),
         NEW N \in Nat, Cardinality(M) <= N
  PROVE  /\ \A g : IsWalk(g, N, h, heap, TRUE) => UpToNil(g) = InPlace(M, heap)
         /\ \A g : IsWalk(g, N, t, heap, FALSE) => UpToNil(g) = Backwards(M, heap)
<1> DEFINE k == Cardinality(M)
<1>1. k \in 0..N /\ Nil \notin M
  BY Sizes DEF Numbered
<1>2. \A i \in 1..k : Standing(i, M, heap) \in M
  BY StandingStands
<1>3. ASSUME NEW g, IsWalk(g, N, h, heap, TRUE) PROVE UpToNil(g) = InPlace(M, heap)
  <2>1. IsWalk(FromHead(N, M, heap), N, h, heap, TRUE)
    BY LevelsAreWalked
  <2>2. g = FromHead(N, M, heap)
    <3>1. PICK f : f = FromHead(N, M, heap)
      OBVIOUS
    <3>2. IsWalk(f, N, h, heap, TRUE)
      BY <2>1, <3>1
    <3>3. g = f
      BY <1>3, <3>2, OneWalk
    <3> QED
      BY <3>1, <3>3
  <2>3. g = [i \in 1..N |-> g[i]]
        /\ \A i \in 1..N : g[i] = IF i <= k THEN Standing(i, M, heap) ELSE Nil
    BY <2>2 DEF FromHead
  <2> HIDE DEF k
  <2>4. UpToNil(g) = [i \in 1..k |-> g[i]]
    <3>1. \A i \in 1..N : g[i] # Nil <=> i <= k
      BY <1>1, <1>2, <2>3
    <3>2. k \in 0..N
      BY <1>1
    <3>3. g = [i \in 1..N |-> g[i]]
      BY <2>3
    <3> QED
      BY <3>1, <3>2, <3>3, CutAtNil, ZenonT(30)
  <2>5. \A i \in 1..k : g[i] = Standing(i, M, heap)
    BY <1>1, <2>3
  <2> QED
    BY <2>4, <2>5 DEF InPlace, k
<1>4. ASSUME NEW g, IsWalk(g, N, t, heap, FALSE) PROVE UpToNil(g) = Backwards(M, heap)
  <2>1. IsWalk(FromTail(N, M, heap), N, t, heap, FALSE)
    BY LevelsAreWalked
  <2>2. g = FromTail(N, M, heap)
    <3>1. PICK f : f = FromTail(N, M, heap)
      OBVIOUS
    <3>2. IsWalk(f, N, t, heap, FALSE)
      BY <2>1, <3>1
    <3>3. g = f
      BY <1>4, <3>2, OneWalk
    <3> QED
      BY <3>1, <3>3
  <2>3. g = [i \in 1..N |-> g[i]]
        /\ \A i \in 1..N : g[i] = IF i <= k THEN Standing(k + 1 - i, M, heap) ELSE Nil
    BY <2>2 DEF FromTail
  <2> HIDE DEF k
  <2>4. \A i \in 1..k : k + 1 - i \in 1..k
    BY <1>1
  <2>5. UpToNil(g) = [i \in 1..k |-> g[i]]
    <3>1. \A i \in 1..N : g[i] # Nil <=> i <= k
      BY <1>1, <1>2, <2>3, <2>4
    <3>2. k \in 0..N
      BY <1>1
    <3>3. g = [i \in 1..N |-> g[i]]
      BY <2>3
    <3> QED
      BY <3>1, <3>2, <3>3, CutAtNil, ZenonT(30)
  <2>6. \A i \in 1..k : g[i] = Standing(k + 1 - i, M, heap)
    BY <1>1, <2>3
  <2> QED
    BY <2>5, <2>6 DEF Backwards, k
<1> QED
  BY <1>3, <1>4

\* Followed from its head, and from its tail, a level gives its orders as they came.
LEMMA LevelsRead ==
  ASSUME BookInv, NEW s \in Sides, NEW p \in Prices
  PROVE  /\ Forward(levels[s][p]) = InPlace(At(byID, node, s, p), node)
         /\ Backward(levels[s][p]) = Backwards(At(byID, node, s, p), node)
<1>1. PICK M, heap, h, t : /\ M = At(byID, node, s, p) /\ heap = node
                           /\ h = levels[s][p].head /\ t = levels[s][p].tail
  OBVIOUS
<1>2. IsFiniteSet(M) /\ Numbered(M, heap) /\ Chain(M, heap, h, t) /\ Cardinality(M) <= MaxOrders
  <2>1. IsFiniteSet(M) /\ M \subseteq byID
    BY <1>1, LevelsAreFinite DEF BookInv
  <2>2. Numbered(M, heap)
    BY <1>1, <2>1 DEF BookInv, RestingOrders, Numbered
  <2>3. Chain(M, heap, h, t)
    BY <1>1 DEF BookInv, EveryLevelLinked, Linked
  <2>4. Cardinality(M) <= MaxOrders
    <3>1. M \in SUBSET (1..MaxOrders)
      BY <2>1 DEF BookInv, TypeOK, OrderId
    <3>2. IsFiniteSet(1..MaxOrders) /\ Cardinality(1..MaxOrders) = MaxOrders
      BY Arithmetic, FS_Interval
    <3> QED
      BY <3>1, <3>2, FS_Subset
  <2> QED
    BY <2>1, <2>2, <2>3, <2>4
<1>3. /\ \A g : IsWalk(g, MaxOrders, h, heap, TRUE) => UpToNil(g) = InPlace(M, heap)
      /\ \A g : IsWalk(g, MaxOrders, t, heap, FALSE) => UpToNil(g) = Backwards(M, heap)
      /\ IsWalk(FromHead(MaxOrders, M, heap), MaxOrders, h, heap, TRUE)
      /\ IsWalk(FromTail(MaxOrders, M, heap), MaxOrders, t, heap, FALSE)
  <2>1. MaxOrders \in Nat
    BY Arithmetic
  <2>2. PICK N : N = MaxOrders
    OBVIOUS
  <2>3. /\ IsFiniteSet(M) /\ Numbered(M, heap) /\ Chain(M, heap, h, t)
        /\ N \in Nat /\ Cardinality(M) <= N
    BY <1>2, <2>1, <2>2
  <2>4. /\ \A g : IsWalk(g, N, h, heap, TRUE) => UpToNil(g) = InPlace(M, heap)
        /\ \A g : IsWalk(g, N, t, heap, FALSE) => UpToNil(g) = Backwards(M, heap)
    BY <2>3, WalksRead
  <2>5. /\ IsWalk(FromHead(N, M, heap), N, h, heap, TRUE)
        /\ IsWalk(FromTail(N, M, heap), N, t, heap, FALSE)
    BY <2>3, LevelsAreWalked
  <2> QED
    BY <2>2, <2>4, <2>5
<1>4. Forward(levels[s][p]) = InPlace(M, heap)
  <2> DEFINE W(g) == g = [i \in 1..MaxOrders |->
                            IF i = 1 THEN levels[s][p].head ELSE NextOf(g[i - 1])]
             at == CHOOSE g : W(g)
  <2>1. \A g : W(g) <=> IsWalk(g, MaxOrders, h, heap, TRUE)
    BY <1>1 DEF IsWalk, Step, NextOf
  <2>2. Forward(levels[s][p]) = UpToNil(at)
    BY DEF Forward
  <2> HIDE DEF W
  <2>3. W(at)
    BY <1>3, <2>1
  <2> QED
    BY <1>3, <2>1, <2>2, <2>3
<1>5. Backward(levels[s][p]) = Backwards(M, heap)
  <2> DEFINE W(g) == g = [i \in 1..MaxOrders |->
                            IF i = 1 THEN levels[s][p].tail ELSE PrevOf(g[i - 1])]
             at == CHOOSE g : W(g)
  <2>1. \A g : W(g) <=> IsWalk(g, MaxOrders, t, heap, FALSE)
    BY <1>1 DEF IsWalk, Step, PrevOf
  <2>2. Backward(levels[s][p]) = UpToNil(at)
    BY DEF Backward
  <2> HIDE DEF W
  <2>3. W(at)
    BY <1>3, <2>1
  <2> QED
    BY <1>3, <2>1, <2>2, <2>3
<1> QED
  BY <1>1, <1>4, <1>5

(* Levels one after another *)

\* u is sorted by Rel.
Ordered(u, Rel) == \A a, b \in 1..Len(u) : a < b => <<u[a], u[b]>> \in Rel

\* One sorted sequence after another.
LEMMA ConcatInOrder ==
  ASSUME NEW T, NEW u \in Seq(T), NEW v \in Seq(T), NEW Rel, Ordered(u, Rel), Ordered(v, Rel),
         \A x \in ToSet(u), y \in ToSet(v) : <<x, y>> \in Rel
  PROVE  u \o v \in Seq(T) /\ ToSet(u \o v) = ToSet(u) \cup ToSet(v) /\ Ordered(u \o v, Rel)
<1>1. PICK w : w = u \o v
  OBVIOUS
<1>2. /\ w \in Seq(T) /\ Len(w) = Len(u) + Len(v)
      /\ \A i \in 1..(Len(u) + Len(v)) : w[i] = IF i <= Len(u) THEN u[i] ELSE v[i - Len(u)]
  BY <1>1, ConcatProperties
<1>3. /\ Len(u) \in Nat /\ Len(v) \in Nat /\ DOMAIN u = 1..Len(u) /\ DOMAIN v = 1..Len(v)
      /\ DOMAIN w = 1..(Len(u) + Len(v))
  BY <1>2
<1>4. /\ \A i \in 1..Len(u) : u[i] \in ToSet(u)
      /\ \A i \in 1..Len(v) : v[i] \in ToSet(v)
  BY <1>3 DEF ToSet
<1>5. ToSet(w) = ToSet(u) \cup ToSet(v)
  <2>1. ASSUME NEW i \in 1..(Len(u) + Len(v)) PROVE w[i] \in ToSet(u) \cup ToSet(v)
    <3>1. CASE i <= Len(u)
      BY <1>2, <1>3, <1>4, <3>1
    <3>2. CASE i > Len(u)
      <4>1. i - Len(u) \in 1..Len(v) /\ w[i] = v[i - Len(u)]
        BY <1>2, <1>3, <3>2
      <4> QED
        BY <1>4, <4>1
    <3> QED
      BY <1>3, <3>1, <3>2
  <2>2. ASSUME NEW i \in 1..Len(u) PROVE u[i] \in ToSet(w)
    <3>1. i \in DOMAIN w /\ w[i] = u[i]
      BY <1>2, <1>3
    <3> QED
      BY <3>1 DEF ToSet
  <2>3. ASSUME NEW i \in 1..Len(v) PROVE v[i] \in ToSet(w)
    <3>1. Len(u) + i \in DOMAIN w /\ w[Len(u) + i] = v[i]
      BY <1>2, <1>3, SMTT(30)
    <3> QED
      BY <3>1 DEF ToSet
  <2> QED
    BY <1>3, <2>1, <2>2, <2>3 DEF ToSet
<1>6. ASSUME NEW a \in 1..Len(w), NEW b \in 1..Len(w), a < b
      PROVE  <<w[a], w[b]>> \in Rel
  <2>1. CASE b <= Len(u)
    <3>1. a \in 1..Len(u) /\ b \in 1..Len(u) /\ w[a] = u[a] /\ w[b] = u[b]
      BY <1>2, <1>3, <1>6, <2>1
    <3> QED
      BY <1>6, <3>1 DEF Ordered
  <2>2. CASE a > Len(u)
    <3>1. /\ a - Len(u) \in 1..Len(v) /\ b - Len(u) \in 1..Len(v) /\ a - Len(u) < b - Len(u)
          /\ w[a] = v[a - Len(u)] /\ w[b] = v[b - Len(u)]
      BY <1>2, <1>3, <1>6, <2>2
    <3> QED
      BY <3>1 DEF Ordered
  <2>3. CASE a <= Len(u) /\ b > Len(u)
    <3>1. a \in 1..Len(u) /\ b - Len(u) \in 1..Len(v) /\ w[a] = u[a] /\ w[b] = v[b - Len(u)]
      BY <1>2, <1>3, <2>3
    <3> QED
      BY <1>4, <3>1
  <2> QED
    BY <1>2, <1>3, <2>1, <2>2, <2>3
<1> QED
  BY <1>1, <1>2, <1>5, <1>6 DEF Ordered

\* The prefixes of q, flattened.
IsFlattening(f, q, k) == f = [i \in 1..k |-> IF i = 1 THEN q[i] ELSE f[i - 1] \o q[i]]

\* The function FlattenSeq is defined with exists.
LEMMA FlatteningExists ==
  ASSUME NEW q, NEW n \in Nat
  PROVE  \A k \in 1..n : \E f : IsFlattening(f, q, k)
<1> DEFINE Bad == {k \in 1..n : ~ \E f : IsFlattening(f, q, k)}
<1>1. SUFFICES ASSUME Bad # {} PROVE FALSE
  OBVIOUS
<1>2. IsFiniteSet(1..n) /\ Bad \in SUBSET (1..n)
  BY Segment
<1>3. IsFiniteSet(Bad) /\ Bad \in SUBSET Nat
  <2> HIDE DEF Bad
  <2>1. IsFiniteSet(Bad)
    BY <1>2, FS_Subset
  <2> QED
    BY <1>2, <2>1
<1>4. PICK k \in Bad : \A j \in Bad : k <= j
  <2> HIDE DEF Bad
  <2> QED
    BY <1>1, <1>3, LeastExists
<1>5. k # 1
  <2>1. IsFlattening([i \in 1..1 |-> q[1]], q, 1)
    BY DEF IsFlattening
  <2> QED
    BY <1>4, <2>1
<1>6. PICK f : IsFlattening(f, q, k - 1)
  <2>1. k - 1 \in 1..n /\ ~ (k <= k - 1)
    BY <1>4, <1>5
  <2> QED
    BY <1>4, <2>1
<1>7. PICK e : e = f[k - 1] \o q[k]
  OBVIOUS
<1> DEFINE g == [i \in 1..k |-> IF i = k THEN e ELSE f[i]]
<1>8. IsFlattening(g, q, k)
  <2>1. k \in 1..n /\ k - 1 \in 1..(k - 1)
    BY <1>4, <1>5
  <2>2. \A i \in 1..(k - 1) : f[i] = IF i = 1 THEN q[i] ELSE f[i - 1] \o q[i]
    BY <1>6 DEF IsFlattening
  <2>3. \A i \in 1..k : g[i] = IF i = 1 THEN q[i] ELSE g[i - 1] \o q[i]
    <3> SUFFICES ASSUME NEW i \in 1..k
                 PROVE  g[i] = IF i = 1 THEN q[i] ELSE g[i - 1] \o q[i]
      OBVIOUS
    <3>1. CASE i = k
      <4>1. g[i] = e /\ g[i - 1] = f[k - 1]
        BY <2>1, <3>1
      <4> HIDE DEF g
      <4> QED
        BY <1>5, <1>7, <3>1, <4>1
    <3>2. CASE i # k
      <4>1. i \in 1..(k - 1) /\ g[i] = f[i] /\ (i # 1 => g[i - 1] = f[i - 1])
        BY <2>1, <3>2
      <4> HIDE DEF g
      <4> QED
        BY <2>2, <4>1
    <3> QED
      BY <3>1, <3>2
  <2>4. g = [i \in 1..k |-> g[i]]
    OBVIOUS
  <2> HIDE DEF g
  <2> QED
    BY <2>3, <2>4 DEF IsFlattening
<1> QED
  BY <1>4, <1>8

\* Sorted sequences, each before the next, flatten to a sorted one of their elements.
LEMMA FlattenedInOrder ==
  ASSUME NEW T, NEW q \in Seq(Seq(T)), NEW Rel,
         \A j \in 1..Len(q) : Ordered(q[j], Rel),
         \A j, k \in 1..Len(q) : j < k =>
           \A x \in ToSet(q[j]), y \in ToSet(q[k]) : <<x, y>> \in Rel
  PROVE  /\ FlattenSeq(q) \in Seq(T)
         /\ ToSet(FlattenSeq(q)) = UNION {ToSet(q[j]) : j \in 1..Len(q)}
         /\ Ordered(FlattenSeq(q), Rel)
<1> DEFINE n == Len(q)
           Upto(i) == UNION {ToSet(q[j]) : j \in 1..i}
<1>1. n \in Nat /\ \A j \in 1..n : q[j] \in Seq(T)
  OBVIOUS
<1>2. CASE n = 0
  <2>1. FlattenSeq(q) = q /\ q = <<>>
    BY <1>2 DEF FlattenSeq
  <2>2. Upto(0) = {} /\ ToSet(<<>>) = {} /\ Ordered(<<>>, Rel)
    BY DEF ToSet, Ordered
  <2> QED
    BY <1>2, <2>1, <2>2
<1>3. CASE n # 0
  <2> DEFINE f == CHOOSE f : IsFlattening(f, q, n)
  <2>1. FlattenSeq(q) = f[n]
    BY <1>3 DEF FlattenSeq, IsFlattening
  <2>2. IsFlattening(f, q, n)
    <3>1. n \in 1..n
      BY <1>1, <1>3
    <3> HIDE DEF n
    <3> QED
      BY <1>1, <3>1, FlatteningExists
  <2>3. \A i \in 1..n : f[i] = IF i = 1 THEN q[i] ELSE f[i - 1] \o q[i]
    <3> HIDE DEF f
    <3> QED
      BY <2>2 DEF IsFlattening
  <2> HIDE DEF f
  <2> DEFINE Good(i) == f[i] \in Seq(T) /\ ToSet(f[i]) = Upto(i) /\ Ordered(f[i], Rel)
             Bad == {i \in 1..n : ~ Good(i)}
  <2>4. Good(n) => /\ FlattenSeq(q) \in Seq(T)
                    /\ ToSet(FlattenSeq(q)) = UNION {ToSet(q[j]) : j \in 1..Len(q)}
                    /\ Ordered(FlattenSeq(q), Rel)
    BY <2>1
  <2>5. SUFFICES ASSUME Bad # {} PROVE FALSE
    <3>1. n \in 1..n
      BY <1>1, <1>3
    <3> QED
      BY <2>4, <3>1
  <2>6. IsFiniteSet(1..n) /\ Bad \in SUBSET (1..n)
    BY <1>1, Segment
  <2>7. IsFiniteSet(Bad) /\ Bad \in SUBSET Nat
    <3> HIDE DEF Bad
    <3>1. IsFiniteSet(Bad)
      BY <2>6, FS_Subset
    <3> QED
      BY <2>6, <3>1
  <2>8. PICK i \in Bad : \A j \in Bad : i <= j
    <3> HIDE DEF Bad
    <3> QED
      BY <2>5, <2>7, LeastExists
  <2>9. i # 1
    <3>1. Upto(1) = ToSet(q[1])
      OBVIOUS
    <3>2. 1 \in 1..n /\ f[1] = q[1]
      BY <1>1, <1>3, <2>3, SMTT(30)
    <3>3. q[1] \in Seq(T) /\ Ordered(q[1], Rel)
      BY <1>1, <3>2
    <3>4. Good(1)
      BY <3>1, <3>2, <3>3
    <3> QED
      BY <2>8, <3>4
  <2>10. i - 1 \in 1..n /\ i \in 1..n /\ Good(i - 1)
    <3>1. i - 1 \in 1..n /\ ~ (i <= i - 1) /\ i \in 1..n
      BY <2>8, <2>9
    <3> QED
      BY <2>8, <3>1
  <2>11. PICK u, v : u = f[i - 1] /\ v = q[i]
    OBVIOUS
  <2>12. f[i] = u \o v /\ u \in Seq(T) /\ v \in Seq(T) /\ Ordered(u, Rel) /\ Ordered(v, Rel)
         /\ ToSet(u) = Upto(i - 1)
    BY <1>1, <2>3, <2>9, <2>10, <2>11
  <2>13. \A x \in ToSet(u), y \in ToSet(v) : <<x, y>> \in Rel
    <3> SUFFICES ASSUME NEW x \in ToSet(u), NEW y \in ToSet(v) PROVE <<x, y>> \in Rel
      OBVIOUS
    <3>1. PICK j \in 1..(i - 1) : x \in ToSet(q[j])
      BY <2>12
    <3>2. j \in 1..n /\ j < i
      BY <2>10, <3>1
    <3> QED
      BY <2>10, <2>11, <3>1, <3>2
  <2>14. u \o v \in Seq(T) /\ ToSet(u \o v) = ToSet(u) \cup ToSet(v) /\ Ordered(u \o v, Rel)
    BY <2>12, <2>13, ConcatInOrder
  <2>15. Upto(i) = Upto(i - 1) \cup ToSet(q[i])
    <3>1. 1..i = (1..(i - 1)) \cup {i}
      BY <2>10
    <3> QED
      BY <3>1
  <2>16. Good(i)
    BY <2>11, <2>12, <2>14, <2>15
  <2> QED
    BY <2>8, <2>16
<1> QED
  BY <1>2, <1>3

\* The orders of a level, first to last.
LEMMA LevelInPlace ==
  ASSUME BookInv, NEW s \in Sides, NEW p \in Prices, NEW M, M = At(byID, node, s, p)
  PROVE  /\ IsFiniteSet(M) /\ M \subseteq byID /\ Cardinality(M) \in Nat
         /\ \A i \in 1..Cardinality(M) : Standing(i, M, node) \in M
         /\ ToSet(InPlace(M, node)) = M
         /\ \A i, j \in 1..Cardinality(M) : i < j =>
              node[Standing(i, M, node)].seq < node[Standing(j, M, node)].seq
<1>1. PICK heap, h, t : heap = node /\ h = levels[s][p].head /\ t = levels[s][p].tail
  OBVIOUS
<1>2. IsFiniteSet(M) /\ M \subseteq byID
  BY LevelsAreFinite DEF BookInv
<1>3. Numbered(M, heap) /\ Chain(M, heap, h, t)
  <2>1. Numbered(M, heap)
    BY <1>1, <1>2 DEF BookInv, RestingOrders, Numbered
  <2>2. Chain(M, heap, h, t)
    BY <1>1 DEF BookInv, EveryLevelLinked, Linked
  <2> QED
    BY <2>1, <2>2
<1>4. /\ \A i \in 1..Cardinality(M) :
           Standing(i, M, heap) \in M /\ Place(Standing(i, M, heap), M, heap) = i
      /\ \A o \in M : Standing(Place(o, M, heap), M, heap) = o
  BY <1>2, <1>3, StandingStands
<1>5. /\ Cardinality(M) \in Nat
      /\ \A o \in M : Place(o, M, heap) \in 1..Cardinality(M)
      /\ \A m, n \in M : Place(m, M, heap) < Place(n, M, heap) => Earlier(heap, m, n)
  BY <1>2, <1>3, PlacesInOrder
<1>6. ToSet(InPlace(M, heap)) = M
  <2>1. /\ DOMAIN InPlace(M, heap) = 1..Cardinality(M)
        /\ \A i \in 1..Cardinality(M) : InPlace(M, heap)[i] = Standing(i, M, heap)
    BY DEF InPlace
  <2>2. ASSUME NEW o \in M
        PROVE  \E i \in 1..Cardinality(M) : InPlace(M, heap)[i] = o
    BY <1>4, <1>5, <2>1
  <2> QED
    BY <1>4, <2>1, <2>2 DEF ToSet
<1>7. ASSUME NEW i \in 1..Cardinality(M), NEW j \in 1..Cardinality(M), i < j
      PROVE  heap[Standing(i, M, heap)].seq < heap[Standing(j, M, heap)].seq
  <2>1. PICK m, n : m = Standing(i, M, heap) /\ n = Standing(j, M, heap)
    OBVIOUS
  <2>2. m \in M /\ n \in M /\ Place(m, M, heap) = i /\ Place(n, M, heap) = j
    BY <1>4, <2>1
  <2>3. Earlier(heap, m, n)
    BY <1>5, <1>7, <2>2
  <2> QED
    BY <2>1, <2>3 DEF Earlier
<1> QED
  BY <1>1, <1>2, <1>4, <1>5, <1>6, <1>7

\* A level reads the same from both ends and is listed once.
LEMMA InvPointersAreSound == BookInv => PointersAreSound
<1> SUFFICES ASSUME BookInv, NEW s \in Sides, NEW p \in Prices
             PROVE  /\ levels[s][p].len = Len(Forward(levels[s][p]))
                    /\ Reverse(Backward(levels[s][p])) = Forward(levels[s][p])
                    /\ Cardinality({i \in DOMAIN prices[s] : prices[s][i] = p}) =
                         IF levels[s][p].len > 0 THEN 1 ELSE 0
  BY DEF PointersAreSound
<1>1. PICK M : M = At(byID, node, s, p)
  OBVIOUS
<1>2. IsFiniteSet(M) /\ Cardinality(M) \in Nat /\ levels[s][p].len = Cardinality(M)
  BY <1>1, LevelInPlace DEF BookInv, EveryLevelLinked, Linked
<1>3. /\ Forward(levels[s][p]) = InPlace(M, node)
      /\ Backward(levels[s][p]) = Backwards(M, node)
  BY <1>1, LevelsRead
<1> DEFINE k == Cardinality(M)
           f == InPlace(M, node)
           b == Backwards(M, node)
<1>4. /\ f = [i \in 1..k |-> Standing(i, M, node)]
      /\ b = [i \in 1..k |-> Standing(k + 1 - i, M, node)]
  BY DEF InPlace, Backwards
<1>5. Len(f) = k /\ Len(b) = k
  <2> HIDE DEF f, b, k
  <2>1. k \in Nat
    BY <1>2 DEF k
  <2> QED
    BY <1>4, <2>1
<1>6. Reverse(b) = f
  <2>1. Reverse(b) = [i \in 1..k |-> b[(k - i) + 1]]
    BY <1>5 DEF Reverse
  <2>2. \A i \in 1..k : (k - i) + 1 \in 1..k /\ k + 1 - ((k - i) + 1) = i
    BY <1>2
  <2> HIDE DEF f, b, k
  <2>3. \A i \in 1..k : b[(k - i) + 1] = Standing(i, M, node)
    BY <1>4, <2>2
  <2> QED
    BY <1>4, <2>1, <2>3
<1>7. Cardinality({i \in DOMAIN prices[s] : prices[s][i] = p}) =
        IF levels[s][p].len > 0 THEN 1 ELSE 0
  <2> DEFINE I == {i \in DOMAIN prices[s] : prices[s][i] = p}
  <2>1. /\ BestFirst(s, prices[s]) /\ ToSet(prices[s]) = Occupied(s)
        /\ prices[s] \in Seq(Prices)
    BY DEF BookInv, TypeOK, PricesListed
  <2>2. M = {} <=> k = 0
    BY <1>2, Sizes
  <2>3. p \in ToSet(prices[s]) <=> M # {}
    BY <1>1, <2>1 DEF Occupied
  <2>4. CASE M = {}
    <3>1. I = {}
      BY <2>3, <2>4 DEF ToSet
    <3> QED
      BY <1>2, <2>2, <2>4, <3>1, FS_EmptySet
  <2>5. CASE M # {}
    <3>1. PICK i \in DOMAIN prices[s] : prices[s][i] = p
      BY <2>3, <2>5 DEF ToSet
    <3>2. DOMAIN prices[s] = 1..Len(prices[s]) /\ Len(prices[s]) \in Nat
      BY <2>1
    <3>3. ASSUME NEW j \in DOMAIN prices[s], prices[s][j] = p, j # i PROVE FALSE
      <4>1. Better(s, p, p)
        <5>1. i < j \/ j < i
          BY <3>2, <3>3
        <5> QED
          BY <2>1, <3>1, <3>2, <3>3, <5>1 DEF BestFirst
      <4> QED
        BY <4>1, BetterOrders, Arithmetic
    <3>4. I = {i}
      BY <3>1, <3>3
    <3>5. Cardinality(I) = 1
      BY <3>4, FS_Singleton
    <3>6. levels[s][p].len > 0
      BY <1>2, <2>2, <2>5
    <3> QED
      BY <3>5, <3>6
  <2> QED
    BY <2>4, <2>5
<1> QED
  BY <1>2, <1>3, <1>5, <1>6, <1>7

\* SideSnapshot gives the resting orders of a side in matching order.
LEMMA InvSnapshotInPriorityOrder == BookInv => SnapshotInPriorityOrder
<1> SUFFICES ASSUME BookInv, NEW s \in Sides
             PROVE  /\ ToSet(SideSnapshot(s)) = {o \in byID : node[o].side = s}
                    /\ \A i, j \in DOMAIN SideSnapshot(s) : i < j =>
                         Due(s, SideSnapshot(s)[i], SideSnapshot(s)[j])
  BY DEF SnapshotInPriorityOrder, Due
<1>1. PICK w, heap : w = prices[s] /\ heap = node
  OBVIOUS
<1> DEFINE L(j) == At(byID, node, s, w[j])
           Row(j) == InPlace(L(j), node)
           q0 == [j \in DOMAIN w |-> Forward(levels[s][w[j]])]
<1>2. /\ BestFirst(s, w) /\ ToSet(w) = Occupied(s) /\ w \in Seq(Prices)
      /\ DOMAIN w = 1..Len(w) /\ Len(w) \in Nat /\ \A j \in 1..Len(w) : w[j] \in Prices
  <2>1. BestFirst(s, w) /\ ToSet(w) = Occupied(s) /\ w \in Seq(Prices)
    BY <1>1 DEF BookInv, TypeOK, PricesListed
  <2> QED
    BY <2>1
<1>3. SideSnapshot(s) = FlattenSeq(q0)
  BY <1>1 DEF SideSnapshot
<1>4. PICK q : q = [j \in 1..Len(w) |-> Row(j)]
  OBVIOUS
<1>5. SideSnapshot(s) = FlattenSeq(q)
  <2>1. \A j \in 1..Len(w) : Forward(levels[s][w[j]]) = Row(j)
    BY <1>2, LevelsRead
  <2>2. q0 = q
    BY <1>2, <1>4, <2>1
  <2> QED
    BY <1>3, <2>2
<1>6. ASSUME NEW j \in 1..Len(w)
      PROVE  /\ Row(j) \in Seq(OrderId)
             /\ ToSet(Row(j)) = L(j)
             /\ \A a, b \in 1..Len(Row(j)) : a < b => Due(s, Row(j)[a], Row(j)[b])
  <2>1. PICK M, p : M = L(j) /\ p = w[j]
    OBVIOUS
  <2>2. p \in Prices /\ M = At(byID, node, s, p)
    BY <1>2, <2>1
  <2>3. /\ M \subseteq byID /\ Cardinality(M) \in Nat
        /\ \A i \in 1..Cardinality(M) : Standing(i, M, node) \in M
        /\ ToSet(InPlace(M, node)) = M
        /\ \A a, b \in 1..Cardinality(M) : a < b =>
             node[Standing(a, M, node)].seq < node[Standing(b, M, node)].seq
    BY <2>2, LevelInPlace
  <2>4. Row(j) = InPlace(M, node)
    BY <2>1
  <2> HIDE DEF Row
  <2>5. PICK k : k = Cardinality(M)
    OBVIOUS
  <2>6. k \in Nat /\ Row(j) = [i \in 1..k |-> Standing(i, M, node)]
    BY <2>3, <2>4, <2>5 DEF InPlace
  <2>7. Row(j) \in Seq(M) /\ Len(Row(j)) = k
    <3>1. \A i \in 1..k : Standing(i, M, node) \in M
      BY <2>3, <2>5
    <3> QED
      BY <2>6, <3>1
  <2>8. \A a \in 1..k : Row(j)[a] \in M /\ Row(j)[a] = Standing(a, M, node)
    BY <2>3, <2>5, <2>6
  <2>9. \A m, n \in M : node[m].price = node[n].price
    BY <2>2 DEF At
  <2>10. \A a, b \in 1..k : a < b => Due(s, Row(j)[a], Row(j)[b])
    BY <2>3, <2>5, <2>8, <2>9 DEF Due
  <2>11. Row(j) \in Seq(OrderId)
    <3>1. \A i \in 1..k : Row(j)[i] \in OrderId
      BY <2>3, <2>8 DEF BookInv, TypeOK
    <3>2. Row(j) = [i \in 1..k |-> Row(j)[i]]
      BY <2>6
    <3> QED
      BY <2>6, <3>1, <3>2
  <2> QED
    BY <2>1, <2>3, <2>4, <2>7, <2>10, <2>11
<1>7. PICK Rel : Rel = {r \in OrderId \X OrderId : Due(s, r[1], r[2])}
  OBVIOUS
<1>8. \A j \in 1..Len(w) : L(j) \subseteq OrderId
  BY DEF At, BookInv, TypeOK
<1> HIDE DEF Row
<1>9. /\ q \in Seq(Seq(OrderId)) /\ Len(q) = Len(w)
      /\ \A j \in 1..Len(w) : q[j] = Row(j)
  BY <1>2, <1>4, <1>6
<1>10. \A m, n \in OrderId : <<m, n>> \in Rel <=> Due(s, m, n)
  BY <1>7
<1>11. ASSUME NEW j \in 1..Len(q) PROVE Ordered(q[j], Rel)
  <2>1. j \in 1..Len(w) /\ q[j] = Row(j) /\ Row(j) \in Seq(OrderId)
    BY <1>6, <1>9
  <2>2. \A a \in 1..Len(Row(j)) : Row(j)[a] \in OrderId
    BY <2>1
  <2> QED
    BY <1>6, <1>10, <2>1, <2>2 DEF Ordered
<1>12. ASSUME NEW j \in 1..Len(q), NEW k \in 1..Len(q), j < k,
              NEW x \in ToSet(q[j]), NEW y \in ToSet(q[k])
       PROVE  <<x, y>> \in Rel
  <2>1. x \in L(j) /\ y \in L(k) /\ j \in 1..Len(w) /\ k \in 1..Len(w)
    BY <1>6, <1>9
  <2>2. node[x].price = w[j] /\ node[y].price = w[k]
    BY <2>1 DEF At
  <2>3. Better(s, w[j], w[k])
    BY <1>2, <1>12, <2>1 DEF BestFirst
  <2>4. x \in OrderId /\ y \in OrderId
    BY <1>8, <2>1
  <2> QED
    BY <1>10, <2>2, <2>3, <2>4 DEF Due
<1>13. PICK snap : snap = FlattenSeq(q)
  OBVIOUS
<1>14. /\ snap \in Seq(OrderId)
       /\ ToSet(snap) = UNION {ToSet(q[j]) : j \in 1..Len(q)}
       /\ Ordered(snap, Rel)
  <2>1. \A j, k \in 1..Len(q) : j < k =>
          \A x \in ToSet(q[j]), y \in ToSet(q[k]) : <<x, y>> \in Rel
    BY <1>12
  <2>2. \A j \in 1..Len(q) : Ordered(q[j], Rel)
    BY <1>11
  <2>3. PICK T : T = OrderId
    OBVIOUS
  <2>4. q \in Seq(Seq(T))
    BY <1>9, <2>3
  <2>5. /\ FlattenSeq(q) \in Seq(T)
        /\ ToSet(FlattenSeq(q)) = UNION {ToSet(q[j]) : j \in 1..Len(q)}
        /\ Ordered(FlattenSeq(q), Rel)
    BY <2>1, <2>2, <2>4, FlattenedInOrder
  <2> QED
    BY <1>13, <2>3, <2>5
<1>15. ToSet(snap) = {o \in byID : node[o].side = s}
  <2>1. ToSet(snap) = UNION {L(j) : j \in 1..Len(w)}
    BY <1>6, <1>9, <1>14
  <2>2. ASSUME NEW o \in byID, node[o].side = s PROVE \E j \in 1..Len(w) : o \in L(j)
    <3>1. node[o].price \in ToSet(w)
      BY <1>2, <2>2 DEF Occupied, At, BookInv, RestingOrders
    <3>2. PICK j \in 1..Len(w) : w[j] = node[o].price
      BY <1>2, <3>1 DEF ToSet
    <3> QED
      BY <2>2, <3>2 DEF At
  <2>3. \A j \in 1..Len(w) : \A o \in L(j) : o \in byID /\ node[o].side = s
    BY DEF At
  <2> HIDE DEF L
  <2> QED
    BY <2>1, <2>2, <2>3
<1>16. \A i, j \in DOMAIN snap : i < j => Due(s, snap[i], snap[j])
  <2>1. DOMAIN snap = 1..Len(snap) /\ \A i \in 1..Len(snap) : snap[i] \in OrderId
    BY <1>14
  <2> QED
    BY <1>10, <1>14, <2>1 DEF Ordered
<1> QED
  BY <1>5, <1>13, <1>15, <1>16

\* The pointers, lengths and prices of the book are sound in every state, and a snapshot
\* is exactly the resting orders in matching order (order_book.go:43, 57, 94, 105, 207).
THEOREM BookIsWellLinked == Spec => []WellLinked
<1>1. BookInv => WellLinked
  BY InvPointersAreSound, InvSnapshotInPriorityOrder DEF WellLinked, BookInv
<1> QED
  BY <1>1, BookInvariant, PTL

=============================================================================
