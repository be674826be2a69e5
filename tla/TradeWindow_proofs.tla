------------------------- MODULE TradeWindow_proofs -------------------------
(***************************************************************************)
(* For any prices, quantities, limits and lengths of a day and an interval,*)
(* and any number of trades that come again: what the window, the summary  *)
(* and the candles are of the trades that arrived.                         *)
(*                                                                         *)
(*   CandleInv   the starts are the newest of all that were seen, in order,*)
(*               and each bucket is the total of all trades of its interval*)
(*   WindowInv   the window is what arrived without a front, the front is  *)
(*               older than a day, recent is the last that arrived, and as *)
(*               long as no ack was lost what arrived is the stream        *)
(*                                                                         *)
(* A deleted candle never comes back: an interval that is not among the    *)
(* newest of those seen is not among the newest when it is seen again      *)
(* (TopOfMore).  So a bucket can stand for all trades of its interval      *)
(* though trades of older intervals are forgotten.                         *)
(***************************************************************************)
EXTENDS TradeWindow, DataLemmas

----------------------------------------------------------------------------
(* The front and the end of a list *)

\* What is left of s without its first k.
LEMMA WithoutFirst ==
  ASSUME NEW S, NEW s \in Seq(S), NEW k \in 0..Len(s)
  PROVE  /\ SubSeq(s, k + 1, Len(s)) \in Seq(S)
         /\ Len(SubSeq(s, k + 1, Len(s))) = Len(s) - k
         /\ DOMAIN SubSeq(s, k + 1, Len(s)) = 1..(Len(s) - k)
         /\ \A i \in 1..(Len(s) - k) :
              k + i \in 1..Len(s) /\ SubSeq(s, k + 1, Len(s))[i] = s[k + i]
<1>0. PICK w : w = SubSeq(s, k + 1, Len(s))
  OBVIOUS
<1> PICK m, n : m = k + 1 /\ n = Len(s)
  OBVIOUS
<1>1. m \in Int /\ n \in Nat /\ k \in Nat /\ k <= n /\ m = k + 1 /\ DOMAIN s = 1..n
  OBVIOUS
<1>2. \A i \in m..n : s[i] \in S
  BY <1>1
<1>3. /\ w \in Seq(S) /\ Len(w) = IF m <= n THEN n - m + 1 ELSE 0
      /\ \A i \in 1..(n - m + 1) : w[i] = s[m + i - 1]
  <2>1. /\ SubSeq(s, m, n) \in Seq(S)
        /\ Len(SubSeq(s, m, n)) = IF m <= n THEN n - m + 1 ELSE 0
        /\ \A i \in 1..(n - m + 1) : SubSeq(s, m, n)[i] = s[m + i - 1]
    <3>1. m \in Int /\ n \in Int
      BY <1>1
    <3> QED
      BY <1>2, <3>1, SubSeqProperties
  <2>2. w = SubSeq(s, m, n)
    BY <1>0, <1>1
  <2> QED
    BY <2>1, <2>2
<1>4. Len(w) = n - k /\ n - m + 1 = n - k
  BY <1>1, <1>3
<1>5. DOMAIN w = 1..(n - k)
  BY <1>3, <1>4
<1>6. \A i \in 1..(n - k) : k + i \in 1..n /\ m + i - 1 = k + i
  BY <1>1
<1> QED
  BY <1>0, <1>3, <1>4, <1>5, <1>6

\* Pruning drops a front of the list that is expired, up to the first that is not.
LEMMA PrunedIs ==
  ASSUME NEW w \in Seq(Trade), NEW ref \in Nat
  PROVE  \E k \in 0..Len(w) :
           /\ Pruned(w, ref) = SubSeq(w, k + 1, Len(w))
           /\ \A i \in 1..k : Expired(w[i], ref)
           /\ k < Len(w) => ~ Expired(w[k + 1], ref)
<1> DEFINE n    == Len(w)
           Live == {j \in 1..n : ~ Expired(w[j], ref)}
           kept == {i \in DOMAIN w : \E j \in 1..i : ~ Expired(w[j], ref)}
<1>1. n \in Nat /\ DOMAIN w = 1..n
  OBVIOUS
<1>2. Pruned(w, ref) = SubSeq(w, n - Cardinality(kept) + 1, n)
  BY DEF Pruned
<1> HIDE DEF n
<1>3. SUFFICES \E k \in 0..n : /\ kept = (k + 1)..n
                               /\ \A i \in 1..k : Expired(w[i], ref)
                               /\ k < n => ~ Expired(w[k + 1], ref)
  <2> PICK k \in 0..n : /\ kept = (k + 1)..n
                        /\ \A i \in 1..k : Expired(w[i], ref)
                        /\ k < n => ~ Expired(w[k + 1], ref)
    BY <1>3
  <2> HIDE DEF kept
  <2>1. Cardinality(kept) = n - k
    <3>1. k + 1 \in Int /\ n \in Int /\ (k + 1 > n => k = n) /\ n - (k + 1) + 1 = n - k
      BY <1>1
    <3>2. Cardinality((k + 1)..n) = IF k + 1 > n THEN 0 ELSE n - (k + 1) + 1
      BY <3>1, FS_Interval
    <3> QED
      BY <1>1, <3>1, <3>2
  <2>2. n - Cardinality(kept) = k
    BY <1>1, <2>1
  <2> QED
    BY <1>2, <2>2 DEF n
<1>4. CASE Live = {}
  <2>1. \A i \in 1..n : Expired(w[i], ref)
    BY <1>4
  <2>2. kept = (n + 1)..n
    <3>1. \A i \in DOMAIN w : \A j \in 1..i : j \in 1..n
      BY <1>1
    <3>2. kept = {}
      BY <1>4, <3>1
    <3>3. (n + 1)..n = {}
      BY <1>1
    <3> QED
      BY <3>2, <3>3
  <2> QED
    BY <1>1, <2>1, <2>2
<1>5. CASE Live # {}
  <2>1. Live \in SUBSET Nat /\ Live \subseteq 1..n
    BY <1>1
  <2>2. IsFiniteSet(Live)
    BY <1>1, <2>1, FS_Interval, FS_Subset
  <2> HIDE DEF Live
  <2>3. Min(Live) \in Live /\ \A i \in Live : Min(Live) <= i
    BY <1>5, <2>1, <2>2, LeastExists
  <2> PICK m \in Live : \A i \in Live : m <= i
    BY <2>3
  <2>4. m \in 1..n /\ m \in Nat /\ ~ Expired(w[m], ref)
    BY <2>1 DEF Live
  <2>5. ASSUME NEW i \in 1..(m - 1) PROVE Expired(w[i], ref)
    <3>1. i \in 1..n /\ ~ (m <= i)
      BY <1>1, <2>4
    <3> QED
      BY <3>1 DEF Live
  <2>6. \A i : i \in kept <=> i \in m..n
    <3> SUFFICES ASSUME NEW i \in 1..n PROVE (\E j \in 1..i : ~ Expired(w[j], ref)) <=> m <= i
      BY <1>1, <2>4
    <3>1. ASSUME m <= i PROVE m \in 1..i
      BY <2>4, <3>1
    <3>2. ASSUME ~ (m <= i), NEW j \in 1..i PROVE Expired(w[j], ref)
      <4>1. j \in 1..(m - 1)
        BY <2>4, <3>2
      <4> QED
        BY <2>5, <4>1
    <3> QED
      BY <2>4, <3>1, <3>2
  <2>7. m - 1 \in 0..n /\ m - 1 + 1 = m
    BY <1>1, <2>4
  <2>8. kept = (m - 1 + 1)..n
    BY <2>6, <2>7
  <2> HIDE DEF kept
  <2> QED
    BY <2>4, <2>5, <2>7, <2>8
<1> QED
  BY <1>4, <1>5

\* The newest are the end of the list.
LEMMA NewestAre ==
  ASSUME NEW S, NEW s \in Seq(S), NEW n \in Nat
  PROVE  \E k \in 0..Len(s) : /\ Newest(s, n) = SubSeq(s, k + 1, Len(s))
                              /\ k = IF Len(s) > n THEN Len(s) - n ELSE 0
<1> PICK l, k : l = Len(s) /\ k = IF l > n THEN l - n ELSE 0
  OBVIOUS
<1>1. l \in Nat /\ k \in 0..l
  OBVIOUS
<1>2. Newest(s, n) = SubSeq(s, IF l > n THEN l - n + 1 ELSE 1, l)
  BY DEF Newest
<1>3. (IF l > n THEN l - n + 1 ELSE 1) = k + 1
  BY <1>1
<1> QED
  BY <1>1, <1>2, <1>3

----------------------------------------------------------------------------
(* Ascending lists, and the greatest of a set *)

Ascending(s) == \A i, j \in DOMAIN s : i < j => s[i] < s[j]

\* T are the n greatest of S.
IsTop(T, S, n) ==
  /\ T \subseteq S
  /\ Cardinality(T) <= n
  /\ S \ T # {} => Cardinality(T) = n
  /\ \A x \in T, y \in S \ T : y < x

\* An ascending list is as long as the set of what it lists.
LEMMA AscendingSize ==
  ASSUME NEW s \in Seq(Nat), Ascending(s)
  PROVE  /\ IsFiniteSet(ToSet(s)) /\ Cardinality(ToSet(s)) = Len(s)
         /\ ToSet(s) \in SUBSET Nat /\ Len(s) \in Nat /\ DOMAIN s = 1..Len(s)
<1>0. PICK n : n = Len(s)
  OBVIOUS
<1>1. n \in Nat /\ DOMAIN s = 1..n /\ s \in [1..n -> Nat]
  BY <1>0
<1>2. \A i, j \in 1..n : s[i] = s[j] => i = j
  <2> SUFFICES ASSUME NEW i \in 1..n, NEW j \in 1..n, s[i] = s[j], i # j PROVE FALSE
    OBVIOUS
  <2>1. s[i] < s[j] \/ s[j] < s[i]
    BY <1>1 DEF Ascending
  <2> QED
    BY <1>1, <2>1
<1>3. ToSet(s) = {s[i] : i \in 1..n} /\ ToSet(s) \in SUBSET Nat
  BY <1>1 DEF ToSet
<1>4. s \in Bijection(1..n, ToSet(s))
  <2>1. s \in [1..n -> ToSet(s)]
    BY <1>1, <1>3
  <2>2. \A x \in ToSet(s) : \E i \in 1..n : s[i] = x
    BY <1>3
  <2> QED
    BY <1>2, <2>1, <2>2 DEF Bijection, Injection, Surjection, IsInjective
<1>5. ExistsBijection(1..n, ToSet(s))
  BY <1>4 DEF ExistsBijection
<1>6. IsFiniteSet(1..n) /\ Cardinality(1..n) = n
  <2>1. 1 \in Int /\ n \in Int
    BY <1>1
  <2>2. IsFiniteSet(1..n) /\ Cardinality(1..n) = IF 1 > n THEN 0 ELSE n - 1 + 1
    BY <2>1, FS_Interval
  <2> QED
    BY <1>1, <2>2
<1>7. IsFiniteSet(ToSet(s)) /\ Cardinality(ToSet(s)) = Cardinality(1..n)
  BY <1>5, <1>6, FS_Bijection
<1> QED
  BY <1>0, <1>1, <1>3, <1>6, <1>7

\* There is one ascending list of a set.
LEMMA AscendingIsOne ==
  ASSUME NEW s \in Seq(Nat), NEW t \in Seq(Nat), Ascending(s), Ascending(t),
         ToSet(s) = ToSet(t)
  PROVE  s = t
<1>1. Len(s) = Len(t)
  BY AscendingSize
<1> PICK n : n = Len(s)
  OBVIOUS
<1>2. /\ n \in Nat /\ DOMAIN s = 1..n /\ DOMAIN t = 1..n
      /\ \A i \in 1..n : s[i] \in Nat /\ t[i] \in Nat
  BY <1>1
<1>3. \A i \in 1..n : (\E j \in 1..n : s[i] = t[j]) /\ (\E j \in 1..n : t[i] = s[j])
  <2>1. ToSet(s) = {s[i] : i \in 1..n} /\ ToSet(t) = {t[i] : i \in 1..n}
    BY <1>2 DEF ToSet
  <2>2. \A i \in 1..n : s[i] \in ToSet(t) /\ t[i] \in ToSet(s)
    BY <2>1
  <2> QED
    BY <2>1, <2>2
<1>4. \A i, j \in 1..n : i < j => s[i] < s[j] /\ t[i] < t[j]
  BY <1>2 DEF Ascending
<1> DEFINE D == {i \in 1..n : s[i] # t[i]}
<1>5. CASE D # {}
  <2>1. D \in SUBSET Nat /\ IsFiniteSet(D)
    <3>1. IsFiniteSet(1..n)
      BY <1>2, FS_Interval
    <3>2. D \in SUBSET (1..n)
      OBVIOUS
    <3> QED
      BY <1>2, <3>1, <3>2, FS_Subset
  <2> PICK i \in D : \A j \in D : i <= j
    BY <1>5, <2>1, LeastExists
  <2>2. i \in 1..n /\ s[i] # t[i] /\ \A j \in 1..n : j < i => s[j] = t[j]
    BY <1>2
  <2>3. PICK j \in 1..n : s[i] = t[j]
    BY <1>3, <2>2
  <2>4. PICK k \in 1..n : t[i] = s[k]
    BY <1>3, <2>2
  <2> HIDE DEF D
  <2>5. i < j
    <3>1. CASE j < i
      BY <1>2, <1>4, <2>2, <2>3, <3>1
    <3> QED
      BY <1>2, <2>2, <2>3, <3>1
  <2>6. i < k
    <3>1. CASE k < i
      BY <1>2, <1>4, <2>2, <2>4, <3>1
    <3> QED
      BY <1>2, <2>2, <2>4, <3>1
  <2>7. t[i] < t[j] /\ s[i] < s[k]
    BY <1>4, <2>2, <2>5, <2>6
  <2> QED
    BY <1>2, <2>2, <2>3, <2>4, <2>7
<1>6. CASE D = {}
  <2>1. \A i \in 1..Len(s) : s[i] = t[i]
    BY <1>6
  <2> QED
    BY <1>1, <2>1, SeqEqual
<1> QED
  BY <1>5, <1>6

\* There is one set of the greatest.
LEMMA TopIsOne ==
  ASSUME NEW S \in SUBSET Nat, IsFiniteSet(S), NEW n \in Nat, NEW T, NEW U,
         IsTop(T, S, n), IsTop(U, S, n)
  PROVE  T = U
<1>1. ASSUME NEW A, NEW B, IsTop(A, S, n), IsTop(B, S, n) PROVE A \subseteq B
  <2> SUFFICES ASSUME NEW x \in A, x \notin B PROVE FALSE
    OBVIOUS
  <2>1. A \subseteq S /\ B \subseteq S /\ x \in S \ B
    BY <1>1 DEF IsTop
  <2>2. Cardinality(B) = n /\ Cardinality(A) <= n /\ IsFiniteSet(A) /\ IsFiniteSet(B)
    BY <1>1, <2>1, FS_Subset DEF IsTop
  <2>3. CASE B \subseteq A
    <3>1. Cardinality(B) <= Cardinality(A) /\ Cardinality(A) # Cardinality(B)
      BY <2>2, <2>3, FS_Subset
    <3>2. Cardinality(A) \in Nat
      BY <2>2, FS_CardinalityType
    <3> QED
      BY <2>2, <3>1, <3>2
  <2>4. ASSUME NEW y \in B, y \notin A PROVE FALSE
    <3>1. y < x /\ x < y
      BY <1>1, <2>1, <2>4 DEF IsTop
    <3>2. x \in Nat /\ y \in Nat
      BY <2>1, <2>4
    <3> QED
      BY <3>1, <3>2
  <2> QED
    BY <2>3, <2>4
<1> QED
  BY <1>1

\* What is added to a set whose greatest are known: of the rest nothing can come back.
LEMMA TopOfMore ==
  ASSUME NEW S \in SUBSET Nat, IsFiniteSet(S), NEW n \in Nat, NEW T, IsTop(T, S, n),
         NEW x \in Nat, x \notin T, NEW U, IsTop(U, T \cup {x}, n)
  PROVE  /\ IsTop(U, S \cup {x}, n)
         /\ x \in S => x \notin U
<1>1. /\ T \subseteq S /\ U \subseteq T \cup {x} /\ IsFiniteSet(T) /\ IsFiniteSet(U)
      /\ IsFiniteSet(T \cup {x}) /\ Cardinality(T \cup {x}) = Cardinality(T) + 1
      /\ Cardinality(T) \in Nat /\ Cardinality(T) <= n /\ Cardinality(U) <= n
  <2>1. T \subseteq S /\ U \subseteq T \cup {x} /\ Cardinality(T) <= n /\ Cardinality(U) <= n
    BY DEF IsTop
  <2>2. IsFiniteSet(T)
    BY <2>1, FS_Subset
  <2>3. IsFiniteSet(T \cup {x}) /\ Cardinality(T \cup {x}) = Cardinality(T) + 1
    BY <2>2, FS_AddElement
  <2>4. IsFiniteSet(U)
    BY <2>1, <2>3, FS_Subset
  <2> QED
    BY <2>1, <2>2, <2>3, <2>4, FS_CardinalityType
<1>2. ASSUME S \ T # {} PROVE Cardinality(T) = n /\ U # T \cup {x}
  <2>1. Cardinality(T) = n
    BY <1>2 DEF IsTop
  <2>2. Cardinality(U) # Cardinality(T \cup {x})
    BY <1>1, <2>1
  <2> QED
    BY <2>1, <2>2
<1>3. ASSUME NEW y \in S \ T, x \in U PROVE y < x
  <2>1. PICK z \in T \cup {x} : z \notin U
    BY <1>1, <1>2, <1>3
  <2>2. z \in T /\ z < x
    BY <1>3, <2>1 DEF IsTop
  <2>3. y < z
    BY <1>3, <2>2 DEF IsTop
  <2>4. y \in Nat /\ z \in Nat
    BY <1>1, <1>3, <2>2
  <2> QED
    BY <2>2, <2>3, <2>4
<1>4. x \in S => x \notin U
  <2> SUFFICES ASSUME x \in S, x \in U PROVE FALSE
    OBVIOUS
  <2>1. x < x
    BY <1>3
  <2> QED
    BY <2>1
<1>5. ASSUME NEW a \in U, NEW y \in (S \cup {x}) \ U PROVE y < a
  <2>1. CASE y \in T \cup {x}
    BY <1>5, <2>1 DEF IsTop
  <2>2. CASE y \in S \ T /\ a = x
    BY <1>3, <1>5, <2>2
  <2>3. CASE y \in S \ T /\ a \in T
    BY <1>5, <2>3 DEF IsTop
  <2> QED
    BY <1>1, <1>5, <2>1, <2>2, <2>3
<1>6. ASSUME (S \cup {x}) \ U # {} PROVE Cardinality(U) = n
  <2>1. CASE (T \cup {x}) \ U # {}
    BY <2>1 DEF IsTop
  <2>2. CASE U = T \cup {x}
    <3>1. S \ T # {}
      BY <1>6, <2>2
    <3> QED
      BY <1>2, <2>2, <3>1
  <2> QED
    BY <1>1, <2>1, <2>2
<1>7. U \subseteq S \cup {x}
  BY <1>1
<1> QED
  BY <1>1, <1>4, <1>5, <1>6, <1>7 DEF IsTop

\* The newest of an ascending list are the greatest.
LEMMA NewestAreTop ==
  ASSUME NEW s \in Seq(Nat), Ascending(s), NEW n \in Nat
  PROVE  /\ Newest(s, n) \in Seq(Nat) /\ Ascending(Newest(s, n))
         /\ IsTop(ToSet(Newest(s, n)), ToSet(s), n)
<1>0. PICK l, w : l = Len(s) /\ w = Newest(s, n)
  OBVIOUS
<1>1. l \in Nat /\ DOMAIN s = 1..l /\ \A i \in 1..l : s[i] \in Nat
  BY <1>0
<1>2. PICK k \in 0..Len(s) : /\ w = SubSeq(s, k + 1, Len(s))
                             /\ k = IF Len(s) > n THEN Len(s) - n ELSE 0
  BY <1>0, NewestAre
<1>3. /\ w \in Seq(Nat) /\ Len(w) = l - k /\ DOMAIN w = 1..(l - k)
      /\ \A i \in 1..(l - k) : k + i \in 1..l /\ w[i] = s[k + i]
  <2>1. k \in 0..Len(s) /\ w = SubSeq(s, k + 1, Len(s))
    BY <1>2
  <2>2. w \in Seq(Nat) /\ Len(w) = Len(s) - k /\ DOMAIN w = 1..(Len(s) - k)
    BY <2>1, WithoutFirst
  <2>3. \A i \in 1..(Len(s) - k) : k + i \in 1..Len(s) /\ w[i] = s[k + i]
    BY <2>1, WithoutFirst
  <2> QED
    BY <1>0, <2>2, <2>3
<1>4. \A i, j \in 1..l : i < j => s[i] < s[j]
  BY <1>1 DEF Ascending
<1>5. Ascending(w)
  <2> SUFFICES ASSUME NEW i \in 1..(l - k), NEW j \in 1..(l - k), i < j PROVE w[i] < w[j]
    BY <1>3 DEF Ascending
  <2>1. k + i \in 1..l /\ k + j \in 1..l /\ k + i < k + j
    BY <1>1, <1>3
  <2> QED
    BY <1>3, <1>4, <2>1
<1>6. Cardinality(ToSet(w)) = l - k
  BY <1>3, <1>5, AscendingSize
<1>7. ToSet(w) = {s[i] : i \in (k + 1)..l}
  <2>1. ToSet(w) = {s[k + i] : i \in 1..(l - k)}
    BY <1>3 DEF ToSet
  <2>2. \A i \in (k + 1)..l : i - k \in 1..(l - k) /\ k + (i - k) = i
    BY <1>1
  <2>3. \A i \in 1..(l - k) : k + i \in (k + 1)..l
    BY <1>1
  <2> QED
    BY <2>1, <2>2, <2>3
<1>8. ToSet(s) = {s[i] : i \in 1..l}
  BY <1>1 DEF ToSet
<1>9. ToSet(w) \subseteq ToSet(s)
  BY <1>1, <1>7, <1>8
<1>10. \A y \in ToSet(s) \ ToSet(w) : \E i \in 1..k : y = s[i]
  BY <1>1, <1>7, <1>8
<1>11. l - k <= n /\ (k > 0 => l - k = n)
  BY <1>0, <1>1, <1>2
<1>12. ASSUME NEW x \in ToSet(w), NEW y \in ToSet(s) \ ToSet(w) PROVE y < x
  <2>1. PICK i \in 1..k : y = s[i]
    BY <1>10
  <2>2. PICK j \in (k + 1)..l : x = s[j]
    BY <1>7
  <2>3. i \in 1..l /\ j \in 1..l /\ i < j
    BY <1>1
  <2> QED
    BY <1>4, <2>1, <2>2, <2>3
<1>13. ASSUME ToSet(s) \ ToSet(w) # {} PROVE Cardinality(ToSet(w)) = n
  <2>1. PICK i \in 1..k : TRUE
    BY <1>10, <1>13
  <2> QED
    BY <1>6, <1>11, <2>1
<1> QED
  BY <1>0, <1>3, <1>5, <1>6, <1>9, <1>11, <1>12, <1>13 DEF IsTop

\* The sort of starts is an ascending list of them.
LEMMA SortIsAscending ==
  ASSUME NEW S \in SUBSET Nat, IsFiniteSet(S)
  PROVE  /\ InOrderOf(S, <) \in Seq(S) /\ InOrderOf(S, <) \in Seq(Nat)
         /\ Ascending(InOrderOf(S, <)) /\ ToSet(InOrderOf(S, <)) = S
<1>0. PICK s, n : s = InOrderOf(S, <) /\ n = Cardinality(S)
  OBVIOUS
<1>1. Lists(s, S, Below)
  BY <1>0, SortedUp
<1>2. n \in Nat
  BY <1>0, FS_CardinalityType
<1>3. s \in [1..n -> S] /\ \A i, j \in 1..n : i < j => <<s[i], s[j]>> \in Below
  BY <1>0, <1>1 DEF Lists
<1>4. s \in Seq(S) /\ DOMAIN s = 1..n
  BY <1>2, <1>3
<1>5. s \in Seq(Nat)
  <2>1. s \in [1..n -> Nat]
    BY <1>3
  <2> QED
    BY <1>2, <2>1
<1>6. \A i, j \in 1..n : i < j => s[i] < s[j]
  BY <1>3, NumbersAreOrdered
<1>7. \A x \in S : \E i \in DOMAIN s : s[i] = x
  <2>1. TotalOrder(Below, S)
    BY NumbersAreOrdered
  <2> QED
    BY <1>1, <2>1, ListsAll
<1>8. ToSet(s) = S
  BY <1>3, <1>4, <1>7 DEF ToSet
<1> QED
  BY <1>0, <1>4, <1>5, <1>6, <1>8 DEF Ascending

----------------------------------------------------------------------------
(* Type correctness *)

\* What the constants are, one by one.
LEMMA Constants ==
  /\ \A p \in Prices : p \in Nat /\ p > 0
  /\ \A q \in Quantities : q \in Nat
  /\ Window \in Nat /\ Interval \in Nat /\ Interval > 0 /\ MaxCandles \in Nat /\ MaxCandles > 0
  /\ MaxTrades \in Nat /\ MaxTime \in Nat /\ MaxLost \in Nat
BY WindowAssumption

\* Products of numbers are numbers.
LEMMA ProductType == ASSUME NEW a \in Nat, NEW b \in Nat PROVE a * b \in Nat
OBVIOUS

\* The start of an interval is a time, and not after the trade.
LEMMA StartType ==
  ASSUME NEW t \in Trade PROVE Start(t) \in 0..MaxTime /\ Start(t) \in Nat /\ Start(t) <= t.at
<1>1. t.at \in Nat /\ t.at <= MaxTime /\ MaxTime \in Nat /\ Interval \in Nat /\ Interval > 0
  BY Constants DEF Trade
<1> PICK n, r, q : n = t.at /\ r = t.at % Interval /\ q = t.at \div Interval
  OBVIOUS
<1>2. q \in Nat /\ r \in Nat /\ n = Interval * q + r
  BY <1>1, Division
<1>3. Interval * q \in Nat
  BY <1>1, <1>2, ProductType
<1>4. n - r \in Nat /\ n - r <= n
  BY <1>2, <1>3
<1> QED
  BY <1>1, <1>4 DEF Start

\* Pruning keeps some end of the list.
LEMMA PrunedType ==
  ASSUME NEW w \in Seq(Trade), NEW ref \in Nat PROVE Pruned(w, ref) \in Seq(Trade)
<1>1. PICK k \in 0..Len(w) : Pruned(w, ref) = SubSeq(w, k + 1, Len(w))
  BY PrunedIs
<1> QED
  BY <1>1, WithoutFirst

\* The starts with x among them, before the limit and after it.
With(s, x) == IF x \in ToSet(s) THEN s ELSE Sorted(ToSet(s), x)
Kept(s, x) == Newest(With(s, x), MaxCandles)

\* They are times, of what was there and x.
LEMMA StartsType ==
  ASSUME NEW s \in Seq(0..MaxTime), NEW x \in 0..MaxTime
  PROVE  /\ With(s, x) \in Seq(0..MaxTime) /\ ToSet(With(s, x)) = ToSet(s) \cup {x}
         /\ Kept(s, x) \in Seq(0..MaxTime) /\ ToSet(Kept(s, x)) \subseteq ToSet(s) \cup {x}
<1> DEFINE T == 0..MaxTime
<1>0. PICK all, kept : all = With(s, x) /\ kept = Kept(s, x)
  OBVIOUS
<1>1. T \in SUBSET Nat /\ IsFiniteSet(T) /\ x \in T
  BY Constants, FS_Interval
<1>2. s \in Seq(T)
  OBVIOUS
<1> HIDE DEF T
<1>30. ToSet(s) \in SUBSET T
  <2>1. \A i \in DOMAIN s : s[i] \in T
    BY <1>2
  <2> QED
    BY <2>1 DEF ToSet
<1>3. ToSet(s) \cup {x} \in SUBSET T /\ IsFiniteSet(ToSet(s) \cup {x})
  BY <1>1, <1>30, FS_Subset
<1>4. all \in Seq(T) /\ ToSet(all) = ToSet(s) \cup {x}
  <2>1. CASE x \in ToSet(s)
    BY <1>0, <2>1 DEF T, With
  <2>2. CASE x \notin ToSet(s)
    <3> PICK S : S = ToSet(s) \cup {x}
      OBVIOUS
    <3>1. all = InOrderOf(S, <)
      BY <1>0, <2>2 DEF Sorted, With
    <3>2. S \in SUBSET Nat /\ IsFiniteSet(S) /\ S \subseteq T
      BY <1>1, <1>3
    <3>3. all \in Seq(S) /\ ToSet(all) = S
      BY <3>1, <3>2, SortIsAscending
    <3> QED
      BY <3>2, <3>3
  <2> QED
    BY <2>1, <2>2
<1>5. PICK k \in 0..Len(all) : kept = SubSeq(all, k + 1, Len(all))
  <2>1. MaxCandles \in Nat
    BY Constants
  <2> QED
    BY <1>0, <1>4, <2>1, NewestAre DEF Kept
<1>6. kept \in Seq(T) /\ \A i \in DOMAIN kept : \E j \in DOMAIN all : kept[i] = all[j]
  <2>1. kept \in Seq(T) /\ DOMAIN kept = 1..(Len(all) - k)
    BY <1>4, <1>5, WithoutFirst
  <2>2. \A i \in 1..(Len(all) - k) : k + i \in 1..Len(all) /\ kept[i] = all[k + i]
    BY <1>4, <1>5, WithoutFirst
  <2>3. DOMAIN all = 1..Len(all)
    BY <1>4
  <2> QED
    BY <2>1, <2>2, <2>3
<1>7. ToSet(kept) \subseteq ToSet(all)
  <2> SUFFICES ASSUME NEW v \in ToSet(kept) PROVE v \in ToSet(all)
    OBVIOUS
  <2> PICK i \in DOMAIN kept : v = kept[i]
    BY DEF ToSet
  <2> PICK j \in DOMAIN all : kept[i] = all[j]
    BY <1>6
  <2> QED
    BY DEF ToSet
<1> QED
  BY <1>0, <1>4, <1>6, <1>7 DEF T

\* A candle with a trade more is a candle.
LEMMA TradedType ==
  ASSUME NEW b \in Candle, NEW t \in Trade PROVE Traded(b, t) \in Candle
<1>1. t.price \in Prices /\ t.qty \in Nat
  BY Constants DEF Trade
<1> PICK high, low : /\ high = (IF t.price > b.high THEN t.price ELSE b.high)
                     /\ low = (IF t.price < b.low THEN t.price ELSE b.low)
  OBVIOUS
<1>2. Traded(b, t) = [b EXCEPT !.high = high, !.low = low, !.close = t.price,
                               !.volume = b.volume + t.qty]
  BY DEF Traded
<1>3. high \in Prices /\ low \in Prices /\ b.volume + t.qty \in Nat
  BY <1>1 DEF Candle
<1> QED
  BY <1>1, <1>2, <1>3 DEF Candle

\* The candle of a first trade, still without its volume.
LEMMA NewCandleType == ASSUME NEW t \in Trade PROVE NewCandle(t) \in Candle
BY DEF NewCandle, Candle, Trade

\* The part of the type invariant that a trade changes.
LEMMA ApplyType ==
  ASSUME TypeOK, NEW t \in Trade, ApplyTradeEvent(t)
  PROVE  /\ applied' \in Seq(Trade)
         /\ recent' \in Seq(Trade) /\ Len(recent') <= 1
         /\ window' \in Seq(Trade)
         /\ starts' \in Seq(0..MaxTime)
         /\ buckets' \in [ToSet(starts') -> Candle]
<1>1. /\ applied \in Seq(Trade) /\ window \in Seq(Trade) /\ starts \in Seq(0..MaxTime)
      /\ buckets \in [ToSet(starts) -> Candle]
  BY DEF TypeOK
<1>2. /\ recent' = <<t>> /\ window' = Pruned(Append(window, t), t.at)
      /\ applied' = Append(applied, t) /\ ApplyTradeToCandle(t)
  BY DEF ApplyTradeEvent
<1>3. t.at \in Nat
  BY Constants DEF Trade
<1>4. window' \in Seq(Trade)
  <2>1. Append(window, t) \in Seq(Trade)
    BY <1>1
  <2> QED
    BY <1>2, <1>3, <2>1, PrunedType
<1> DEFINE s      == Start(t)
           known  == s \in DOMAIN buckets
           all    == IF known THEN starts ELSE Sorted(ToSet(starts), s)
           kept   == Newest(all, MaxCandles)
           candle == Traded(IF known THEN buckets[s] ELSE NewCandle(t), t)
<1>5. starts' = kept /\ buckets' = [r \in ToSet(kept) |-> IF r = s THEN candle ELSE buckets[r]]
  BY <1>2 DEF ApplyTradeToCandle
<1>6. candle \in Candle
  <2>1. CASE known
    BY <1>1, <2>1, TradedType
  <2>2. CASE ~ known
    BY <2>2, TradedType, NewCandleType
  <2> QED
    BY <2>1, <2>2
<1>7. known <=> s \in ToSet(starts)
  BY <1>1
<1>8. s \in 0..MaxTime
  BY StartType
<1>9. kept \in Seq(0..MaxTime) /\ ToSet(kept) \subseteq ToSet(starts) \cup {s}
  <2>1. kept = Kept(starts, s)
    BY <1>7 DEF Kept, With
  <2> HIDE DEF s, kept
  <2> QED
    BY <1>1, <1>8, <2>1, StartsType
<1> HIDE DEF s, kept, candle
<1>10. buckets' \in [ToSet(kept) -> Candle]
  BY <1>1, <1>5, <1>6, <1>9
<1>11. applied' \in Seq(Trade) /\ recent' \in Seq(Trade) /\ Len(recent') <= 1
  BY <1>1, <1>2
<1> QED
  BY <1>4, <1>5, <1>9, <1>10, <1>11

\* Every step keeps the types.
LEMMA TypeStep == ASSUME TypeOK, [Next]_vars PROVE TypeOK'
<1>1. CASE Tick
  BY <1>1, Constants DEF TypeOK, Tick, subVars, modelVars
<1>2. ASSUME NEW p \in Prices, NEW q \in Quantities, Execute(p, q) PROVE TypeOK'
  <2>1. [price |-> p, qty |-> q, at |-> now] \in Trade
    BY DEF TypeOK, Trade
  <2>2. executed' \in Seq(Trade) /\ Len(executed') = Len(executed) + 1
    BY <1>2, <2>1 DEF Execute, TypeOK
  <2>3. pos \in 0..Len(executed')
    BY <2>2 DEF TypeOK
  <2> QED
    BY <1>2, <2>2, <2>3 DEF TypeOK, Execute, subVars, modelVars
<1>3. CASE Receive
  <2>1. pos + 1 \in 1..Len(executed) /\ executed[pos + 1] \in Trade
    BY <1>3 DEF Receive, TypeOK
  <2>2. /\ applied' \in Seq(Trade)
        /\ recent' \in Seq(Trade) /\ Len(recent') <= 1
        /\ window' \in Seq(Trade)
        /\ starts' \in Seq(0..MaxTime)
        /\ buckets' \in [ToSet(starts') -> Candle]
    BY <1>3, <2>1, ApplyType DEF Receive
  <2>3. now' \in 0..MaxTime /\ executed' = executed /\ executed \in Seq(Trade)
    BY <1>3 DEF Receive, tapeVars, TypeOK
  <2>4. pos' \in 0..Len(executed') /\ lost' \in 0..MaxLost /\ unacked' \subseteq 1..pos'
    <3>1. pos' = pos + 1 /\ unacked \subseteq 1..pos /\ pos \in Nat
      BY <1>3 DEF Receive, TypeOK
    <3>2. unacked' \subseteq unacked \cup {pos + 1}
      BY <1>3 DEF Receive
    <3>3. lost' \in 0..MaxLost
      BY <1>3, Constants DEF Receive, TypeOK
    <3> QED
      BY <2>1, <2>3, <3>1, <3>2, <3>3
  <2> QED
    BY <2>2, <2>3, <2>4 DEF TypeOK
<1>4. CASE Redeliver
  <2> PICK i \in unacked : ApplyTradeEvent(executed[i]) /\ unacked' = unacked \ {i}
    BY <1>4 DEF Redeliver
  <2>1. i \in 1..Len(executed) /\ executed[i] \in Trade
    BY DEF TypeOK
  <2>2. /\ applied' \in Seq(Trade)
        /\ recent' \in Seq(Trade) /\ Len(recent') <= 1
        /\ window' \in Seq(Trade)
        /\ starts' \in Seq(0..MaxTime)
        /\ buckets' \in [ToSet(starts') -> Candle]
    BY <2>1, ApplyType
  <2> QED
    BY <1>4, <2>2 DEF TypeOK, Redeliver, tapeVars
<1>5. CASE TickerSummary
  <2>1. now \in Nat /\ window \in Seq(Trade)
    BY Constants DEF TypeOK
  <2>2. window' \in Seq(Trade)
    BY <1>5, <2>1, PrunedType DEF TickerSummary
  <2> QED
    BY <1>5, <2>2 DEF TypeOK, TickerSummary, tapeVars, subVars
<1>6. CASE UNCHANGED vars
  BY <1>6 DEF TypeOK, vars, tapeVars, subVars, modelVars
<1> QED
  BY <1>1, <1>2, <1>3, <1>4, <1>5, <1>6 DEF Next

\* At the start everything is empty.
LEMMA TypeInit == ASSUME Init PROVE TypeOK
<1>1. ToSet(starts) = {} /\ buckets \in [{} -> Candle]
  BY DEF Init, ToSet
<1> QED
  BY <1>1, Constants DEF Init, TypeOK, Nothing

\* The types of the window, the lists and the candles (readmodel.go:59).
THEOREM WindowTypeCorrect == Spec => []TypeOK
BY TypeInit, TypeStep, PTL DEF Spec

----------------------------------------------------------------------------
(* What trades come to *)

\* Some place has the greatest value, and some the least.
LEMMA ExtremesExist ==
  ASSUME NEW I, IsFiniteSet(I), I # {}, NEW v, \A i \in I : v[i] \in Nat
  PROVE  \E h, l \in I : \A i \in I : v[l] <= v[i] /\ v[i] <= v[h]
<1> DEFINE High(s) == \E i \in s : \A j \in s : v[j] <= v[i]
           Low(s)  == \E i \in s : \A j \in s : v[i] <= v[j]
           G == {s \in SUBSET I : s = {} \/ (High(s) /\ Low(s))}
<1>1. ASSUME NEW s \in SUBSET I, \A t \in SUBSET s : t # s => t \in G
      PROVE  s \in G
  <2>1. CASE s = {}
    BY <2>1
  <2>2. ASSUME NEW x \in s PROVE s \in G
    <3>1. s \ {x} \in G
      BY <1>1, <2>2
    <3>2. CASE s \ {x} = {}
      <4>1. \A j \in s : j = x /\ v[x] <= v[j]
        BY <3>2
      <4>2. High(s) /\ Low(s)
        BY <2>2, <4>1
      <4> QED
        BY <4>2
    <3>3. CASE s \ {x} # {}
      <4>1. PICK h \in s \ {x} : \A j \in s \ {x} : v[j] <= v[h]
        BY <3>1, <3>3
      <4>2. PICK l \in s \ {x} : \A j \in s \ {x} : v[l] <= v[j]
        BY <3>1, <3>3
      <4>3. v[x] \in Nat /\ v[h] \in Nat /\ v[l] \in Nat /\ \A j \in s : v[j] \in Nat
        OBVIOUS
      <4>4. High(s)
        <5>1. CASE v[x] <= v[h]
          BY <4>1, <5>1
        <5>2. CASE v[h] < v[x]
          BY <4>1, <4>3, <5>2
        <5> QED
          BY <4>3, <5>1, <5>2
      <4>5. Low(s)
        <5>1. CASE v[l] <= v[x]
          BY <4>2, <5>1
        <5>2. CASE v[x] < v[l]
          BY <4>2, <4>3, <5>2
        <5> QED
          BY <4>3, <5>1, <5>2
      <4> QED
        BY <4>4, <4>5
    <3> QED
      BY <3>2, <3>3
  <2> QED
    BY <2>1, <2>2
<1>2. SUBSET I \subseteq G
  <2> HIDE DEF G
  <2> QED
    BY <1>1, SubsetInduction
<1>3. High(I) /\ Low(I)
  BY <1>2
<1>4. PICK h \in I : \A j \in I : v[j] <= v[h]
  BY <1>3
<1>5. PICK l \in I : \A j \in I : v[l] <= v[j]
  BY <1>3
<1> QED
  BY <1>4, <1>5

\* The least of a set of numbers whose least is known.
LEMMA MinIs ==
  ASSUME NEW S \in SUBSET Nat, NEW x \in S, \A y \in S : x <= y
  PROVE  Min(S) = x
<1>1. Min(S) \in S /\ \A y \in S : Min(S) <= y
  BY DEF Min
<1>2. Min(S) <= x /\ x <= Min(S) /\ x \in Nat /\ Min(S) \in Nat
  BY <1>1
<1> QED
  BY <1>2

Qtys(ts, I) == [i \in I |-> ts[i].qty]

QtySum(ts, I) == MapThenSumSet(LAMBDA i : ts[i].qty, I)

\* The fold over the places is their sum.
LEMMA QtySumIs ==
  ASSUME NEW ts, NEW I, IsFiniteSet(I), \A i \in I : ts[i].qty \in Nat
  PROVE  QtySum(ts, I) = Sum(Qtys(ts, I), I)
<1> DEFINE g == CHOOSE h : h = [s \in SUBSET I |->
                  IF s = {} THEN 0
                  ELSE ts[CHOOSE i \in s : TRUE].qty + h[s \ {CHOOSE i \in s : TRUE}]]
           q == Qtys(ts, I)
<1>1. QtySum(ts, I) = g[I]
  BY DEF QtySum, MapThenSumSet, MapThenFoldSet
<1>2. \A i \in I : q[i] \in Nat /\ q[i] = ts[i].qty
  BY DEF Qtys
<1> HIDE DEF q
<1>3. PICK h : SumsOver(q, h, I)
  BY <1>2, SumsExist
<1>4. \A s \in SUBSET I : s # {} => q[CHOOSE i \in s : TRUE] = ts[CHOOSE i \in s : TRUE].qty
  BY <1>2, OneOf
<1>5. h = [s \in SUBSET I |->
             IF s = {} THEN 0
             ELSE ts[CHOOSE i \in s : TRUE].qty + h[s \ {CHOOSE i \in s : TRUE}]]
  BY <1>3, <1>4 DEF SumsOver, Turn
<1>6. g = [s \in SUBSET I |->
             IF s = {} THEN 0
             ELSE ts[CHOOSE i \in s : TRUE].qty + g[s \ {CHOOSE i \in s : TRUE}]]
  BY <1>5
<1> HIDE DEF g
<1>7. \A s \in SUBSET I : g[s] = Turn(q, g, s)
  BY <1>4, <1>6 DEF Turn
<1> QED
  BY <1>1, <1>2, <1>7, SumOf DEF q

\* Of a set of places in ts: the first and the last, and those of the highest and the
\* lowest price.
Corners(ts, I, f, l, h, w) ==
  /\ f \in I /\ l \in I /\ h \in I /\ w \in I
  /\ \A i \in I : /\ f <= i /\ i <= l
                  /\ ts[i].price <= ts[h].price /\ ts[w].price <= ts[i].price

\* Places of a list of trades are finitely many numbers, and so is what is there.
LEMMA PlacesAre ==
  ASSUME NEW ts \in Seq(Trade), NEW I \in SUBSET DOMAIN ts
  PROVE  /\ IsFiniteSet(I) /\ I \in SUBSET Nat
         /\ \A i \in I : ts[i] \in Trade /\ ts[i].price \in Nat /\ ts[i].qty \in Nat
<1>1. Len(ts) \in Nat /\ DOMAIN ts = 1..Len(ts)
  OBVIOUS
<1>2. IsFiniteSet(1..Len(ts))
  BY <1>1, FS_Interval
<1>3. \A i \in DOMAIN ts : ts[i] \in Trade
  OBVIOUS
<1>4. \A t \in Trade : t.price \in Nat /\ t.qty \in Nat
  BY Constants DEF Trade
<1> QED
  BY <1>1, <1>2, <1>3, <1>4, FS_Subset

\* Places have corners, if there are any.
LEMMA CornersExist ==
  ASSUME NEW ts \in Seq(Trade), NEW I \in SUBSET DOMAIN ts, I # {}
  PROVE  \E f, l, h, w : Corners(ts, I, f, l, h, w)
<1> DEFINE at == [i \in I |-> i]
           of == [i \in I |-> ts[i].price]
<1>1. IsFiniteSet(I) /\ \A i \in I : at[i] \in Nat /\ of[i] \in Nat
  BY PlacesAre
<1>2. \A i \in I : at[i] = i /\ of[i] = ts[i].price
  OBVIOUS
<1> HIDE DEF at, of
<1>3. PICK l, f \in I : \A i \in I : at[f] <= at[i] /\ at[i] <= at[l]
  BY <1>1, ExtremesExist
<1>4. PICK h, w \in I : \A i \in I : of[w] <= of[i] /\ of[i] <= of[h]
  BY <1>1, ExtremesExist
<1>5. Corners(ts, I, f, l, h, w)
  BY <1>2, <1>3, <1>4 DEF Corners
<1> QED
  BY <1>5

\* What the places come to, by their corners and their sum.
Sums(ts, I, f, l, h, w) ==
  [open |-> ts[f].price, close |-> ts[l].price, high |-> ts[h].price, low |-> ts[w].price,
   volume |-> Sum(Qtys(ts, I), I)]

\* That is their total.
LEMMA TotalIs ==
  ASSUME NEW ts \in Seq(Trade), NEW I \in SUBSET DOMAIN ts,
         NEW f, NEW l, NEW h, NEW w, Corners(ts, I, f, l, h, w)
  PROVE  Total(ts, I) = Sums(ts, I, f, l, h, w)
<1>1. /\ IsFiniteSet(I) /\ I \in SUBSET Nat
      /\ \A i \in I : ts[i].price \in Nat /\ ts[i].qty \in Nat
  BY PlacesAre
<1>2. Min(I) = f
  <2>1. f \in I /\ \A y \in I : f <= y
    BY DEF Corners
  <2> QED
    BY <1>1, <2>1, MinIs
<1>3. Max(I) = l
  <2>1. l \in I /\ \A y \in I : y <= l
    BY DEF Corners
  <2> QED
    BY <1>1, <2>1, MaxIs
<1> DEFINE P == {ts[i].price : i \in I}
<1>4. P \in SUBSET Nat /\ ts[h].price \in P /\ ts[w].price \in P
  BY <1>1 DEF Corners
<1>5. \A y \in P : y <= ts[h].price /\ ts[w].price <= y
  BY DEF Corners
<1> HIDE DEF P
<1>6. Max(P) = ts[h].price /\ Min(P) = ts[w].price
  BY <1>4, <1>5, MaxIs, MinIs
<1>7. QtySum(ts, I) = Sum(Qtys(ts, I), I)
  BY <1>1, QtySumIs
<1> QED
  BY <1>2, <1>3, <1>6, <1>7 DEF Total, QtySum, Sums, P

\* What a trade makes of a candle, entry by entry.
LEMMA TradedIs ==
  ASSUME NEW o, NEW c, NEW h, NEW l, NEW v, NEW t
  PROVE  Traded([open |-> o, close |-> c, high |-> h, low |-> l, volume |-> v], t) =
           [open |-> o, close |-> t.price, high |-> IF t.price > h THEN t.price ELSE h,
            low |-> IF t.price < l THEN t.price ELSE l, volume |-> v + t.qty]
<1>1. PICK b : b = [open |-> o, close |-> c, high |-> h, low |-> l, volume |-> v]
  OBVIOUS
<1>2. PICK p, x, y, z : /\ p = t.price
                        /\ x = (IF t.price > h THEN t.price ELSE h)
                        /\ y = (IF t.price < l THEN t.price ELSE l)
                        /\ z = v + t.qty
  OBVIOUS
<1>3. b.high = h /\ b.low = l /\ b.volume = v
  BY <1>1
<1>4. Traded(b, t) = [b EXCEPT !.high = x, !.low = y, !.close = p, !.volume = z]
  BY <1>2, <1>3 DEF Traded
<1>5. [b EXCEPT !.high = x, !.low = y, !.close = p, !.volume = z] =
        [open |-> o, close |-> p, high |-> x, low |-> y, volume |-> z]
  <2> DEFINE R == [open : {o}, close : {p}, high : {x}, low : {y}, volume : {z}]
             e == [b EXCEPT !.high = x, !.low = y, !.close = p, !.volume = z]
             r == [open |-> o, close |-> p, high |-> x, low |-> y, volume |-> z]
  <2>1. b \in [open : {o}, close : {c}, high : {h}, low : {l}, volume : {v}]
    BY <1>1
  <2>2. e \in R
    BY <2>1
  <2>3. r \in R
    OBVIOUS
  <2> HIDE DEF e, r
  <2>4. e = r
    BY <2>2, <2>3
  <2> QED
    BY <2>4 DEF e, r
<1> QED
  BY <1>1, <1>2, <1>4, <1>5

\* A trade more at the end.
LEMMA OneMore ==
  ASSUME NEW ts \in Seq(Trade), NEW t \in Trade
  PROVE  \E us, n :
           /\ us = Append(ts, t) /\ n = Len(ts) + 1
           /\ us \in Seq(Trade) /\ DOMAIN us = DOMAIN ts \cup {n}
           /\ n \notin DOMAIN ts /\ n \in Nat /\ us[n] = t
           /\ \A i \in DOMAIN ts : us[i] = ts[i] /\ i < n /\ i \in Nat
           /\ t.qty \in Nat /\ t.price \in Nat
<1> DEFINE us == Append(ts, t)
           n  == Len(ts) + 1
<1>1. t.qty \in Nat /\ t.price \in Nat
  BY Constants DEF Trade
<1>2. /\ us \in Seq(Trade) /\ DOMAIN us = DOMAIN ts \cup {n}
      /\ n \notin DOMAIN ts /\ n \in Nat /\ us[n] = t
      /\ \A i \in DOMAIN ts : us[i] = ts[i] /\ i < n /\ i \in Nat
  OBVIOUS
<1> HIDE DEF us, n
<1>3. \A a, b : a = us /\ b = n => a = Append(ts, t) /\ b = Len(ts) + 1
  BY DEF us, n
<1> QED
  BY <1>1, <1>2, <1>3

\* Other places come to what they came to.
LEMMA TotalOfOthers ==
  ASSUME NEW ts \in Seq(Trade), NEW t \in Trade, NEW I \in SUBSET DOMAIN ts, I # {}
  PROVE  Total(Append(ts, t), I) = Total(ts, I)
<1>0. PICK us, n :
        /\ us = Append(ts, t) /\ n = Len(ts) + 1
        /\ us \in Seq(Trade) /\ DOMAIN us = DOMAIN ts \cup {n}
        /\ n \notin DOMAIN ts /\ n \in Nat /\ us[n] = t
        /\ \A i \in DOMAIN ts : us[i] = ts[i] /\ i < n /\ i \in Nat
        /\ t.qty \in Nat /\ t.price \in Nat
  BY OneMore
<1>1. us \in Seq(Trade) /\ I \in SUBSET DOMAIN us /\ \A i \in I : us[i] = ts[i]
  BY <1>0
<1>2. PICK f, l, h, w : Corners(ts, I, f, l, h, w)
  BY CornersExist
<1>3. Total(ts, I) = Sums(ts, I, f, l, h, w)
  BY <1>2, TotalIs
<1>4. f \in I /\ l \in I /\ h \in I /\ w \in I
  BY <1>2 DEF Corners
<1>5. Corners(us, I, f, l, h, w)
  BY <1>1, <1>2, <1>4 DEF Corners
<1>6. Total(us, I) = Sums(us, I, f, l, h, w)
  BY <1>1, <1>5, TotalIs
<1>7. Qtys(us, I) = Qtys(ts, I)
  BY <1>1 DEF Qtys
<1>8. Sums(us, I, f, l, h, w) = Sums(ts, I, f, l, h, w)
  BY <1>1, <1>4, <1>7 DEF Sums
<1> QED
  BY <1>0, <1>3, <1>6, <1>8

\* The place of the new one with others comes to what the candle makes of the trade.
LEMMA TotalStep ==
  ASSUME NEW ts \in Seq(Trade), NEW t \in Trade, NEW I \in SUBSET DOMAIN ts, I # {}
  PROVE  Total(Append(ts, t), I \cup {Len(ts) + 1}) = Traded(Total(ts, I), t)
<1>0. PICK us, n :
        /\ us = Append(ts, t) /\ n = Len(ts) + 1
        /\ us \in Seq(Trade) /\ DOMAIN us = DOMAIN ts \cup {n}
        /\ n \notin DOMAIN ts /\ n \in Nat /\ us[n] = t
        /\ \A i \in DOMAIN ts : us[i] = ts[i] /\ i < n /\ i \in Nat
        /\ t.qty \in Nat /\ t.price \in Nat
  BY OneMore
<1>1. /\ us \in Seq(Trade) /\ I \cup {n} \in SUBSET DOMAIN us /\ n \notin I /\ n \in Nat
      /\ us[n] = t /\ t.qty \in Nat /\ t.price \in Nat
      /\ \A i \in I : us[i] = ts[i] /\ i < n /\ i \in Nat
  BY <1>0
<1>2. PICK f, l, h, w : Corners(ts, I, f, l, h, w)
  BY CornersExist
<1>3. Total(ts, I) = Sums(ts, I, f, l, h, w)
  BY <1>2, TotalIs
<1>4. f \in I /\ l \in I /\ h \in I /\ w \in I
  BY <1>2 DEF Corners
<1>5. IsFiniteSet(I) /\ \A i \in I : ts[i].qty \in Nat /\ ts[i].price \in Nat
  BY PlacesAre
<1>6. Sum(Qtys(us, I \cup {n}), I \cup {n}) = Sum(Qtys(ts, I), I) + t.qty
  <2> DEFINE q == Qtys(us, I \cup {n})
  <2>1. q[n] = t.qty /\ \A i \in I : q[i] = ts[i].qty
    BY <1>1 DEF Qtys
  <2>2. \A i \in I : Qtys(ts, I)[i] = q[i] /\ q[i] \in Nat
    BY <1>5, <2>1 DEF Qtys
  <2> HIDE DEF q
  <2>3. Sum(q, I \cup {n}) = q[n] + Sum(q, I)
    BY <1>1, <1>5, <2>1, <2>2, SumWith
  <2>4. Sum(Qtys(ts, I), I) = Sum(q, I) /\ Sum(q, I) \in Nat
    BY <1>5, <2>2, SumSame, SumType
  <2> QED
    BY <1>1, <2>1, <2>3, <2>4 DEF q
<1>7. PICK a, b : /\ a = (IF t.price > ts[h].price THEN n ELSE h)
                  /\ b = (IF t.price < ts[w].price THEN n ELSE w)
  OBVIOUS
<1>8. /\ us[a].price = (IF t.price > ts[h].price THEN t.price ELSE ts[h].price)
      /\ us[b].price = (IF t.price < ts[w].price THEN t.price ELSE ts[w].price)
      /\ us[f].price = ts[f].price
  BY <1>1, <1>4, <1>7
<1>9. Corners(us, I \cup {n}, f, n, a, b)
  <2>1. a \in I \cup {n} /\ b \in I \cup {n}
    BY <1>4, <1>7
  <2>2. ASSUME NEW i \in I
        PROVE  f <= i /\ i <= n /\ us[i].price <= us[a].price /\ us[b].price <= us[i].price
    <3>1. ts[i].price <= ts[h].price /\ ts[w].price <= ts[i].price /\ f <= i
      BY <1>2 DEF Corners
    <3>2. us[i].price = ts[i].price /\ i < n /\ i \in Nat
      BY <1>1
    <3>3. ts[i].price \in Nat /\ ts[h].price \in Nat /\ ts[w].price \in Nat
      BY <1>4, <1>5
    <3>4. t.price \in Nat /\ n \in Nat
      BY <1>1
    <3>5. i <= n
      BY <3>2, <3>4
    <3>6. us[i].price <= us[a].price /\ us[b].price <= us[i].price
      BY <1>8, <3>1, <3>2, <3>3, <3>4
    <3> QED
      BY <3>1, <3>5, <3>6
  <2>3. f <= n /\ n <= n /\ us[n].price <= us[a].price /\ us[b].price <= us[n].price
    <3>1. ts[h].price \in Nat /\ ts[w].price \in Nat /\ f < n /\ f \in Nat
      BY <1>1, <1>4, <1>5
    <3>2. t.price \in Nat /\ n \in Nat /\ us[n].price = t.price
      BY <1>1
    <3>3. us[n].price <= us[a].price /\ us[b].price <= us[n].price
      BY <1>8, <3>1, <3>2
    <3> QED
      BY <3>1, <3>2, <3>3
  <2> QED
    BY <1>4, <2>1, <2>2, <2>3 DEF Corners
<1>10. Total(us, I \cup {n}) = Sums(us, I \cup {n}, f, n, a, b)
  BY <1>1, <1>9, TotalIs
<1>11. Sums(us, I \cup {n}, f, n, a, b) = Traded(Sums(ts, I, f, l, h, w), t)
  <2>1. Sums(us, I \cup {n}, f, n, a, b) =
          [open |-> ts[f].price, close |-> t.price,
           high |-> IF t.price > ts[h].price THEN t.price ELSE ts[h].price,
           low |-> IF t.price < ts[w].price THEN t.price ELSE ts[w].price,
           volume |-> Sum(Qtys(ts, I), I) + t.qty]
    BY <1>1, <1>6, <1>8 DEF Sums
  <2> QED
    BY <2>1, TradedIs DEF Sums
<1> QED
  BY <1>0, <1>3, <1>10, <1>11

\* The first trade of an interval.
LEMMA TotalFirst ==
  ASSUME NEW ts \in Seq(Trade), NEW t \in Trade
  PROVE  Total(Append(ts, t), {Len(ts) + 1}) = Traded(NewCandle(t), t)
<1>0. PICK us, n :
        /\ us = Append(ts, t) /\ n = Len(ts) + 1
        /\ us \in Seq(Trade) /\ DOMAIN us = DOMAIN ts \cup {n}
        /\ n \notin DOMAIN ts /\ n \in Nat /\ us[n] = t
        /\ \A i \in DOMAIN ts : us[i] = ts[i] /\ i < n /\ i \in Nat
        /\ t.qty \in Nat /\ t.price \in Nat
  BY OneMore
<1>1. /\ us \in Seq(Trade) /\ {n} \in SUBSET DOMAIN us /\ n \in Nat /\ us[n] = t
      /\ t.qty \in Nat /\ t.price \in Nat
  BY <1>0
<1>2. Corners(us, {n}, n, n, n, n)
  BY <1>1 DEF Corners
<1>3. Total(us, {n}) = Sums(us, {n}, n, n, n, n)
  BY <1>1, <1>2, TotalIs
<1>4. Sum(Qtys(us, {n}), {n}) = t.qty
  <2> DEFINE q == Qtys(us, {n})
  <2>1. q[n] = t.qty /\ IsFiniteSet({}) /\ {} \cup {n} = {n}
    BY <1>1, FS_EmptySet DEF Qtys
  <2> HIDE DEF q
  <2>2. Sum(q, {} \cup {n}) = q[n] + Sum(q, {})
    BY <1>1, <2>1, SumWith
  <2>3. Sum(q, {}) = 0
    BY SumOfNothing
  <2> QED
    BY <1>1, <2>1, <2>2, <2>3 DEF q
<1>5. Sums(us, {n}, n, n, n, n) =
        [open |-> t.price, close |-> t.price, high |-> t.price, low |-> t.price,
         volume |-> t.qty]
  BY <1>1, <1>4 DEF Sums
<1>6. Traded(NewCandle(t), t) =
        [open |-> t.price, close |-> t.price, high |-> t.price, low |-> t.price,
         volume |-> t.qty]
  <2>1. NewCandle(t) = [open |-> t.price, close |-> t.price, high |-> t.price,
                        low |-> t.price, volume |-> 0]
    BY DEF NewCandle
  <2>2. ~ (t.price > t.price) /\ ~ (t.price < t.price) /\ 0 + t.qty = t.qty
    BY <1>1
  <2> QED
    BY <2>1, <2>2, TradedIs
<1> QED
  BY <1>0, <1>3, <1>5, <1>6

----------------------------------------------------------------------------
(* The candles *)

\* The places of the trades that arrived of the interval from s on.
ArrivedIn(ts, s) == {i \in DOMAIN ts : Start(ts[i]) = s}

\* The starts of the intervals of trades.
StartsOf(ts) == {Start(ts[i]) : i \in DOMAIN ts}

\* What a candle is of, and which there are: the starts are the newest of those seen,
\* none twice, and each bucket is all its trades.
CandleInv ==
  /\ Ascending(starts)
  /\ IsTop(ToSet(starts), Seen, MaxCandles)
  /\ \A s \in ToSet(starts) : buckets[s] = Total(applied, ArrivedIn(applied, s))

\* The greatest of the greatest.
LEMMA TopOfTop ==
  ASSUME NEW S \in SUBSET Nat, IsFiniteSet(S), NEW m \in Nat, NEW n \in Nat, n <= m,
         NEW T, IsTop(T, S, m), NEW U, IsTop(U, T, n)
  PROVE  IsTop(U, S, n)
<1>1. T \subseteq S /\ U \subseteq T /\ Cardinality(U) <= n
  BY DEF IsTop
<1>2. ASSUME S \ U # {} PROVE Cardinality(U) = n
  <2>1. CASE T \ U # {}
    BY <2>1 DEF IsTop
  <2>2. CASE T = U
    <3>1. Cardinality(T) = m
      BY <1>2, <2>2 DEF IsTop
    <3> QED
      BY <1>1, <2>2, <3>1
  <2> QED
    BY <1>1, <2>1, <2>2
<1>3. ASSUME NEW x \in U, NEW y \in S \ U PROVE y < x
  <2>1. CASE y \in T
    BY <1>3, <2>1 DEF IsTop
  <2>2. CASE y \notin T
    BY <1>1, <1>3, <2>2 DEF IsTop
  <2> QED
    BY <2>1, <2>2
<1> QED
  BY <1>1, <1>2, <1>3 DEF IsTop

\* The greatest are the greatest of themselves.
LEMMA TopOfItself ==
  ASSUME NEW T, NEW S, NEW n, IsTop(T, S, n) PROVE IsTop(T, T, n)
BY DEF IsTop

\* The starts that are kept of those there are and x are the newest of all; x is not
\* among them when it was deleted before.
LEMMA KeptAreNewest ==
  ASSUME NEW s \in Seq(0..MaxTime), Ascending(s),
         NEW S \in SUBSET Nat, IsFiniteSet(S), IsTop(ToSet(s), S, MaxCandles),
         NEW x \in 0..MaxTime
  PROVE  /\ Ascending(Kept(s, x))
         /\ IsTop(ToSet(Kept(s, x)), S \cup {x}, MaxCandles)
         /\ x \in S /\ x \notin ToSet(s) => x \notin ToSet(Kept(s, x))
<1>1. /\ s \in Seq(Nat) /\ x \in Nat /\ MaxCandles \in Nat
      /\ ToSet(s) \in SUBSET Nat /\ IsFiniteSet(ToSet(s)) /\ ToSet(s) \subseteq S
  <2>1. s \in Seq(Nat) /\ x \in Nat /\ MaxCandles \in Nat
    BY Constants
  <2>2. ToSet(s) \subseteq S
    BY DEF IsTop
  <2> QED
    BY <2>1, <2>2, FS_Subset
<1>2. PICK k, T : k = Kept(s, x) /\ T = ToSet(s)
  OBVIOUS
<1>3. CASE x \in T
  <2>1. k = Newest(s, MaxCandles)
    BY <1>2, <1>3 DEF Kept, With
  <2>2. Ascending(k) /\ IsTop(ToSet(k), T, MaxCandles)
    BY <1>1, <1>2, <2>1, NewestAreTop
  <2>3. IsTop(T, T, MaxCandles)
    BY <1>2, TopOfItself
  <2>4. ToSet(k) = T
    BY <1>1, <1>2, <2>2, <2>3, TopIsOne
  <2>5. S \cup {x} = S
    BY <1>1, <1>2, <1>3
  <2> QED
    BY <1>2, <1>3, <2>2, <2>4, <2>5
<1>4. CASE x \notin T
  <2>1. PICK all : all = With(s, x)
    OBVIOUS
  <2>2. T \cup {x} \in SUBSET Nat /\ IsFiniteSet(T \cup {x})
    BY <1>1, <1>2, FS_AddElement
  <2>3. all \in Seq(Nat) /\ Ascending(all) /\ ToSet(all) = T \cup {x}
    <3>1. all = InOrderOf(T \cup {x}, <)
      BY <1>2, <1>4, <2>1 DEF With, Sorted
    <3> QED
      BY <2>2, <3>1, SortIsAscending
  <2>4. k = Newest(all, MaxCandles)
    BY <1>2, <2>1 DEF Kept
  <2>5. Ascending(k) /\ IsTop(ToSet(k), T \cup {x}, MaxCandles)
    BY <1>1, <2>3, <2>4, NewestAreTop
  <2>6. IsTop(T, S, MaxCandles)
    BY <1>2
  <2>7. IsTop(ToSet(k), S \cup {x}, MaxCandles) /\ (x \in S => x \notin ToSet(k))
    BY <1>1, <1>4, <2>5, <2>6, TopOfMore
  <2> QED
    BY <1>2, <2>5, <2>7
<1> QED
  BY <1>3, <1>4

\* Trades are of finitely many intervals.
LEMMA SeenType ==
  ASSUME NEW ts \in Seq(Trade)
  PROVE  StartsOf(ts) \in SUBSET Nat /\ IsFiniteSet(StartsOf(ts))
<1>1. StartsOf(ts) \subseteq 0..MaxTime
  <2>1. \A i \in DOMAIN ts : ts[i] \in Trade
    OBVIOUS
  <2> QED
    BY <2>1, StartType DEF StartsOf
<1>2. IsFiniteSet(0..MaxTime) /\ 0..MaxTime \subseteq Nat
  BY Constants, FS_Interval
<1> QED
  BY <1>1, <1>2, FS_Subset

\* A trade more at the end is one place more in its own interval.
LEMMA ArrivedOfMore ==
  ASSUME NEW ts \in Seq(Trade), NEW t \in Trade
  PROVE  /\ ArrivedIn(Append(ts, t), Start(t)) = ArrivedIn(ts, Start(t)) \cup {Len(ts) + 1}
         /\ \A s : s # Start(t) => ArrivedIn(Append(ts, t), s) = ArrivedIn(ts, s)
         /\ StartsOf(Append(ts, t)) = StartsOf(ts) \cup {Start(t)}
<1>0. PICK us, n :
        /\ us = Append(ts, t) /\ n = Len(ts) + 1
        /\ us \in Seq(Trade) /\ DOMAIN us = DOMAIN ts \cup {n}
        /\ n \notin DOMAIN ts /\ n \in Nat /\ us[n] = t
        /\ \A i \in DOMAIN ts : us[i] = ts[i] /\ i < n /\ i \in Nat
        /\ t.qty \in Nat /\ t.price \in Nat
  BY OneMore
<1>1. DOMAIN us = DOMAIN ts \cup {n} /\ us[n] = t /\ \A i \in DOMAIN ts : us[i] = ts[i]
  BY <1>0
<1>2. ArrivedIn(us, Start(t)) = ArrivedIn(ts, Start(t)) \cup {n}
  BY <1>1 DEF ArrivedIn
<1>3. \A s : s # Start(t) => ArrivedIn(us, s) = ArrivedIn(ts, s)
  BY <1>1 DEF ArrivedIn
<1>4. StartsOf(us) = StartsOf(ts) \cup {Start(t)}
  BY <1>1 DEF StartsOf
<1> QED
  BY <1>0, <1>2, <1>3, <1>4

\* A trade handled leaves the candles those of the arrivals.
LEMMA CandleStep ==
  ASSUME TypeOK, CandleInv, NEW t \in Trade, ApplyTradeEvent(t)
  PROVE  CandleInv'
<1>1. /\ applied \in Seq(Trade) /\ starts \in Seq(0..MaxTime)
      /\ buckets \in [ToSet(starts) -> Candle]
  BY DEF TypeOK
<1>2. /\ Ascending(starts) /\ IsTop(ToSet(starts), Seen, MaxCandles)
      /\ \A s \in ToSet(starts) : buckets[s] = Total(applied, ArrivedIn(applied, s))
  BY DEF CandleInv
<1>3. PICK x : x = Start(t) /\ x \in 0..MaxTime
  BY StartType
<1>4. Seen \in SUBSET Nat /\ IsFiniteSet(Seen)
  BY <1>1, SeenType DEF Seen, StartsOf
<1>5. PICK kept, candle :
        /\ kept = Kept(starts, x)
        /\ candle = Traded(IF x \in ToSet(starts) THEN buckets[x] ELSE NewCandle(t), t)
  OBVIOUS
<1>6. /\ starts' = kept /\ applied' = Append(applied, t)
      /\ buckets' = [r \in ToSet(kept) |-> IF r = x THEN candle ELSE buckets[r]]
  BY <1>1, <1>3, <1>5 DEF ApplyTradeEvent, ApplyTradeToCandle, Kept, With
<1>7. /\ Ascending(kept) /\ IsTop(ToSet(kept), Seen \cup {x}, MaxCandles)
      /\ x \in Seen /\ x \notin ToSet(starts) => x \notin ToSet(kept)
  BY <1>1, <1>2, <1>3, <1>4, <1>5, KeptAreNewest
<1>8. ToSet(kept) \subseteq ToSet(starts) \cup {x}
  BY <1>1, <1>3, <1>5, StartsType
<1>9. Seen' = Seen \cup {x}
  <2>1. Seen = StartsOf(applied) /\ Seen' = StartsOf(applied')
    BY DEF Seen, StartsOf
  <2> QED
    BY <1>1, <1>3, <1>6, <2>1, ArrivedOfMore
<1>10. ASSUME NEW s \in ToSet(kept)
       PROVE  buckets'[s] = Total(applied', ArrivedIn(applied', s))
  <2>1. ArrivedIn(applied, s) \in SUBSET DOMAIN applied
    BY DEF ArrivedIn
  <2>2. s \in Seen <=> ArrivedIn(applied, s) # {}
    BY DEF Seen, ArrivedIn
  <2>3. CASE s # x
    <3>1. s \in ToSet(starts) /\ s \in Seen
      BY <1>2, <1>8, <2>3 DEF IsTop
    <3>2. ArrivedIn(applied', s) = ArrivedIn(applied, s)
      BY <1>1, <1>3, <1>6, <2>3, ArrivedOfMore
    <3>3. Total(applied', ArrivedIn(applied, s)) = Total(applied, ArrivedIn(applied, s))
      BY <1>1, <1>6, <2>1, <2>2, <3>1, TotalOfOthers
    <3>4. buckets'[s] = buckets[s]
      BY <1>6, <2>3
    <3> QED
      BY <1>2, <3>1, <3>2, <3>3, <3>4
  <2>4. CASE s = x /\ x \in ToSet(starts)
    <3>1. s \in Seen
      BY <1>2, <2>4 DEF IsTop
    <3>2. ArrivedIn(applied', s) = ArrivedIn(applied, s) \cup {Len(applied) + 1}
      BY <1>1, <1>3, <1>6, <2>4, ArrivedOfMore
    <3>3. Total(applied', ArrivedIn(applied, s) \cup {Len(applied) + 1}) =
            Traded(Total(applied, ArrivedIn(applied, s)), t)
      BY <1>1, <1>6, <2>1, <2>2, <3>1, TotalStep
    <3>4. buckets'[s] = Traded(buckets[s], t)
      BY <1>5, <1>6, <2>4
    <3> QED
      BY <1>2, <2>4, <3>2, <3>3, <3>4
  <2>5. CASE s = x /\ x \notin ToSet(starts)
    <3>1. ArrivedIn(applied, s) = {}
      BY <1>7, <2>2, <2>5
    <3>2. ArrivedIn(applied', s) = {Len(applied) + 1}
      BY <1>1, <1>3, <1>6, <2>5, <3>1, ArrivedOfMore
    <3>3. Total(applied', {Len(applied) + 1}) = Traded(NewCandle(t), t)
      BY <1>1, <1>6, TotalFirst
    <3>4. buckets'[s] = Traded(NewCandle(t), t)
      BY <1>5, <1>6, <2>5
    <3> QED
      BY <3>2, <3>3, <3>4
  <2> QED
    BY <2>3, <2>4, <2>5
<1> QED
  BY <1>6, <1>7, <1>9, <1>10 DEF CandleInv

\* Without trades there are no candles.
LEMMA CandleInit == ASSUME Init PROVE CandleInv
<1>1. starts = <<>> /\ ToSet(starts) = {} /\ Seen = {}
  BY DEF Init, ToSet, Seen
<1>2. Ascending(starts)
  BY <1>1 DEF Ascending
<1>3. IsTop({}, {}, MaxCandles)
  <2>1. Cardinality({}) = 0 /\ MaxCandles \in Nat
    BY Constants, FS_EmptySet
  <2> QED
    BY <2>1 DEF IsTop
<1> QED
  BY <1>1, <1>2, <1>3 DEF CandleInv

\* Of the steps only an arrival touches the candles.
LEMMA CandleNext == ASSUME TypeOK, CandleInv, [Next]_vars PROVE CandleInv'
<1>1. CASE Receive
  <2>1. executed[pos + 1] \in Trade
    BY <1>1 DEF Receive, TypeOK
  <2> QED
    BY <1>1, <2>1, CandleStep DEF Receive
<1>2. CASE Redeliver
  <2>1. PICK i \in unacked : ApplyTradeEvent(executed[i])
    BY <1>2 DEF Redeliver
  <2>2. executed[i] \in Trade
    BY DEF TypeOK
  <2> QED
    BY <2>1, <2>2, CandleStep
<1>3. CASE \/ Tick \/ TickerSummary \/ UNCHANGED vars
           \/ \E p \in Prices, q \in Quantities : Execute(p, q)
  <2>1. UNCHANGED <<starts, buckets, applied>>
    BY <1>3 DEF Tick, TickerSummary, Execute, vars, modelVars
  <2>2. Seen' = Seen
    BY <2>1 DEF Seen
  <2> QED
    BY <2>1, <2>2 DEF CandleInv
<1> QED
  BY <1>1, <1>2, <1>3 DEF Next

\* What is answered is what the invariant says of the buckets.
LEMMA CandlesFromInv == ASSUME TypeOK, CandleInv PROVE CandlesOfArrivals
<1>1. /\ applied \in Seq(Trade) /\ starts \in Seq(Nat) /\ MaxCandles \in Nat
      /\ Ascending(starts) /\ IsTop(ToSet(starts), Seen, MaxCandles)
      /\ \A s \in ToSet(starts) : buckets[s] = Total(applied, ArrivedIn(applied, s))
  BY Constants DEF TypeOK, CandleInv
<1>2. Seen \in SUBSET Nat /\ IsFiniteSet(Seen)
  BY <1>1, SeenType DEF Seen, StartsOf
<1>3. ASSUME NEW n \in Nat
      PROVE  /\ Newest(starts, n) \in Seq(Nat) /\ Ascending(Newest(starts, n))
             /\ IsTop(ToSet(Newest(starts, n)), ToSet(starts), n)
  BY <1>1, <1>3, NewestAreTop
<1>4. ASSUME NEW n \in 1..MaxCandles
      PROVE  [i \in DOMAIN Candles(n) |-> Candles(n)[i].at] = Newest(InOrderOf(Seen, <), n)
  <2>1. PICK asked, sorted, new :
          /\ asked = Newest(starts, n) /\ sorted = InOrderOf(Seen, <)
          /\ new = Newest(InOrderOf(Seen, <), n)
    OBVIOUS
  <2>2. n \in Nat /\ n <= MaxCandles
    BY <1>1
  <2>3. /\ asked \in Seq(Nat) /\ Ascending(asked) /\ IsTop(ToSet(asked), Seen, n)
    <3>1. /\ asked \in Seq(Nat) /\ Ascending(asked) /\ IsTop(ToSet(asked), ToSet(starts), n)
      BY <1>3, <2>1, <2>2
    <3> QED
      BY <1>1, <1>2, <2>2, <3>1, TopOfTop
  <2>4. sorted \in Seq(Nat) /\ Ascending(sorted) /\ ToSet(sorted) = Seen
    BY <1>2, <2>1, SortIsAscending
  <2>5. new \in Seq(Nat) /\ Ascending(new) /\ IsTop(ToSet(new), Seen, n)
    <3>1. new = Newest(sorted, n)
      BY <2>1
    <3>2. /\ Newest(sorted, n) \in Seq(Nat) /\ Ascending(Newest(sorted, n))
          /\ IsTop(ToSet(Newest(sorted, n)), ToSet(sorted), n)
      BY <2>2, <2>4, NewestAreTop
    <3> QED
      BY <2>4, <3>1, <3>2
  <2>6. ToSet(asked) = ToSet(new)
    BY <1>2, <2>2, <2>3, <2>5, TopIsOne
  <2>7. asked = new
    BY <2>3, <2>5, <2>6, AscendingIsOne
  <2>8. [i \in DOMAIN Candles(n) |-> Candles(n)[i].at] = [i \in DOMAIN asked |-> asked[i]]
    BY <2>1 DEF Candles
  <2>9. [i \in DOMAIN asked |-> asked[i]] = asked
    BY <2>3
  <2> QED
    BY <2>1, <2>7, <2>8, <2>9
<1>5. ASSUME NEW c \in ToSet(Candles(MaxCandles))
      PROVE  c.candle = Total(applied, {i \in DOMAIN applied : Start(applied[i]) = c.at})
  <2>1. PICK asked : asked = Newest(starts, MaxCandles)
    OBVIOUS
  <2>2. ToSet(asked) \subseteq ToSet(starts)
    BY <1>1, <1>3, <2>1 DEF IsTop
  <2>3. PICK i \in DOMAIN asked : c = [at |-> asked[i], candle |-> buckets[asked[i]]]
    BY <2>1 DEF Candles, ToSet
  <2>4. asked[i] \in ToSet(starts)
    BY <2>2 DEF ToSet
  <2>5. c.at \in ToSet(starts) /\ c.candle = buckets[c.at]
    BY <2>3, <2>4
  <2> QED
    BY <1>1, <2>5 DEF ArrivedIn
<1> QED
  BY <1>4, <1>5 DEF CandlesOfArrivals, CandlesNewest, CandlesComplete

\* In whatever order trades arrive, and whatever the limit deleted meanwhile, the candles
\* answered are those of the newest intervals that had trades, each of all of its trades
\* (readmodel.go:210, 421).
THEOREM CandlesAreOfArrivals == Spec => []CandlesOfArrivals
<1>1. Init => CandleInv
  BY CandleInit
<1>2. TypeOK /\ CandleInv /\ [Next]_vars => CandleInv'
  BY CandleNext
<1>3. TypeOK /\ CandleInv => CandlesOfArrivals
  BY CandlesFromInv
<1> QED
  BY <1>1, <1>2, <1>3, WindowTypeCorrect, PTL DEF Spec

----------------------------------------------------------------------------
(* The window *)

\* w lists ts from behind its first k up to the n-th.
IsPart(w, ts, k, n) == Len(w) = n - k /\ \A i \in 1..(n - k) : w[i] = ts[k + i]

\* Trades are executed one after the other.
InTime ==
  /\ \A i, j \in DOMAIN executed : i < j => executed[i].at <= executed[j].at
  /\ \A i \in DOMAIN executed : executed[i].at <= now

\* The window is what arrived without the first k, and those expired.
DayFrom(k) ==
  /\ IsPart(window, applied, k, Len(applied))
  /\ \A i \in 1..k : Expired(applied[i], now)

\* What the window and recent are of the arrivals; they are the stream as long as no ack
\* was lost.
WindowInv ==
  /\ InTime
  /\ \E k \in 0..Len(applied) : DayFrom(k)
  /\ recent = IF applied = <<>> THEN Nothing ELSE <<applied[Len(applied)]>>
  /\ lost = 0 => /\ unacked = {}
                 /\ Len(applied) = pos
                 /\ \A i \in 1..pos : applied[i] = executed[i]

\* What expired stays expired.
LEMMA ExpiredStays ==
  ASSUME NEW t \in Trade, NEW a \in Nat, NEW b \in Nat, a <= b, Expired(t, a)
  PROVE  Expired(t, b)
<1>1. t.at + Window \in Nat
  BY Constants DEF Trade
<1> QED
  BY <1>1 DEF Expired

\* What pruning leaves of a part is a part: what it takes is expired, and it stops in
\* front of one that is not.
LEMMA PrunedPart ==
  ASSUME NEW ts \in Seq(Trade), NEW n \in 0..Len(ts), NEW k \in 0..n,
         NEW w \in Seq(Trade), IsPart(w, ts, k, n),
         NEW ref \in Nat
  PROVE  \E m \in k..n : /\ IsPart(Pruned(w, ref), ts, m, n)
                         /\ \A i \in (k + 1)..m : Expired(ts[i], ref)
                         /\ m < n => ~ Expired(ts[m + 1], ref)
<1>1. n \in Nat /\ k \in Nat /\ k <= n /\ Len(w) = n - k
      /\ \A i \in 1..(n - k) : w[i] = ts[k + i]
  BY DEF IsPart
<1>2. PICK d \in 0..(n - k) :
        /\ Pruned(w, ref) = SubSeq(w, d + 1, Len(w))
        /\ \A i \in 1..d : Expired(w[i], ref)
        /\ d < n - k => ~ Expired(w[d + 1], ref)
  BY <1>1, PrunedIs
<1>3. PICK v : v = Pruned(w, ref)
  OBVIOUS
<1>4. Len(v) = n - k - d /\ \A i \in 1..(n - k - d) : d + i \in 1..(n - k) /\ v[i] = w[d + i]
  <2>1. d \in 0..Len(w)
    BY <1>1
  <2>2. /\ Len(SubSeq(w, d + 1, Len(w))) = Len(w) - d
        /\ \A i \in 1..(Len(w) - d) :
             d + i \in 1..Len(w) /\ SubSeq(w, d + 1, Len(w))[i] = w[d + i]
    BY <2>1, WithoutFirst
  <2> QED
    BY <1>1, <1>2, <1>3, <2>2
<1>5. k + d \in k..n /\ n - (k + d) = n - k - d
  BY <1>1
<1>6. IsPart(v, ts, k + d, n)
  <2>1. ASSUME NEW i \in 1..(n - (k + d)) PROVE v[i] = ts[k + d + i]
    <3>1. v[i] = w[d + i] /\ d + i \in 1..(n - k) /\ k + (d + i) = k + d + i
      BY <1>1, <1>4, <1>5
    <3>2. w[d + i] = ts[k + (d + i)]
      BY <1>1, <3>1
    <3> QED
      BY <3>1, <3>2
  <2> QED
    BY <1>4, <1>5, <2>1 DEF IsPart
<1>7. ASSUME NEW i \in (k + 1)..(k + d) PROVE Expired(ts[i], ref)
  <2>1. i - k \in 1..d /\ i - k \in 1..(n - k) /\ k + (i - k) = i
    BY <1>1
  <2>2. Expired(w[i - k], ref) /\ w[i - k] = ts[k + (i - k)]
    BY <1>1, <1>2, <2>1
  <2> QED
    BY <2>1, <2>2
<1>8. ASSUME k + d < n PROVE ~ Expired(ts[k + d + 1], ref)
  <2>1. d < n - k /\ d + 1 \in 1..(n - k) /\ k + (d + 1) = k + d + 1
    BY <1>1, <1>8
  <2>2. w[d + 1] = ts[k + (d + 1)]
    BY <1>1, <2>1
  <2> QED
    BY <1>2, <2>1, <2>2
<1> QED
  BY <1>3, <1>5, <1>6, <1>7, <1>8

\* The clock and the executions keep the order of the times.
LEMMA InTimeStep == ASSUME TypeOK, InTime, [Next]_vars PROVE InTime'
<1>1. /\ now \in Nat /\ executed \in Seq(Trade)
      /\ \A i \in DOMAIN executed : executed[i].at \in Nat
  <2>1. \A t \in Trade : t.at \in Nat
    BY Constants DEF Trade
  <2>2. now \in Nat /\ executed \in Seq(Trade)
    BY Constants DEF TypeOK
  <2> QED
    BY <2>1, <2>2
<1>2. CASE Tick
  <2>1. executed' = executed /\ now' = now + 1
    BY <1>2 DEF Tick
  <2> QED
    BY <1>1, <2>1 DEF InTime
<1>3. ASSUME NEW p \in Prices, NEW q \in Quantities, Execute(p, q) PROVE InTime'
  <2>1. PICK t : t = [price |-> p, qty |-> q, at |-> now]
    OBVIOUS
  <2>2. t \in Trade /\ t.at = now
    BY <2>1 DEF TypeOK, Trade
  <2>3. executed' = Append(executed, t) /\ now' = now
    BY <1>3, <2>1 DEF Execute
  <2>4. PICK us, n :
          /\ us = Append(executed, t) /\ n = Len(executed) + 1
          /\ us \in Seq(Trade) /\ DOMAIN us = DOMAIN executed \cup {n}
          /\ n \notin DOMAIN executed /\ n \in Nat /\ us[n] = t
          /\ \A i \in DOMAIN executed : us[i] = executed[i] /\ i < n /\ i \in Nat
          /\ t.qty \in Nat /\ t.price \in Nat
    BY <1>1, <2>2, OneMore
  <2>5. ASSUME NEW i \in DOMAIN us PROVE us[i].at <= now
    BY <1>1, <2>2, <2>4 DEF InTime
  <2>6. ASSUME NEW i \in DOMAIN us, NEW j \in DOMAIN us, i < j PROVE us[i].at <= us[j].at
    <3>1. CASE j = n
      BY <2>2, <2>4, <2>5, <3>1
    <3>2. CASE j # n
      <4>1. i \in DOMAIN executed /\ j \in DOMAIN executed
        BY <2>4, <2>6, <3>2
      <4> QED
        BY <2>4, <2>6, <4>1 DEF InTime
    <3> QED
      BY <3>1, <3>2
  <2> QED
    BY <2>3, <2>4, <2>5, <2>6 DEF InTime
<1>4. CASE Receive \/ Redeliver \/ TickerSummary \/ UNCHANGED vars
  <2>1. executed' = executed /\ now' = now
    BY <1>4 DEF Receive, Redeliver, TickerSummary, vars, tapeVars
  <2> QED
    BY <2>1 DEF InTime
<1> QED
  BY <1>2, <1>3, <1>4 DEF Next

\* A trade that arrives, however late, is the new end of the window, and what is pruned
\* for it is expired by now.
LEMMA ArrivalStep ==
  ASSUME TypeOK, WindowInv, NEW t \in Trade, ApplyTradeEvent(t), t.at <= now, now' = now
  PROVE  /\ \E k \in 0..Len(applied') : DayFrom(k)'
         /\ recent' = IF applied' = <<>> THEN Nothing ELSE <<applied'[Len(applied')]>>
<1>1. /\ now \in Nat /\ t.at \in Nat /\ window \in Seq(Trade) /\ applied \in Seq(Trade)
      /\ Len(applied) \in Nat
  BY Constants DEF TypeOK, Trade
<1>2. PICK k \in 0..Len(applied) : DayFrom(k)
  BY DEF WindowInv
<1>3. PICK ts, ws, n : /\ ts = Append(applied, t) /\ ws = Append(window, t)
                       /\ n = Len(applied) + 1
  OBVIOUS
<1>4. /\ ts \in Seq(Trade) /\ Len(ts) = n /\ ts[n] = t /\ DOMAIN ts = 1..n
      /\ \A i \in 1..Len(applied) : ts[i] = applied[i]
  BY <1>1, <1>3
<1>5. applied' = ts /\ recent' = <<t>> /\ window' = Pruned(ws, t.at)
  BY <1>3 DEF ApplyTradeEvent
<1>6. ws \in Seq(Trade) /\ IsPart(ws, ts, k, n)
  <2>1. /\ Len(window) = Len(applied) - k
        /\ \A i \in 1..(Len(applied) - k) : window[i] = applied[k + i]
    BY <1>2 DEF DayFrom, IsPart
  <2>2. /\ ws \in Seq(Trade) /\ Len(ws) = Len(applied) - k + 1 /\ ws[Len(applied) - k + 1] = t
        /\ \A i \in 1..(Len(applied) - k) : ws[i] = window[i]
    BY <1>1, <1>3, <2>1
  <2>3. Len(applied) - k + 1 = n - k /\ k + (Len(applied) - k + 1) = n
    BY <1>1, <1>3
  <2>4. \A i \in 1..(n - k) : \/ i \in 1..(Len(applied) - k) /\ k + i \in 1..Len(applied)
                              \/ i = Len(applied) - k + 1
    <3>1. PICK l : l = Len(applied)
      OBVIOUS
    <3>2. l \in Nat /\ k \in 0..l /\ n = l + 1
      BY <1>1, <1>3, <3>1
    <3>3. \A i \in 1..(n - k) : (i \in 1..(l - k) /\ k + i \in 1..l) \/ i = l - k + 1
      BY <3>2
    <3> QED
      BY <3>1, <3>3
  <2>5. \A i \in 1..(n - k) : ws[i] = ts[k + i]
    BY <1>4, <2>1, <2>2, <2>3, <2>4
  <2> QED
    BY <2>2, <2>3, <2>5 DEF IsPart
<1>7. PICK m \in k..n : /\ IsPart(Pruned(ws, t.at), ts, m, n)
                        /\ \A i \in (k + 1)..m : Expired(ts[i], t.at)
  <2>1. PICK ref : ref = t.at
    OBVIOUS
  <2>2. n \in 0..Len(ts) /\ k \in 0..n /\ ref \in Nat
    BY <1>1, <1>3, <1>4, <2>1
  <2>3. \E m \in k..n : /\ IsPart(Pruned(ws, ref), ts, m, n)
                        /\ \A i \in (k + 1)..m : Expired(ts[i], ref)
                        /\ m < n => ~ Expired(ts[m + 1], ref)
    BY <1>4, <1>6, <2>2, PrunedPart
  <2> QED
    BY <2>1, <2>3
<1>8. m \in 0..n /\ m \in Nat /\ k \in Nat /\ n \in Nat /\ m <= n
  <2>1. n \in Nat /\ k \in 0..n
    BY <1>1, <1>3
  <2> QED
    BY <2>1
<1>9. ASSUME NEW i \in 1..m PROVE Expired(ts[i], now)
  <2>1. CASE i <= k
    <3>1. i \in 1..k /\ i \in 1..Len(applied)
      BY <1>1, <2>1
    <3>2. Expired(applied[i], now)
      BY <1>2, <3>1 DEF DayFrom
    <3> QED
      BY <1>4, <3>1, <3>2
  <2>2. CASE i > k
    <3>0. i \in (k + 1)..m /\ i \in 1..n
      BY <1>8, <2>2
    <3>1. i \in (k + 1)..m /\ ts[i] \in Trade
      <4>1. \A j \in DOMAIN ts : ts[j] \in Trade
        BY <1>4
      <4> QED
        BY <1>4, <3>0, <4>1
    <3> QED
      BY <1>1, <1>7, <3>1, ExpiredStays
  <2>3. i <= k \/ i > k
    BY <1>8
  <2> QED
    BY <2>1, <2>2, <2>3
<1>10. DayFrom(m)'
  BY <1>4, <1>5, <1>7, <1>9 DEF DayFrom
<1>11. ts # <<>>
  BY <1>1, <1>3, <1>4
<1> QED
  BY <1>4, <1>5, <1>8, <1>10, <1>11

\* At the start nothing arrived.
LEMMA WindowInit == ASSUME Init PROVE WindowInv
<1>1. /\ now = 0 /\ executed = <<>> /\ pos = 0 /\ unacked = {} /\ recent = Nothing
      /\ window = <<>> /\ applied = <<>> /\ DOMAIN executed = {}
      /\ Len(window) = 0 /\ Len(applied) = 0
  BY DEF Init
<1>2. DayFrom(0)
  BY <1>1 DEF DayFrom, IsPart
<1> QED
  BY <1>1, <1>2 DEF WindowInv, InTime

\* Every step keeps the window what it is.
LEMMA WindowStep == ASSUME TypeOK, WindowInv, [Next]_vars PROVE WindowInv'
<1>1. InTime /\ InTime'
  BY InTimeStep DEF WindowInv
<1>2. /\ now \in Nat /\ executed \in Seq(Trade) /\ pos \in 0..Len(executed) /\ pos \in Nat
      /\ lost \in Nat /\ window \in Seq(Trade)
      /\ \A i \in DOMAIN executed : executed[i] \in Trade
      /\ DOMAIN executed = 1..Len(executed) /\ Len(executed) \in Nat
      /\ applied \in Seq(Trade) /\ Len(applied) \in Nat
      /\ DOMAIN applied = 1..Len(applied) /\ \A i \in DOMAIN applied : applied[i] \in Trade
  BY Constants DEF TypeOK
<1>3. /\ recent = IF applied = <<>> THEN Nothing ELSE <<applied[Len(applied)]>>
      /\ lost = 0 => /\ unacked = {}
                     /\ Len(applied) = pos
                     /\ \A i \in 1..pos : applied[i] = executed[i]
  BY DEF WindowInv
<1>4. PICK k \in 0..Len(applied) : DayFrom(k)
  BY DEF WindowInv
<1>5. CASE Tick
  <2>1. UNCHANGED <<executed, pos, unacked, lost, applied, recent, window>> /\ now' = now + 1
    BY <1>5 DEF Tick, subVars, modelVars
  <2>2. ASSUME NEW i \in 1..k PROVE Expired(applied[i], now + 1)
    <3>1. applied[i] \in Trade /\ now + 1 \in Nat /\ now <= now + 1 /\ Expired(applied[i], now)
      BY <1>2, <1>4 DEF DayFrom
    <3> QED
      BY <1>2, <3>1, ExpiredStays
  <2>3. DayFrom(k)'
    BY <1>4, <2>1, <2>2 DEF DayFrom
  <2> QED
    BY <1>1, <1>3, <2>1, <2>3 DEF WindowInv
<1>6. ASSUME NEW p \in Prices, NEW q \in Quantities, Execute(p, q) PROVE WindowInv'
  <2>1. UNCHANGED <<now, pos, unacked, lost, applied, recent, window>>
    BY <1>6 DEF Execute, subVars, modelVars
  <2>2. \A i \in 1..pos : executed'[i] = executed[i]
    BY <1>2, <1>6 DEF Execute
  <2>3. DayFrom(k)'
    BY <1>4, <2>1 DEF DayFrom
  <2> QED
    BY <1>1, <1>3, <2>1, <2>2, <2>3 DEF WindowInv
<1>7. CASE Receive
  <2>1. PICK t : t = executed[pos + 1]
    OBVIOUS
  <2>2. /\ pos + 1 \in DOMAIN executed /\ pos' = pos + 1 /\ executed' = executed /\ now' = now
        /\ ApplyTradeEvent(t)
    BY <1>2, <1>7, <2>1 DEF Receive, tapeVars
  <2>3. t \in Trade /\ t.at <= now
    BY <1>1, <1>2, <2>1, <2>2 DEF InTime
  <2>4. /\ \E j \in 0..Len(applied') : DayFrom(j)'
        /\ recent' = IF applied' = <<>> THEN Nothing ELSE <<applied'[Len(applied')]>>
    BY <2>2, <2>3, ArrivalStep
  <2>5. ASSUME lost' = 0
        PROVE  /\ unacked' = {}
               /\ Len(applied') = pos'
               /\ \A i \in 1..pos' : applied'[i] = executed'[i]
    <3>1. lost = 0 /\ unacked' = unacked
      BY <1>2, <1>7, <2>5 DEF Receive
    <3>2. applied' = Append(applied, t)
      BY <2>2 DEF ApplyTradeEvent
    <3>3. /\ Len(applied') = pos + 1 /\ applied'[pos + 1] = t
          /\ \A i \in 1..pos : applied'[i] = applied[i]
      BY <1>2, <1>3, <3>1, <3>2
    <3>4. \A i \in 1..(pos + 1) : i \in 1..pos \/ i = pos + 1
      BY <1>2
    <3> QED
      BY <1>3, <2>1, <2>2, <3>1, <3>3, <3>4
  <2> QED
    BY <1>1, <2>4, <2>5 DEF WindowInv
<1>8. CASE Redeliver
  <2>1. PICK i \in unacked : ApplyTradeEvent(executed[i])
    BY <1>8 DEF Redeliver
  <2>2. executed' = executed /\ now' = now /\ lost' = lost
    BY <1>8 DEF Redeliver, tapeVars
  <2>3. i \in DOMAIN executed
    BY <1>2 DEF TypeOK
  <2>4. executed[i] \in Trade /\ executed[i].at <= now
    BY <1>1, <1>2, <2>3 DEF InTime
  <2>5. /\ \E j \in 0..Len(applied') : DayFrom(j)'
        /\ recent' = IF applied' = <<>> THEN Nothing ELSE <<applied'[Len(applied')]>>
    BY <2>1, <2>2, <2>4, ArrivalStep
  <2>6. lost' # 0
    BY <1>3, <2>1, <2>2
  <2> QED
    BY <1>1, <2>5, <2>6 DEF WindowInv
<1>9. CASE TickerSummary
  <2>1. /\ UNCHANGED <<now, executed, pos, unacked, lost, applied, recent>>
        /\ window' = Pruned(window, now)
    BY <1>9 DEF TickerSummary, tapeVars, subVars
  <2>2. PICK n : n = Len(applied)
    OBVIOUS
  <2>3. n \in 0..Len(applied) /\ k \in 0..n /\ IsPart(window, applied, k, n)
    BY <1>2, <1>4, <2>2 DEF DayFrom
  <2>4. PICK m \in k..n : /\ IsPart(Pruned(window, now), applied, m, n)
                          /\ \A i \in (k + 1)..m : Expired(applied[i], now)
    <3>1. \E m \in k..n : /\ IsPart(Pruned(window, now), applied, m, n)
                          /\ \A i \in (k + 1)..m : Expired(applied[i], now)
                          /\ m < n => ~ Expired(applied[m + 1], now)
      BY <1>2, <2>3, PrunedPart
    <3> QED
      BY <3>1
  <2>5. m \in 0..n /\ \A i \in 1..m : i \in 1..k \/ i \in (k + 1)..m
    BY <1>2, <2>2
  <2>6. \A i \in 1..m : Expired(applied[i], now)
    BY <1>4, <2>4, <2>5 DEF DayFrom
  <2>7. DayFrom(m)'
    BY <2>1, <2>2, <2>4, <2>6 DEF DayFrom
  <2> QED
    BY <1>1, <1>3, <2>1, <2>2, <2>5, <2>7 DEF WindowInv
<1>10. CASE UNCHANGED vars
  <2>1. UNCHANGED <<now, executed, pos, unacked, lost, applied, recent, window>>
    BY <1>10 DEF vars, tapeVars, subVars, modelVars
  <2>2. DayFrom(k)'
    BY <1>4, <2>1 DEF DayFrom
  <2> QED
    BY <1>1, <1>3, <1>4, <2>1, <2>2 DEF WindowInv
<1> QED
  BY <1>5, <1>6, <1>7, <1>8, <1>9, <1>10 DEF Next

\* So the lists agree and the day is kept.
LEMMA KeepsDayFromInv == ASSUME TypeOK, WindowInv PROVE WindowKeepsDay
<1>1. window \in Seq(Trade) /\ applied \in Seq(Trade)
  BY DEF TypeOK
<1>2. PICK n : n = Len(applied)
  OBVIOUS
<1>3. PICK k \in 0..n : DayFrom(k)
  BY <1>2 DEF WindowInv
<1>4. /\ n \in Nat /\ Len(window) = n - k /\ \A i \in 1..(n - k) : window[i] = applied[k + i]
      /\ \A i \in 1..k : Expired(applied[i], now)
  BY <1>1, <1>2, <1>3 DEF DayFrom, IsPart
<1>5. window = SubSeq(applied, k + 1, n)
  <2>1. PICK v : v = SubSeq(applied, k + 1, Len(applied))
    OBVIOUS
  <2>2. v \in Seq(Trade) /\ Len(v) = Len(applied) - k
    BY <1>1, <1>2, <2>1, WithoutFirst
  <2>3. \A i \in 1..(Len(applied) - k) : v[i] = applied[k + i]
    BY <1>1, <1>2, <2>1, WithoutFirst
  <2>4. window = v
    BY <1>1, <1>2, <1>4, <2>2, <2>3, SeqEqual
  <2> QED
    BY <1>2, <2>1, <2>4
<1>6. ListsAgreeOnLast
  <2> SUFFICES ASSUME window # <<>> PROVE recent # Nothing /\ Last(window) = recent[1]
    BY DEF ListsAgreeOnLast
  <2>1. Len(window) # 0
    BY <1>1
  <2>2. n - k \in 1..(n - k) /\ k + (n - k) = n /\ n # 0
    BY <1>4, <2>1
  <2>3. Last(window) = applied[n]
    BY <1>4, <2>2 DEF Last
  <2>4. applied # <<>>
    BY <1>2, <2>2
  <2>5. recent = <<applied[n]>>
    BY <1>2, <2>4 DEF WindowInv
  <2> QED
    BY <2>3, <2>5 DEF Nothing
<1> QED
  BY <1>2, <1>3, <1>4, <1>5, <1>6 DEF WindowKeepsDay

\* Pruning looks at the front of the list only, by the time of whatever trade arrives or
\* by the clock; still, however late a trade comes again, no trade of the last 24 hours
\* is ever cut, and window and recent agree on the last one (readmodel.go:149, 351).
THEOREM DayIsAlwaysKept == Spec => []WindowKeepsDay
<1>1. Init => WindowInv
  BY WindowInit
<1>2. TypeOK /\ WindowInv /\ [Next]_vars => WindowInv'
  BY WindowStep
<1>3. TypeOK /\ WindowInv => WindowKeepsDay
  BY KeepsDayFromInv
<1> QED
  BY <1>1, <1>2, <1>3, WindowTypeCorrect, PTL DEF Spec

----------------------------------------------------------------------------
(* The ticker summary *)

\* The same numbers at places further on have the same sum.
LEMMA SumShifted ==
  ASSUME NEW n \in Nat, NEW k \in Nat, NEW f, NEW h,
         \A i \in 1..n : f[i] \in Nat /\ h[k + i] = f[i]
  PROVE  Sum(f, 1..n) = Sum(h, (k + 1)..(k + n))
<1> DEFINE G == {m \in 0..n : Sum(f, 1..m) = Sum(h, (k + 1)..(k + m))}
<1>1. 0 \in G
  <2>1. 1..0 = {} /\ (k + 1)..(k + 0) = {}
    OBVIOUS
  <2>2. Sum(f, {}) = 0 /\ Sum(h, {}) = 0
    BY SumOfNothing
  <2> QED
    BY <2>1, <2>2
<1>2. ASSUME NEW m \in 1..n, m - 1 \in G PROVE m \in G
  <2>1. Sum(f, 1..(m - 1)) = Sum(h, (k + 1)..(k + (m - 1)))
    BY <1>2
  <2> DEFINE A == 1..(m - 1)
             B == (k + 1)..(k + (m - 1))
  <2>2. /\ 1..m = A \cup {m} /\ m \notin A
        /\ (k + 1)..(k + m) = B \cup {k + m} /\ k + m \notin B
        /\ f[m] \in Nat /\ h[k + m] = f[m] /\ \A i \in A : f[i] \in Nat
    OBVIOUS
  <2>3. \A j \in B : h[j] \in Nat
    <3> SUFFICES ASSUME NEW j \in B PROVE h[j] \in Nat
      OBVIOUS
    <3>1. j - k \in 1..n /\ k + (j - k) = j
      OBVIOUS
    <3> QED
      BY <3>1
  <2>4. IsFiniteSet(A) /\ IsFiniteSet(B)
    <3>1. 1 \in Int /\ m - 1 \in Int /\ k + 1 \in Int /\ k + (m - 1) \in Int
      OBVIOUS
    <3> QED
      BY <3>1, FS_Interval
  <2> HIDE DEF A, B
  <2>5. Sum(f, A \cup {m}) = f[m] + Sum(f, A)
    BY <2>2, <2>4, SumWith
  <2>6. Sum(h, B \cup {k + m}) = h[k + m] + Sum(h, B)
    BY <2>2, <2>3, <2>4, SumWith
  <2>7. Sum(f, A) = Sum(h, B)
    BY <2>1 DEF A, B
  <2>8. Sum(f, 1..m) = Sum(h, (k + 1)..(k + m))
    BY <2>2, <2>5, <2>6, <2>7
  <2> QED
    BY <2>8
<1> HIDE DEF G
<1>3. 0..n \subseteq G
  BY <1>1, <1>2, CountingUp
<1>4. n \in G
  BY <1>3
<1> QED
  BY <1>4 DEF G

\* The summary of a part is the total of its places.
LEMMA SummaryOfPart ==
  ASSUME NEW ts \in Seq(Trade), NEW n \in 0..Len(ts), NEW m \in 0..n, m < n,
         NEW w \in Seq(Trade), IsPart(w, ts, m, n), NEW last
  PROVE  LET all == Total(ts, (m + 1)..n)
         IN  Summary(last, w) =
               [last |-> last, open |-> all.open, close |-> all.close,
                high |-> all.high, low |-> all.low, volume |-> all.volume]
<1>0. PICK I, l : I = (m + 1)..n /\ l = n - m
  OBVIOUS
<1>1. /\ n \in Nat /\ m \in Nat /\ l \in Nat /\ l > 0 /\ Len(w) = l /\ DOMAIN w = 1..l
      /\ \A i \in 1..l : w[i] = ts[m + i]
  BY <1>0 DEF IsPart
<1>2. I \in SUBSET DOMAIN ts /\ m + 1 \in I /\ n \in I
      /\ \A i \in I : m + 1 <= i /\ i <= n /\ i - m \in 1..l /\ m + (i - m) = i
  BY <1>0, <1>1
<1>3. \A i \in 1..l : m + i \in I
  BY <1>0, <1>1
<1>4. IsFiniteSet(I) /\ I \in SUBSET Nat /\ \A i \in I : ts[i].qty \in Nat
  BY <1>2, PlacesAre
<1>5. w # <<>> /\ Head(w) = ts[Min(I)] /\ Last(w) = ts[Max(I)]
  <2>1. Min(I) = m + 1
    BY <1>2, <1>4, MinIs
  <2>2. Max(I) = n
    BY <1>2, <1>4, MaxIs
  <2>3. 1 \in 1..l /\ l \in 1..l /\ m + l = n
    BY <1>0, <1>1
  <2>4. w[1] = ts[m + 1] /\ w[l] = ts[m + l]
    BY <1>1, <2>3
  <2>5. w # <<>> /\ Head(w) = w[1] /\ Last(w) = w[l]
    BY <1>1 DEF Last
  <2> QED
    BY <2>1, <2>2, <2>3, <2>4, <2>5
<1>6. PricesOf(w) = {ts[i].price : i \in I}
  <2>1. PricesOf(w) = {w[i].price : i \in 1..l}
    BY <1>1 DEF PricesOf
  <2>2. \A i \in 1..l : w[i].price = ts[m + i].price /\ m + i \in I
    BY <1>1, <1>3
  <2>3. \A i \in I : w[i - m].price = ts[i].price /\ i - m \in 1..l
    BY <1>1, <1>2
  <2>4. \A p \in PricesOf(w) : \E i \in I : p = ts[i].price
    BY <2>1, <2>2
  <2>5. \A i \in I : ts[i].price \in PricesOf(w)
    <3> SUFFICES ASSUME NEW i \in I PROVE ts[i].price \in PricesOf(w)
      OBVIOUS
    <3> PICK j \in 1..l : w[j].price = ts[i].price
      BY <2>3
    <3> QED
      BY <2>1
  <2> HIDE DEF PricesOf
  <2> QED
    BY <2>4, <2>5
<1>7. QtySum(w, DOMAIN w) = QtySum(ts, I)
  <2>1. IsFiniteSet(1..l) /\ \A i \in 1..l : w[i].qty \in Nat
    BY <1>1, PlacesAre
  <2>2. QtySum(w, 1..l) = Sum(Qtys(w, 1..l), 1..l)
    BY <2>1, QtySumIs
  <2>3. QtySum(ts, I) = Sum(Qtys(ts, I), I)
    BY <1>4, QtySumIs
  <2>4. PICK f, h : f = Qtys(w, 1..l) /\ h = Qtys(ts, I)
    OBVIOUS
  <2>5. ASSUME NEW i \in 1..l PROVE f[i] \in Nat /\ h[m + i] = f[i]
    <3>1. f[i] = w[i].qty
      BY <2>4 DEF Qtys
    <3>2. h[m + i] = ts[m + i].qty
      BY <1>3, <2>4 DEF Qtys
    <3> QED
      BY <1>1, <2>1, <3>1, <3>2
  <2>6. Sum(f, 1..l) = Sum(h, (m + 1)..(m + l))
    <3>1. l \in Nat /\ m \in Nat /\ \A i \in 1..l : f[i] \in Nat /\ h[m + i] = f[i]
      BY <1>1, <2>5
    <3> QED
      BY <3>1, SumShifted
  <2>7. (m + 1)..(m + l) = I
    BY <1>0, <1>1
  <2> QED
    BY <1>1, <2>2, <2>3, <2>4, <2>6, <2>7
<1>8. Summary(last, w) =
        [last |-> last, open |-> ts[Min(I)].price, close |-> ts[Max(I)].price,
         high |-> Max({ts[i].price : i \in I}), low |-> Min({ts[i].price : i \in I}),
         volume |-> QtySum(ts, I)]
  <2>1. VolumeOf(w) = QtySum(ts, I)
    BY <1>7 DEF VolumeOf, QtySum
  <2> QED
    BY <1>5, <1>6, <2>1 DEF Summary
<1>9. /\ Total(ts, I).open = ts[Min(I)].price /\ Total(ts, I).close = ts[Max(I)].price
      /\ Total(ts, I).high = Max({ts[i].price : i \in I})
      /\ Total(ts, I).low = Min({ts[i].price : i \in I})
      /\ Total(ts, I).volume = QtySum(ts, I)
  BY DEF Total, QtySum
<1> QED
  BY <1>0, <1>8, <1>9

\* The summary is of the day that the invariant says the window is.
LEMMA SummaryStep ==
  ASSUME TypeOK, WindowInv, TickerSummary, lost = 0
  PROVE  AnswersLastDay
<1>1. /\ now \in Nat /\ executed \in Seq(Trade) /\ pos \in 0..Len(executed) /\ pos \in Nat
      /\ window \in Seq(Trade) /\ \A i \in DOMAIN executed : executed[i].at \in Nat
      /\ DOMAIN executed = 1..Len(executed) /\ Len(executed) \in Nat /\ Window \in Nat
  <2>1. \A t \in Trade : t.at \in Nat
    BY Constants DEF Trade
  <2>2. now \in Nat /\ executed \in Seq(Trade)
    BY Constants DEF TypeOK
  <2> QED
    BY <2>1, <2>2, Constants DEF TypeOK
<1>2. /\ InTime /\ Len(applied) = pos /\ \A i \in 1..pos : applied[i] = executed[i]
      /\ recent # Nothing => recent = <<applied[pos]>>
  BY DEF WindowInv
<1>3. PICK k \in 0..pos : /\ IsPart(window, executed, k, pos)
                          /\ \A i \in 1..k : Expired(executed[i], now)
  <2>1. PICK k \in 0..pos : DayFrom(k)
    BY <1>2 DEF WindowInv
  <2>2. (\A i \in 1..k : i \in 1..pos) /\ \A i \in 1..(pos - k) : k + i \in 1..pos
    BY <1>1
  <2>3. \A i \in 1..k : Expired(executed[i], now)
    BY <1>2, <2>1, <2>2 DEF DayFrom
  <2>4. IsPart(window, executed, k, pos)
    BY <1>2, <2>1, <2>2 DEF DayFrom, IsPart
  <2> QED
    BY <2>3, <2>4
<1>4. PICK last, w : last = executed[pos].price /\ w = Pruned(window, now)
  OBVIOUS
<1>5. shown' = Summary(last, w)
  <2>1. recent # Nothing /\ shown' = Summary(recent[1].price, Pruned(window, now))
    BY DEF TickerSummary
  <2>2. pos # 0
    BY <1>1, <1>2, <2>1 DEF WindowInv
  <2>3. recent[1] = executed[pos]
    BY <1>1, <1>2, <2>1, <2>2
  <2> QED
    BY <1>4, <2>1, <2>3
<1>6. PICK m \in k..pos : /\ IsPart(w, executed, m, pos)
                          /\ \A i \in (k + 1)..m : Expired(executed[i], now)
                          /\ m < pos => ~ Expired(executed[m + 1], now)
  BY <1>1, <1>3, <1>4, PrunedPart
<1>7. m \in 0..pos /\ \A i \in 1..m : Expired(executed[i], now)
  <2>1. m \in 0..pos /\ \A i \in 1..m : i \in 1..k \/ i \in (k + 1)..m
    BY <1>1
  <2> QED
    BY <1>3, <1>6, <2>1
<1>8. ASSUME NEW i \in (m + 1)..pos PROVE ~ Expired(executed[i], now)
  <2>1. m < pos /\ m + 1 \in DOMAIN executed /\ i \in DOMAIN executed /\ m + 1 <= i
    BY <1>1
  <2>2. executed[m + 1].at <= executed[i].at
    <3>1. CASE i = m + 1
      BY <1>1, <2>1, <3>1
    <3>2. CASE m + 1 < i
      BY <1>2, <2>1, <3>2 DEF InTime
    <3> QED
      BY <2>1, <3>1, <3>2
  <2>3. executed[m + 1].at \in Nat /\ executed[i].at \in Nat
    BY <1>1, <2>1
  <2> QED
    BY <1>1, <1>6, <2>1, <2>2, <2>3 DEF Expired
<1> DEFINE day == {i \in 1..pos : ~ Expired(executed[i], now)}
<1>9. day = (m + 1)..pos
  <2>1. \A i : i \in 1..pos <=> (i \in 1..m \/ i \in (m + 1)..pos)
    BY <1>1, <1>7
  <2> QED
    BY <1>7, <1>8, <2>1
<1>10. w \in Seq(Trade)
  BY <1>1, <1>4, PrunedType
<1> HIDE DEF day
<1>11. CASE m = pos
  <2>1. day = {}
    BY <1>1, <1>9, <1>11
  <2>2. Len(w) = 0
    BY <1>1, <1>6, <1>11 DEF IsPart
  <2>3. w = <<>>
    BY <1>10, <2>2
  <2> QED
    BY <1>4, <1>5, <2>1, <2>3 DEF AnswersLastDay, Summary, day
<1>12. CASE m < pos
  <2>1. day # {}
    <3>1. pos \in (m + 1)..pos
      BY <1>1, <1>7, <1>12
    <3> QED
      BY <1>9, <3>1
  <2>2. LET all == Total(executed, (m + 1)..pos)
        IN  Summary(last, w) =
              [last |-> last, open |-> all.open, close |-> all.close,
               high |-> all.high, low |-> all.low, volume |-> all.volume]
    BY <1>1, <1>6, <1>7, <1>10, <1>12, SummaryOfPart
  <2>3. Summary(last, w) =
          [last |-> last,
           open |-> Total(executed, day).open, close |-> Total(executed, day).close,
           high |-> Total(executed, day).high, low |-> Total(executed, day).low,
           volume |-> Total(executed, day).volume]
    BY <1>9, <2>2
  <2> QED
    BY <1>4, <1>5, <2>1, <2>3 DEF AnswersLastDay, day
<1> QED
  BY <1>1, <1>7, <1>11, <1>12

\* As long as every ack arrives, the ticker summary answered is that of exactly the
\* trades of the last 24 hours that arrived, though pruning looks at the front of the
\* list only and at different times (readmodel.go:310, 351).
THEOREM SummaryIsTheDay == Spec => SummaryIsOfLastDay
<1>1. Init => WindowInv
  BY WindowInit
<1>2. TypeOK /\ WindowInv /\ [Next]_vars => WindowInv'
  BY WindowStep
<1>3. TypeOK /\ WindowInv => [TickerSummary /\ lost = 0 => AnswersLastDay]_vars
  BY SummaryStep
<1> QED
  BY <1>1, <1>2, <1>3, WindowTypeCorrect, PTL DEF Spec, SummaryIsOfLastDay

=============================================================================
