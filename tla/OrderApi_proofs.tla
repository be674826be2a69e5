-------------------------- MODULE OrderApi_proofs --------------------------
(***************************************************************************)
(* For any texts that requests may carry, any number of decimals and any   *)
(* width of an integer: what order-service accepts and stores, the other   *)
(* service reads as the same number; what either writes, both read again;  *)
(* nobody sees or cancels an order of another user; a list hides only the  *)
(* oldest of what was asked for; a restart would rebuild the book that is  *)
(* there; the order book that is answered is that of the table; and, read  *)
(* as numbers, rows and trades are those of the exchange.                  *)
(*                                                                         *)
(* What a text stands for is a fold over its digits.  The fold is reduced  *)
(* to its steps (Adds) once, and everything about texts follows from the   *)
(* steps by counting up the digits.  A match is a fold over the makers and *)
(* is treated alike: it is the walk of the taker along them, each step of  *)
(* which is a Meet.                                                        *)
(***************************************************************************)
EXTENDS OrderApi, DataLemmas

----------------------------------------------------------------------------
(* Digits *)

\* What the digits stand for, one digit after the other.
Adds(v, digits) == v[0] = 0 /\ \A k \in 1..Len(digits) : v[k] = 10 * v[k - 1] + digits[k]

\* They do go on like that, up to what they stand for.
LEMMA ValuesExist ==
  ASSUME NEW digits \in Seq(Digits)
  PROVE  \E v \in [0..Len(digits) -> Nat] : Adds(v, digits) /\ v[Len(digits)] = ValueOf(digits)
<1> PICK n : n = Len(digits)
  OBVIOUS
<1> DEFINE F == [x \in (1..n) \X Nat |-> 10 * x[2] + digits[x[1]]]
<1>1. n \in Nat /\ DOMAIN digits = 1..n /\ \A i \in 1..n : digits[i] \in Nat
  BY DEF Digits
<1>2. F \in [(1..n) \X Nat -> Nat]
  BY <1>1
<1>3. \A i \in 1..n, m \in Nat : F[<<i, m>>] = 10 * m + digits[i]
  OBVIOUS
<1> HIDE DEF F
<1>4. PICK g : Folds(F, 0, g, n, Nat)
  <2>1. 0 \in Nat
    OBVIOUS
  <2> QED
    BY <1>1, <1>2, <2>1, FoldExists
<1>5. ASSUME NEW s \in SUBSET (1..n)
      PROVE  g[s] = IF s = {} THEN 0 ELSE 10 * g[s \ {Max(s)}] + digits[Max(s)]
  <2>1. CASE s = {}
    BY <1>4, <2>1 DEF Folds, Folded
  <2>2. CASE s # {}
    <3>1. Max(s) \in 1..n
      <4>1. s \in SUBSET (0..n)
        BY <1>1
      <4> QED
        BY <1>1, <2>2, <4>1, GreatestExists
    <3> PICK m : m = Max(s)
      OBVIOUS
    <3>2. g[s \ {m}] \in Nat /\ g[s] = F[<<m, g[s \ {m}]>>]
      BY <1>4, <2>2 DEF Folds, Folded
    <3> QED
      BY <1>3, <2>2, <3>1, <3>2
  <2> QED
    BY <2>1, <2>2
<1> DEFINE Q(h) == h = [s \in SUBSET (1..n) |->
                         IF s = {} THEN 0 ELSE 10 * h[s \ {Max(s)}] + digits[Max(s)]]
<1>6. Q(g)
  <2>1. g = [s \in SUBSET (1..n) |-> g[s]]
    BY <1>4 DEF Folds
  <2> QED
    BY <1>5, <2>1
<1>7. PICK h : h = (CHOOSE x : Q(x))
  OBVIOUS
<1>8. Q(h)
  BY <1>6, <1>7
<1>9. ValueOf(digits) = h[1..n]
  BY <1>1, <1>7 DEF ValueOf, FoldLeft, MapThenFoldSet
<1>10. /\ h[1..0] = 0
       /\ \A k \in 1..n : h[1..k] = 10 * h[1..(k - 1)] + digits[k]
  <2>1. ASSUME NEW s \in SUBSET (1..n)
        PROVE  h[s] = IF s = {} THEN 0 ELSE 10 * h[s \ {Max(s)}] + digits[Max(s)]
    BY <1>8
  <2>2. 1..0 = {} /\ 1..0 \in SUBSET (1..n)
    OBVIOUS
  <2>3. h[1..0] = 0
    BY <2>1, <2>2
  <2>4. ASSUME NEW k \in 1..n PROVE h[1..k] = 10 * h[1..(k - 1)] + digits[k]
    <3>1. /\ k \in Nat \ {0} /\ 1..k \in SUBSET (1..n)
      BY <1>1
    <3>2. Max(1..k) = k /\ (1..k) \ {k} = 1..(k - 1) /\ 1..k # {}
      BY <3>1, LastOne
    <3> QED
      BY <2>1, <3>1, <3>2
  <2> QED
    BY <2>3, <2>4
<1> DEFINE v == [k \in 0..n |-> h[1..k]]
<1>11. \A k \in 0..n : v[k] \in Nat
  <2> DEFINE G == {k \in 0..n : v[k] \in Nat}
  <2>1. 0 \in G
    BY <1>1, <1>10
  <2>2. ASSUME NEW k \in 1..n, k - 1 \in G PROVE k \in G
    <3>1. v[k - 1] \in Nat /\ v[k] = 10 * v[k - 1] + digits[k]
      BY <1>10, <2>2
    <3> QED
      BY <1>1, <3>1
  <2> HIDE DEF G
  <2>3. 0..n \subseteq G
    BY <1>1, <2>1, <2>2, CountingUp
  <2> QED
    BY <2>3 DEF G
<1>12. v \in [0..n -> Nat] /\ Adds(v, digits)
  BY <1>1, <1>10, <1>11 DEF Adds
<1>13. v[n] = ValueOf(digits)
  BY <1>1, <1>9
<1> QED
  BY <1>12, <1>13

\* Whatever goes on like that is what the digits stand for.
LEMMA ValueIs ==
  ASSUME NEW digits \in Seq(Digits), NEW v, Adds(v, digits)
  PROVE  ValueOf(digits) = v[Len(digits)]
<1> PICK n : n = Len(digits)
  OBVIOUS
<1>1. n \in Nat
  OBVIOUS
<1>2. PICK w \in [0..n -> Nat] : Adds(w, digits) /\ w[n] = ValueOf(digits)
  BY ValuesExist
<1> DEFINE G == {k \in 0..n : v[k] = w[k]}
<1>3. 0 \in G
  BY <1>1, <1>2 DEF Adds
<1>4. ASSUME NEW k \in 1..n, k - 1 \in G PROVE k \in G
  <2>1. v[k] = 10 * v[k - 1] + digits[k] /\ w[k] = 10 * w[k - 1] + digits[k]
    BY <1>2 DEF Adds
  <2> QED
    BY <1>4, <2>1
<1> HIDE DEF G
<1>5. 0..n \subseteq G
  BY <1>1, <1>3, <1>4, CountingUp
<1> QED
  BY <1>1, <1>2, <1>5 DEF G

\* Digits stand for a natural number, none of them for 0.
LEMMA ValueType ==
  /\ \A digits \in Seq(Digits) : ValueOf(digits) \in Nat
  /\ ValueOf(<<>>) = 0
<1>1. ASSUME NEW digits \in Seq(Digits) PROVE ValueOf(digits) \in Nat
  <2>1. PICK v \in [0..Len(digits) -> Nat] : v[Len(digits)] = ValueOf(digits)
    BY ValuesExist
  <2>2. Len(digits) \in 0..Len(digits)
    OBVIOUS
  <2> QED
    BY <2>1, <2>2
<1>2. ValueOf(<<>>) = 0
  <2>1. <<>> \in Seq(Digits) /\ Len(<<>>) = 0
    BY EmptySeq
  <2>2. Adds([k \in 0..0 |-> 0], <<>>)
    BY <2>1 DEF Adds
  <2>3. ValueOf(<<>>) = [k \in 0..0 |-> 0][Len(<<>>)]
    BY <2>1, <2>2, ValueIs
  <2> QED
    BY <2>1, <2>3
<1> QED
  BY <1>1, <1>2

\* A digit more behind x times y and z.
TenTimes(x, y, z, u) == 10 * (x * y + z) + u = x * (10 * y) + (10 * z + u)

\* Multiplication distributes.
LEMMA TenTimesIs == \A x, y, z, u \in Nat : TenTimes(x, y, z, u)
BY DEF TenTimes

\* The first powers of ten.
Powers(p, n) ==
  p \in [0..n -> Nat] /\ p[0] = 1 /\ \A k \in 1..n : p[k] = 10 * p[k - 1]

\* Digits behind digits.
LEMMA ValueOfJoined ==
  ASSUME NEW a \in Seq(Digits), NEW b \in Seq(Digits), NEW p, Powers(p, Len(b))
  PROVE  ValueOf(a \o b) = ValueOf(a) * p[Len(b)] + ValueOf(b)
<1> PICK m, n : m = Len(a) /\ n = Len(b)
  OBVIOUS
<1>1. /\ m \in Nat /\ n \in Nat /\ a \o b \in Seq(Digits) /\ Len(a \o b) = m + n
      /\ \A i \in 1..m : (a \o b)[i] = a[i]
      /\ \A i \in 1..n : (a \o b)[m + i] = b[i]
  <2>1. /\ a \o b \in Seq(Digits) /\ Len(a \o b) = m + n
        /\ \A i \in 1..(m + n) : (a \o b)[i] = IF i <= m THEN a[i] ELSE b[i - m]
    BY ConcatProperties
  <2>2. m \in Nat /\ n \in Nat
    OBVIOUS
  <2>3. ASSUME NEW i \in 1..n PROVE (a \o b)[m + i] = b[i]
    <3>1. m + i \in 1..(m + n) /\ ~ (m + i <= m) /\ m + i - m = i
      BY <2>2
    <3> QED
      BY <2>1, <3>1
  <2>4. ASSUME NEW i \in 1..m PROVE (a \o b)[i] = a[i]
    <3>1. i \in 1..(m + n) /\ i <= m
      BY <2>2
    <3> QED
      BY <2>1, <3>1
  <2> QED
    BY <2>1, <2>2, <2>3, <2>4
<1>2. PICK v \in [0..(m + n) -> Nat] : Adds(v, a \o b) /\ v[m + n] = ValueOf(a \o b)
  BY <1>1, ValuesExist
<1>3. PICK w \in [0..n -> Nat] : Adds(w, b) /\ w[n] = ValueOf(b)
  BY ValuesExist
<1>4. \A k \in 1..(m + n) : v[k] = 10 * v[k - 1] + (a \o b)[k]
  BY <1>1, <1>2 DEF Adds
<1>5. v[m] = ValueOf(a)
  <2>1. Adds(v, a)
    BY <1>1, <1>2, <1>4 DEF Adds
  <2> QED
    BY <2>1, ValueIs
<1>6. v[m] \in Nat
  BY <1>1, <1>2
<1>7. ASSUME NEW k \in 1..n, v[m + (k - 1)] = v[m] * p[k - 1] + w[k - 1]
      PROVE  v[m + k] = v[m] * p[k] + w[k]
  <2>1. m + k \in 1..(m + n) /\ m + k - 1 = m + (k - 1) /\ k - 1 \in 0..n
    BY <1>1
  <2>2. v[m + k] = 10 * v[m + (k - 1)] + b[k]
    <3> PICK j \in 1..(m + n) : j = m + k
      BY <2>1
    <3>1. v[j] = 10 * v[j - 1] + (a \o b)[j]
      BY <1>4
    <3>2. (a \o b)[m + k] = b[k]
      BY <1>1
    <3> QED
      BY <2>1, <3>1, <3>2
  <2>3. w[k] = 10 * w[k - 1] + b[k] /\ p[k] = 10 * p[k - 1]
    BY <1>3 DEF Adds, Powers
  <2>4. w[k - 1] \in Nat /\ p[k - 1] \in Nat /\ b[k] \in Nat
    <3>1. b[k] \in Digits
      OBVIOUS
    <3>2. w[k - 1] \in Nat
      BY <2>1
    <3>3. p[k - 1] \in Nat
      BY <2>1 DEF Powers
    <3> QED
      BY <3>1, <3>2, <3>3 DEF Digits
  <2>5. 10 * (v[m] * p[k - 1] + w[k - 1]) + b[k] = v[m] * (10 * p[k - 1]) + (10 * w[k - 1] + b[k])
    <3>1. TenTimes(v[m], p[k - 1], w[k - 1], b[k])
      BY <1>6, <2>4, TenTimesIs
    <3> QED
      BY <3>1 DEF TenTimes
  <2> QED
    BY <1>7, <2>2, <2>3, <2>5
<1> DEFINE G == {k \in 0..n : v[m + k] = v[m] * p[k] + w[k]}
<1>8. 0 \in G /\ \A k \in 1..n : k - 1 \in G => k \in G
  BY <1>1, <1>3, <1>6, <1>7 DEF Adds, Powers
<1> HIDE DEF G
<1>9. 0..n \subseteq G
  BY <1>1, <1>8, CountingUp
<1>10. v[m + n] = v[m] * p[n] + w[n]
  <2>1. n \in G
    BY <1>1, <1>9
  <2> QED
    BY <2>1 DEF G
<1> QED
  BY <1>2, <1>3, <1>5, <1>10

\* The last digit, and the others.
LEMMA DigitOff ==
  ASSUME NEW m \in Nat, NEW p \in Nat, p > 0
  PROVE  m % (10 * p) = 10 * ((m \div 10) % p) + (m % 10)
<1> PICK a, b : a = m \div 10 /\ b = m % 10
  OBVIOUS
<1>1. a \in Nat /\ b \in Nat /\ b < 10 /\ m = 10 * a + b
  BY Division
<1> PICK c, d : c = a \div p /\ d = a % p
  OBVIOUS
<1>2. c \in Nat /\ d \in Nat /\ d < p /\ a = p * c + d
  BY <1>1, Division
<1>3. m = (10 * p) * c + (10 * d + b)
  <2>1. 10 * (p * c + d) + b = (10 * p) * c + (10 * d + b)
    BY <1>1, <1>2
  <2> QED
    BY <1>1, <1>2, <2>1
<1>4. 10 * d + b < 10 * p /\ 10 * d + b \in Nat /\ 10 * p \in Nat /\ 10 * p > 0
  BY <1>1, <1>2
<1>5. m % (10 * p) = 10 * d + b
  BY <1>2, <1>3, <1>4, DivisionIs
<1> QED
  BY <1>5

\* To divide by ten more is to divide once more by ten.
LEMMA DivisionTwice ==
  ASSUME NEW n \in Nat, NEW p \in Nat, p > 0
  PROVE  n \div (10 * p) = (n \div p) \div 10
OBVIOUS

\* What 1 and k zeros stand for.
LEMMA PowerOf ==
  /\ PowerOfTen(0) = 1
  /\ \A k \in Nat : /\ PowerOfTen(k) \in Nat /\ PowerOfTen(k) >= 1
                    /\ PowerOfTen(k + 1) = 10 * PowerOfTen(k)
<1>1. \A k \in Nat : /\ Zeros(k) \in Seq(Digits) /\ Len(Zeros(k)) = k
                     /\ \A i \in 1..k : Zeros(k)[i] = 0
  BY DEF Zeros, Digits
<1>2. <<1>> \in Seq(Digits) /\ Len(<<1>>) = 1 /\ <<1>>[1] = 1
  BY DEF Digits
<1> DEFINE t(k) == <<1>> \o Zeros(k)
<1>3. ASSUME NEW k \in Nat
      PROVE  t(k) \in Seq(Digits) /\ Len(t(k)) = 1 + k /\ t(k)[1] = 1
             /\ \A i \in 2..(1 + k) : t(k)[i] = 0
  <2>1. /\ t(k) \in Seq(Digits) /\ Len(t(k)) = 1 + k
        /\ \A i \in 1..(1 + k) : t(k)[i] = IF i <= 1 THEN <<1>>[i] ELSE Zeros(k)[i - 1]
    BY <1>1, <1>2, ConcatProperties
  <2>2. t(k)[1] = 1
    BY <1>2, <2>1
  <2>3. ASSUME NEW i \in 2..(1 + k) PROVE t(k)[i] = 0
    <3>1. i \in 1..(1 + k) /\ ~ (i <= 1) /\ i - 1 \in 1..k
      OBVIOUS
    <3> QED
      BY <1>1, <2>1, <3>1
  <2> QED
    BY <2>1, <2>2, <2>3
<1> HIDE DEF t
<1>4. \A k \in Nat : PowerOfTen(k) = ValueOf(t(k)) /\ PowerOfTen(k) \in Nat
  BY <1>3, ValueType DEF PowerOfTen, t
<1>5. ASSUME NEW k \in Nat, NEW v \in [0..(1 + k) -> Nat], Adds(v, t(k))
      PROVE  v[0] = 0 /\ v[1] = 1 /\ \A i \in 2..(1 + k) : v[i] = 10 * v[i - 1]
  <2>1. \A i \in 1..(1 + k) : v[i] = 10 * v[i - 1] + t(k)[i]
    BY <1>3, <1>5 DEF Adds
  <2>2. v[0] = 0 /\ v[1] = 10 * v[0] + 1
    <3>1. v[0] = 0
      BY <1>5 DEF Adds
    <3>2. 1 \in 1..(1 + k) /\ 1 - 1 = 0
      OBVIOUS
    <3>3. v[1] = 10 * v[0] + t(k)[1]
      BY <2>1, <3>2
    <3> QED
      BY <1>3, <3>1, <3>3
  <2>3. ASSUME NEW i \in 2..(1 + k) PROVE v[i] = 10 * v[i - 1]
    <3>1. i \in 1..(1 + k) /\ i - 1 \in 0..(1 + k)
      OBVIOUS
    <3>2. v[i] = 10 * v[i - 1] + 0
      BY <1>3, <2>1, <3>1
    <3>3. v[i - 1] \in Nat
      BY <3>1
    <3> QED
      BY <3>2, <3>3
  <2> QED
    BY <2>2, <2>3
<1>6. PowerOfTen(0) = 1
  <2>1. PICK v \in [0..(1 + 0) -> Nat] : Adds(v, t(0)) /\ v[1 + 0] = ValueOf(t(0))
    BY <1>3, ValuesExist
  <2>2. v[1] = 1
    BY <1>5, <2>1
  <2> QED
    BY <1>4, <2>1, <2>2
<1>7. ASSUME NEW k \in Nat PROVE PowerOfTen(k + 1) = 10 * PowerOfTen(k)
  <2>1. k + 1 \in Nat /\ 1 + (k + 1) = k + 2
    OBVIOUS
  <2>2. PICK v \in [0..(1 + (k + 1)) -> Nat] :
               Adds(v, t(k + 1)) /\ v[1 + (k + 1)] = ValueOf(t(k + 1))
    BY <1>3, <2>1, ValuesExist
  <2>3. v[0] = 0 /\ v[1] = 1 /\ \A i \in 2..(1 + (k + 1)) : v[i] = 10 * v[i - 1]
    BY <1>5, <2>1, <2>2
  <2>4. Adds(v, t(k))
    <3>1. ASSUME NEW i \in 1..(1 + k) PROVE v[i] = 10 * v[i - 1] + t(k)[i]
      <4>1. CASE i = 1
        <5>1. i - 1 = 0 /\ t(k)[i] = 1 /\ v[i] = 1 /\ v[i - 1] = 0
          BY <1>3, <2>3, <4>1
        <5> QED
          BY <5>1
      <4>2. CASE i # 1
        <5>1. i \in 2..(1 + (k + 1)) /\ i \in 2..(1 + k) /\ i - 1 \in 0..(1 + (k + 1))
          BY <4>2
        <5>2. t(k)[i] = 0 /\ v[i] = 10 * v[i - 1] /\ v[i - 1] \in Nat
          BY <1>3, <2>3, <5>1
        <5> QED
          BY <5>2
      <4> QED
        BY <4>1, <4>2
    <3> QED
      BY <1>3, <2>3, <3>1 DEF Adds
  <2>5. ValueOf(t(k)) = v[1 + k]
    <3>1. t(k) \in Seq(Digits) /\ Len(t(k)) = 1 + k
      BY <1>3
    <3> QED
      BY <2>4, <3>1, ValueIs
  <2>6. v[k + 2] = 10 * v[k + 1]
    <3>1. k + 2 \in 2..(1 + (k + 1)) /\ k + 2 - 1 = k + 1
      OBVIOUS
    <3>2. v[k + 2] = 10 * v[k + 2 - 1]
      BY <2>3, <3>1
    <3> QED
      BY <3>1, <3>2
  <2> QED
    BY <1>4, <2>1, <2>2, <2>5, <2>6
<1>8. ASSUME NEW k \in Nat PROVE PowerOfTen(k) >= 1
  <2> DEFINE G == {j \in 0..k : PowerOfTen(j) >= 1}
  <2>1. 0 \in G
    BY <1>6
  <2>2. ASSUME NEW j \in 1..k, j - 1 \in G PROVE j \in G
    <3>1. j - 1 \in Nat /\ (j - 1) + 1 = j
      OBVIOUS
    <3>2. PowerOfTen(j) = 10 * PowerOfTen(j - 1) /\ PowerOfTen(j - 1) \in Nat
      BY <1>4, <1>7, <3>1
    <3> QED
      BY <2>2, <3>2
  <2> HIDE DEF G
  <2>3. 0..k \subseteq G
    BY <2>1, <2>2, CountingUp
  <2> QED
    BY <2>3 DEF G
<1> QED
  BY <1>4, <1>6, <1>7, <1>8

\* The powers of ten, for the lemma about digits behind digits.
LEMMA PowersAre ==
  ASSUME NEW n \in Nat
  PROVE  Powers([k \in 0..n |-> PowerOfTen(k)], n)
<1> DEFINE p == [k \in 0..n |-> PowerOfTen(k)]
<1>1. p \in [0..n -> Nat] /\ p[0] = 1
  BY PowerOf
<1>2. ASSUME NEW k \in 1..n PROVE p[k] = 10 * p[k - 1]
  <2>1. k - 1 \in Nat /\ (k - 1) + 1 = k /\ k - 1 \in 0..n /\ k \in 0..n
    OBVIOUS
  <2>2. PowerOfTen(k) = 10 * PowerOfTen(k - 1)
    BY <2>1, PowerOf
  <2> QED
    BY <2>1, <2>2
<1> HIDE DEF p
<1>3. Powers(p, n)
  BY <1>1, <1>2 DEF Powers
<1> QED
  BY <1>3 DEF p

\* Digits behind digits, with the power of ten told.
LEMMA ValueOfBoth ==
  ASSUME NEW a \in Seq(Digits), NEW b \in Seq(Digits)
  PROVE  ValueOf(a \o b) = ValueOf(a) * PowerOfTen(Len(b)) + ValueOf(b)
<1> PICK n \in Nat : n = Len(b)
  OBVIOUS
<1> PICK p : p = [k \in 0..n |-> PowerOfTen(k)]
  OBVIOUS
<1>1. Powers(p, Len(b))
  BY PowersAre
<1>2. ValueOf(a \o b) = ValueOf(a) * p[Len(b)] + ValueOf(b)
  BY <1>1, ValueOfJoined
<1>3. p[Len(b)] = PowerOfTen(Len(b))
  OBVIOUS
<1> QED
  BY <1>2, <1>3

\* The k last digits of n stand for its remainder by the k-th power of ten.
LEMMA DigitsRead ==
  ASSUME NEW n \in Nat, NEW k \in Nat
  PROVE  /\ DigitsOf(n, k) \in Seq(Digits) /\ Len(DigitsOf(n, k)) = k
         /\ ValueOf(DigitsOf(n, k)) = n % PowerOfTen(k)
<1> DEFINE q(j) == n \div PowerOfTen(k - j)
           v == [j \in 0..k |-> q(j) % PowerOfTen(j)]
<1>1. ASSUME NEW j \in 0..k PROVE q(j) \in Nat /\ PowerOfTen(j) \in Nat /\ PowerOfTen(j) > 0
  <2>1. k - j \in Nat /\ j \in Nat
    OBVIOUS
  <2>2. PowerOfTen(k - j) \in Nat /\ PowerOfTen(k - j) > 0 /\ PowerOfTen(j) \in Nat /\ PowerOfTen(j) > 0
    BY <2>1, PowerOf
  <2> QED
    BY <2>2, Division
<1>2. ASSUME NEW j \in 1..k PROVE q(j - 1) = q(j) \div 10
  <2>1. k - j \in Nat /\ k - (j - 1) = (k - j) + 1
    OBVIOUS
  <2>2. PowerOfTen(k - j) \in Nat /\ PowerOfTen(k - j) > 0
    BY <2>1, PowerOf
  <2>3. PowerOfTen(k - (j - 1)) = 10 * PowerOfTen(k - j)
    BY <2>1, PowerOf
  <2> QED
    BY <2>2, <2>3, DivisionTwice
<1>3. DigitsOf(n, k) = [j \in 1..k |-> q(j) % 10]
  BY DEF DigitsOf
<1> HIDE DEF q
<1>4. \A j \in 1..k : q(j) % 10 \in Digits
  <2> SUFFICES ASSUME NEW j \in 1..k PROVE q(j) % 10 \in Digits
    OBVIOUS
  <2>1. q(j) \in Nat
    BY <1>1
  <2>2. q(j) % 10 \in Nat /\ q(j) % 10 < 10
    BY <2>1, Division
  <2> QED
    BY <2>2 DEF Digits
<1>5. DigitsOf(n, k) \in Seq(Digits) /\ Len(DigitsOf(n, k)) = k
  BY <1>3, <1>4
<1>6. Adds(v, DigitsOf(n, k))
  <2>1. v[0] = 0
    <3>1. PowerOfTen(0) = 1 /\ q(0) \in Nat
      BY <1>1, PowerOf
    <3>2. q(0) % 1 \in Nat /\ q(0) % 1 < 1
      BY <3>1, Division
    <3>3. v[0] = q(0) % 1
      BY <3>1
    <3> QED
      BY <3>2, <3>3
  <2>2. ASSUME NEW j \in 1..k PROVE v[j] = 10 * v[j - 1] + DigitsOf(n, k)[j]
    <3>1. j - 1 \in Nat /\ (j - 1) + 1 = j /\ j - 1 \in 0..k /\ j \in 0..k
      OBVIOUS
    <3>2. q(j) \in Nat /\ PowerOfTen(j - 1) \in Nat /\ PowerOfTen(j - 1) > 0
      BY <1>1, <3>1
    <3>3. PowerOfTen(j) = 10 * PowerOfTen(j - 1)
      BY <3>1, PowerOf
    <3>4. q(j) % (10 * PowerOfTen(j - 1)) = 10 * ((q(j) \div 10) % PowerOfTen(j - 1)) + (q(j) % 10)
      BY <3>2, DigitOff
    <3>5. /\ v[j] = q(j) % PowerOfTen(j)
          /\ v[j - 1] = (q(j) \div 10) % PowerOfTen(j - 1)
          /\ DigitsOf(n, k)[j] = q(j) % 10
      BY <1>2, <1>3, <3>1
    <3> HIDE DEF v
    <3> QED
      BY <3>3, <3>4, <3>5
  <2> HIDE DEF v
  <2> QED
    BY <1>5, <2>1, <2>2 DEF Adds
<1>7. v[k] = n % PowerOfTen(k)
  <2>1. q(k) = n
    <3>1. PowerOfTen(k - k) = 1
      BY PowerOf
    <3>2. n = 1 * n + 0 /\ 0 < 1
      OBVIOUS
    <3>3. n \div 1 = n
      BY <3>2, DivisionIs
    <3> QED
      BY <3>1, <3>3 DEF q
  <2> QED
    BY <2>1
<1> HIDE DEF v
<1>8. ValueOf(DigitsOf(n, k)) = v[k]
  BY <1>5, <1>6, ValueIs
<1> QED
  BY <1>5, <1>7, <1>8

\* There are enough digits.
LEMMA LengthIs ==
  ASSUME NEW n \in Nat
  PROVE  Length(n) \in Nat \ {0} /\ n < PowerOfTen(Length(n))
<1> DEFINE B == {k \in 1..(n + 1) : n < PowerOfTen(k)}
<1>1. \A k \in 0..(n + 1) : k < PowerOfTen(k)
  <2> DEFINE G == {k \in 0..(n + 1) : k < PowerOfTen(k)}
  <2>1. 0 \in G
    BY PowerOf
  <2>2. ASSUME NEW k \in 1..(n + 1), k - 1 \in G PROVE k \in G
    <3>1. k - 1 \in Nat /\ (k - 1) + 1 = k
      OBVIOUS
    <3>2. PowerOfTen(k) = 10 * PowerOfTen(k - 1) /\ PowerOfTen(k - 1) \in Nat
      BY <3>1, PowerOf
    <3> QED
      BY <2>2, <3>2
  <2> HIDE DEF G
  <2>3. n + 1 \in Nat
    OBVIOUS
  <2>4. 0..(n + 1) \subseteq G
    BY <2>1, <2>2, <2>3, CountingUp
  <2> QED
    BY <2>4 DEF G
<1>2. n + 1 \in B
  <2>1. n + 1 < PowerOfTen(n + 1) /\ PowerOfTen(n + 1) \in Nat
    BY <1>1, PowerOf
  <2> QED
    BY <2>1
<1>3. B \in SUBSET Nat /\ IsFiniteSet(B)
  <2>1. IsFiniteSet(1..(n + 1)) /\ B \in SUBSET (1..(n + 1)) /\ B \in SUBSET Nat
    BY FS_Interval
  <2> HIDE DEF B
  <2> QED
    BY <2>1, FS_Subset
<1> HIDE DEF B
<1>4. PICK k \in B : \A j \in B : k <= j
  BY <1>2, <1>3, LeastExists
<1>5. k \in 1..(n + 1) /\ n < PowerOfTen(k)
  BY DEF B
<1>6. k = 1 \/ n >= PowerOfTen(k - 1)
  <2> SUFFICES ASSUME k # 1, ~ (n >= PowerOfTen(k - 1)) PROVE FALSE
    OBVIOUS
  <2>1. k - 1 \in 1..(n + 1) /\ PowerOfTen(k - 1) \in Nat
    BY <1>5, PowerOf
  <2>2. k - 1 \in B
    BY <2>1 DEF B
  <2> QED
    BY <1>4, <1>5, <2>2
<1>7. Length(n) \in 1..(n + 1) /\ n < PowerOfTen(Length(n))
  BY <1>5, <1>6 DEF Length
<1> QED
  BY <1>7

\* What is written for a number is read as it.
LEMMA IntRead ==
  ASSUME NEW n \in Nat
  PROVE  FormatInt(n) \in Seq(Digits) /\ FormatInt(n) # <<>> /\ ValueOf(FormatInt(n)) = n
<1> PICK k : k = Length(n)
  OBVIOUS
<1>1. k \in Nat \ {0} /\ n < PowerOfTen(k) /\ PowerOfTen(k) \in Nat
  BY LengthIs, PowerOf
<1>2. /\ DigitsOf(n, k) \in Seq(Digits) /\ Len(DigitsOf(n, k)) = k
      /\ ValueOf(DigitsOf(n, k)) = n % PowerOfTen(k)
  BY <1>1, DigitsRead
<1>3. n % PowerOfTen(k) = n
  BY <1>1
<1>4. DigitsOf(n, k) # <<>>
  BY <1>1, <1>2, EmptySeq
<1> QED
  BY <1>2, <1>3, <1>4 DEF FormatInt

\* What the trimming leaves, and what it takes.
LEMMA TrimmedZeros ==
  ASSUME NEW s \in Seq(Digits)
  PROVE  /\ TrimRight(s) \in Seq(Digits) /\ Len(TrimRight(s)) <= Len(s)
         /\ s = TrimRight(s) \o Zeros(Len(s) - Len(TrimRight(s)))
<1> DEFINE I == {i \in 1..Len(s) : s[i] # 0}
<1> PICK m : m = IF I # {} THEN Max(I) ELSE 0
  OBVIOUS
<1>1. TrimRight(s) = SubSeq(s, 1, m)
  BY DEF TrimRight, SelectLastInSeq
<1>2. Len(s) \in Nat
  OBVIOUS
<1>3. m \in 0..Len(s) /\ \A i \in (m + 1)..Len(s) : s[i] = 0
  <2>1. CASE I = {}
    <3>1. m = 0
      BY <2>1
    <3>2. \A i \in 1..Len(s) : i \notin I
      BY <2>1
    <3> QED
      BY <1>2, <3>1, <3>2
  <2>2. CASE I # {}
    <3>1. I \in SUBSET (0..Len(s))
      BY <1>2
    <3> HIDE DEF I
    <3>2. m \in I /\ \A i \in I : m >= i
      BY <1>2, <2>2, <3>1, GreatestExists
    <3> USE DEF I
    <3>3. m \in 1..Len(s)
      BY <3>2
    <3>4. ASSUME NEW i \in (m + 1)..Len(s) PROVE s[i] = 0
      <4>1. i \in 1..Len(s) /\ ~ (m >= i)
        BY <1>2, <3>3
      <4> QED
        BY <3>2, <4>1
    <3> QED
      BY <1>2, <3>3, <3>4
  <2> QED
    BY <2>1, <2>2
<1> HIDE DEF I
<1>4. \A i \in 1..Len(s) : s[i] \in Digits
  OBVIOUS
<1>5. /\ SubSeq(s, 1, m) \in Seq(Digits) /\ Len(SubSeq(s, 1, m)) = m
      /\ \A i \in 1..m : SubSeq(s, 1, m)[i] = s[i]
  BY <1>2, <1>3, <1>4
<1> PICK t, d : t = SubSeq(s, 1, m) /\ d = Len(s) - m
  OBVIOUS
<1>6. d \in Nat /\ Zeros(d) \in Seq(Digits) /\ Len(Zeros(d)) = d /\ \A i \in 1..d : Zeros(d)[i] = 0
  <2>1. d \in Nat
    BY <1>2, <1>3
  <2> QED
    BY <2>1 DEF Zeros, Digits
<1> PICK z : z = Zeros(d)
  OBVIOUS
<1>12. t \in Seq(Digits) /\ z \in Seq(Digits) /\ Len(t) = m /\ Len(z) = d
  BY <1>5, <1>6
<1>7. /\ t \o Zeros(d) \in Seq(Digits) /\ Len(t \o Zeros(d)) = m + d
      /\ \A i \in 1..(m + d) : (t \o Zeros(d))[i] = IF i <= m THEN t[i] ELSE Zeros(d)[i - m]
  <2>1. /\ t \o z \in Seq(Digits) /\ Len(t \o z) = Len(t) + Len(z)
        /\ \A i \in 1..(Len(t) + Len(z)) : (t \o z)[i] = IF i <= Len(t) THEN t[i] ELSE z[i - Len(t)]
    BY <1>12, ConcatProperties
  <2> QED
    BY <1>12, <2>1, SMTT(30)
<1>8. m + d = Len(s)
  BY <1>2, <1>3
<1>9. ASSUME NEW i \in 1..Len(s) PROVE (t \o Zeros(d))[i] = s[i]
  <2>1. CASE i <= m
    <3>1. i \in 1..m
      BY <1>3, <2>1
    <3> QED
      BY <1>5, <1>7, <1>8, <2>1, <3>1
  <2>2. CASE ~ (i <= m)
    <3>1. i - m \in 1..d /\ i \in (m + 1)..Len(s)
      BY <1>2, <1>3, <2>2
    <3> QED
      BY <1>3, <1>6, <1>7, <1>8, <2>2, <3>1, ZenonT(40)
  <2> QED
    BY <2>1, <2>2
<1>10. s = t \o Zeros(d)
  BY <1>7, <1>8, <1>9, SeqEqual
<1>11. m <= Len(s) /\ TrimRight(s) = t /\ Len(s) - Len(t) = d
  BY <1>1, <1>2, <1>3, <1>12
<1> QED
  BY <1>10, <1>11, <1>12

\* A remainder is its own remainder.
LEMMA RestOfRest ==
  ASSUME NEW n \in Nat, NEW p \in Nat, p > 0
  PROVE  (n % p) % p = n % p
OBVIOUS

\* What is written for a quantity, read as a number of units.
LEMMA QuantityWritten ==
  ASSUME NEW n \in Nat
  PROVE  LET t == FormatQuantityScaled(n)
         IN /\ t \in Texts /\ t.sign = "" /\ ~ t.padded
            /\ t.whole # <<>> /\ ~ (t.point /\ t.frac = <<>>) /\ Len(t.frac) <= Decimals
            /\ Scaled(t) = n
<1> PICK D, P : D = Decimals /\ P = PowerOfTen(Decimals)
  OBVIOUS
<1>1. D \in Nat /\ P \in Nat /\ P > 0
  BY TextAssumption, PowerOf
<1> PICK w, r : w = n \div P /\ r = n % P
  OBVIOUS
<1>2. w \in Nat /\ r \in Nat /\ r < P /\ n = P * w + r
  BY <1>1, Division
<1>10. r % P = r
  BY <1>1, RestOfRest
<1> PICK a : a = FormatInt(w)
  OBVIOUS
<1>3. a \in Seq(Digits) /\ a # <<>> /\ ValueOf(a) = w
  BY <1>2, IntRead
<1>4. FormatQuantityScaled(n) = IF r = 0 THEN Text(a, FALSE, <<>>) ELSE Text(a, TRUE, FormatFrac(r))
  BY DEF FormatQuantityScaled
<1>5. \A k \in Nat : Zeros(k) \in Seq(Digits) /\ Len(Zeros(k)) = k
  BY DEF Zeros, Digits
<1>6. <<>> \in Seq(Digits) /\ Len(<<>>) = 0
  BY EmptySeq
<1>7. ValueOf(Zeros(D)) = 0
  <2>1. DigitsOf(0, D) \in Seq(Digits) /\ Len(DigitsOf(0, D)) = D
        /\ ValueOf(DigitsOf(0, D)) = 0 % P
    BY <1>1, DigitsRead
  <2>2. 0 % P = 0
    <3>1. 0 = P * 0 + 0
      BY <1>1
    <3> QED
      BY <1>1, <3>1, DivisionIs
  <2>3. DigitsOf(0, D) = Zeros(D)
    <3>1. ASSUME NEW i \in 1..D PROVE (0 \div PowerOfTen(D - i)) % 10 = 0
      <4>1. PowerOfTen(D - i) \in Nat /\ PowerOfTen(D - i) > 0
        BY <1>1, PowerOf
      <4>2. 0 = PowerOfTen(D - i) * 0 + 0
        BY <4>1
      <4>3. 0 \div PowerOfTen(D - i) = 0
        BY <4>1, <4>2, DivisionIs
      <4> QED
        BY <4>3
    <3> QED
      BY <3>1 DEF DigitsOf, Zeros
  <2> QED
    BY <2>1, <2>2, <2>3
<1>8. CASE r = 0
  <2> PICK t : t = Text(a, FALSE, <<>>)
    OBVIOUS
  <2>1. /\ t \in Texts /\ t.sign = "" /\ t.padded = FALSE /\ t.whole = a /\ t.point = FALSE
        /\ t.frac = <<>>
    BY <1>3, <1>6 DEF Text, Texts
  <2>2. Scaled(t) = n
    <3>1. a \o <<>> = a /\ D - Len(<<>>) = D
      BY <1>1, <1>3, <1>6, ConcatEmptySeq
    <3>2. Scaled(t) = ValueOf(a \o Zeros(D))
      BY <2>1, <3>1 DEF Scaled
    <3>3. ValueOf(a \o Zeros(D)) = ValueOf(a) * PowerOfTen(Len(Zeros(D))) + ValueOf(Zeros(D))
      BY <1>1, <1>3, <1>5, ValueOfBoth
    <3>4. ValueOf(a \o Zeros(D)) = w * P + 0
      BY <1>1, <1>3, <1>5, <1>7, <3>3
    <3>5. w * P + 0 = P * w + 0
      BY <1>1, <1>2
    <3> QED
      BY <1>2, <1>8, <3>2, <3>4, <3>5
  <2>3. FormatQuantityScaled(n) = t
    BY <1>4, <1>8
  <2>4. Len(t.frac) <= Decimals
    <3>1. Len(<<>>) <= D
      BY <1>1
    <3>2. t.frac = <<>>
      BY <2>1
    <3> QED
      BY <3>1, <3>2, Zenon
  <2> QED
    BY <1>3, <2>1, <2>2, <2>3, <2>4
<1>9. CASE r # 0
  <2> PICK s : s = DigitsOf(r, D)
    OBVIOUS
  <2> PICK f : f = TrimRight(s)
    OBVIOUS
  <2>1. s \in Seq(Digits) /\ Len(s) = D /\ ValueOf(s) = r
    <3>1. s \in Seq(Digits) /\ Len(s) = D /\ ValueOf(s) = r % P
      BY <1>1, <1>2, DigitsRead
    <3>2. r % P = r
      BY <1>10
    <3> QED
      BY <3>1, <3>2
  <2>2. f \in Seq(Digits) /\ Len(f) <= D /\ s = f \o Zeros(D - Len(f))
    BY <2>1, TrimmedZeros
  <2>3. Len(f) \in Nat /\ D - Len(f) \in Nat
    BY <1>1, <2>2
  <2>4. f # <<>>
    <3> SUFFICES ASSUME f = <<>> PROVE FALSE
      OBVIOUS
    <3>1. D - Len(f) = D /\ <<>> \o Zeros(D) = Zeros(D)
      BY <1>1, <1>5, <1>6, ConcatEmptySeq
    <3>2. s = Zeros(D)
      BY <2>2, <3>1
    <3> QED
      BY <1>7, <1>9, <2>1, <3>2
  <2> PICK t : t = Text(a, TRUE, f)
    OBVIOUS
  <2>5. /\ t \in Texts /\ t.sign = "" /\ t.padded = FALSE /\ t.whole = a /\ t.frac = f
    BY <1>3, <2>2 DEF Text, Texts
  <2>6. Scaled(t) = n
    <3>1. Scaled(t) = ValueOf(a \o f \o Zeros(D - Len(f)))
      BY <2>5 DEF Scaled
    <3>2. (a \o f) \o Zeros(D - Len(f)) = a \o s
      <4> PICK z : z = Zeros(D - Len(f))
        OBVIOUS
      <4>1. z \in Seq(Digits) /\ s = f \o z
        BY <1>5, <2>2, <2>3
      <4>2. (a \o f) \o z = a \o (f \o z)
        BY <1>3, <2>2, <4>1, ConcatAssociative, SMTT(30)
      <4> QED
        BY <4>1, <4>2
    <3>3. ValueOf(a \o s) = ValueOf(a) * PowerOfTen(Len(s)) + ValueOf(s)
      BY <1>3, <2>1, ValueOfBoth
    <3>4. ValueOf(a \o s) = w * P + r
      BY <1>3, <2>1, <3>3
    <3>5. w * P + r = P * w + r
      BY <1>1, <1>2
    <3> QED
      BY <1>2, <3>1, <3>2, <3>4, <3>5
  <2>7. FormatQuantityScaled(n) = t
    BY <1>4, <1>9 DEF FormatFrac
  <2> QED
    BY <1>1, <1>3, <2>2, <2>4, <2>5, <2>6, <2>7
<1> QED
  BY <1>8, <1>9

----------------------------------------------------------------------------
(* What is read of rows *)

Errors == {"none", "format", "nonPositive", "overflow"}

\* The texts of a request that is accepted.
Accepted(price, qty) ==
  /\ price \in PriceTexts /\ PriceOf[price].err = "none"
  /\ qty \in QuantityTexts /\ QuantityOf[qty].err = "none"

\* Rows keep the texts they were inserted with.
RowRead(row) == {"price", "qty"} \subseteq DOMAIN row /\ Accepted(row.price, row.qty)

RowsInv ==
  /\ \E S : rows \in Seq(S)
  /\ \A i \in DOMAIN rows : RowRead(rows[i])

----------------------------------------------------------------------------
(* The parsers *)

LEMMA Outcomes ==
  /\ \A n : Number(n).err = "none" /\ Number(n).value = n
  /\ \A e : Failure(e).err = e
BY DEF Number, Failure

LEMMA QuantityOutcomes ==
  ASSUME NEW t
  PROVE  ParseQuantityScaled(t).err \in Errors
BY Outcomes DEF ParseQuantityScaled, Errors

\* marketdata-service accepts every quantity that order-service accepts, and reads the
\* same number.
LEMMA QuantityRead ==
  ASSUME NEW t, ParseQuantityScaled(t).err = "none"
  PROVE  ParseQuantity(t) = ParseQuantityScaled(t)
<1>1. /\ t.sign = "" /\ t.whole # <<>>
      /\ ~ (Len(t.frac) > Decimals)
      /\ ~ (Scaled(t) > MaxInt64)
      /\ ParseQuantityScaled(t) = Number(Scaled(t))
  <2> DEFINE shape   == \/ t.sign # ""
                        \/ t.whole = <<>>
                        \/ t.point /\ t.frac = <<>>
                        \/ Len(t.frac) > Decimals
             large   == Scaled(t) > MaxInt64
             nothing == Scaled(t) = 0
  <2>1. ParseQuantityScaled(t) = IF shape THEN Failure("format")
                               ELSE IF large THEN Failure("overflow")
                               ELSE IF nothing THEN Failure("nonPositive")
                               ELSE Number(Scaled(t))
    BY DEF ParseQuantityScaled
  <2> HIDE DEF shape, large, nothing
  <2>2. ~ shape /\ ~ large /\ ParseQuantityScaled(t) = Number(Scaled(t))
    BY <2>1, Outcomes
  <2> QED
    BY <2>2 DEF shape, large
<1>2. t # [EmptyText EXCEPT !.padded = t.padded]
  <2>1. [EmptyText EXCEPT !.padded = t.padded].whole = <<>>
    BY DEF EmptyText, Text
  <2> QED
    BY <1>1, <2>1
<1>3. ParseQuantity(t) = Number(Scaled(t))
  BY <1>1, <1>2 DEF ParseQuantity
<1> QED
  BY <1>1, <1>3

\* Likewise every price, if there is no space around it.
LEMMA PriceRead ==
  ASSUME NEW t \in PriceTexts, ParsePriceKRWMinor(t).err = "none", ~ t.padded
  PROVE  ParsePrice(t) = ParsePriceKRWMinor(t)
<1> DEFINE n == ParseInt(t.sign, t.whole)
<1>1. ~ t.point /\ n.err = "none" /\ ~ (n.value <= 0) /\ ParsePriceKRWMinor(t) = n
  BY Outcomes DEF ParsePriceKRWMinor
<1>2. n.value \in Int
  <2>1. ValueOf(t.whole) \in Int
    <3>1. t.whole \in Seq(Digits)
      BY ApiAssumption DEF Texts
    <3> QED
      BY <3>1, ValueType
  <2>2. n = Number(IF t.sign = "-" THEN -ValueOf(t.whole) ELSE ValueOf(t.whole))
    BY <1>1, Outcomes DEF ParseInt
  <2> QED
    BY <2>1, <2>2, Outcomes
<1>3. ~ (n.value < 0)
  BY <1>1, <1>2
<1> QED
  BY <1>1, <1>3 DEF ParsePrice

\* What is written for a quantity, order-service reads again.
LEMMA QuantityReadBack ==
  ASSUME NEW n \in 1..MaxInt64
  PROVE  ParseQuantityScaled(FormatQuantityScaled(n)) = Number(n)
<1> PICK t : t = FormatQuantityScaled(n)
  OBVIOUS
<1>1. n \in Nat /\ n # 0 /\ ~ (n > MaxInt64)
  BY TextAssumption
<1>2. /\ t.sign = "" /\ t.whole # <<>> /\ ~ (t.point /\ t.frac = <<>>)
      /\ ~ (Len(t.frac) > Decimals) /\ Scaled(t) = n
  <2>1. /\ t \in Texts /\ t.sign = "" /\ t.whole # <<>> /\ ~ (t.point /\ t.frac = <<>>)
        /\ Len(t.frac) <= Decimals /\ Scaled(t) = n
    BY <1>1, QuantityWritten
  <2> PICK f, e : f = t.frac /\ e = Len(f)
    OBVIOUS
  <2>2. f \in Seq(Digits) /\ e <= Decimals
    BY <2>1 DEF Texts
  <2>3. ~ (e > Decimals)
    <3>1. e \in Nat
      BY <2>2
    <3> QED
      BY <2>2, <3>1, TextAssumption
  <2> QED
    BY <2>1, <2>3
<1> DEFINE shape   == \/ t.sign # ""
                      \/ t.whole = <<>>
                      \/ t.point /\ t.frac = <<>>
                      \/ Len(t.frac) > Decimals
           large   == Scaled(t) > MaxInt64
           nothing == Scaled(t) = 0
<1>3. ~ shape /\ ~ large /\ ~ nothing
  BY <1>1, <1>2
<1>4. ParseQuantityScaled(t) = IF shape THEN Failure("format")
                             ELSE IF large THEN Failure("overflow")
                             ELSE IF nothing THEN Failure("nonPositive")
                             ELSE Number(Scaled(t))
  BY DEF ParseQuantityScaled
<1> HIDE DEF shape, large, nothing
<1> QED
  BY <1>2, <1>3, <1>4

\* What is written for a number, both services read again as a price.
LEMMA PriceReadBack ==
  ASSUME NEW n \in 1..MaxInt64
  PROVE  /\ ParseInt("", FormatInt(n)) = Number(n)
         /\ ParsePrice(FormatPriceKRWMinor(n)) = Number(n)
         /\ ParsePriceKRWMinor(FormatPriceKRWMinor(n)) = Number(n)
<1> PICK a : a = FormatInt(n)
  OBVIOUS
<1>1. n \in Nat /\ n > 0 /\ ~ (n > MaxInt64)
  BY TextAssumption
<1>2. a # <<>> /\ ValueOf(a) = n
  BY <1>1, IntRead
<1>3. ParseInt("", a) = Number(n)
  BY <1>1, <1>2 DEF ParseInt
<1>4. /\ FormatPriceKRWMinor(n).sign = "" /\ FormatPriceKRWMinor(n).whole = a
      /\ ~ FormatPriceKRWMinor(n).padded /\ ~ FormatPriceKRWMinor(n).point
  BY DEF FormatPriceKRWMinor, Text
<1>5. ~ (n <= 0) /\ ~ (n < 0)
  BY <1>1
<1>6. ParsePrice(FormatPriceKRWMinor(n)) = Number(n)
  BY <1>3, <1>4, <1>5, Outcomes DEF ParsePrice
<1>7. ParsePriceKRWMinor(FormatPriceKRWMinor(n)) = Number(n)
  BY <1>3, <1>4, <1>5, Outcomes DEF ParsePriceKRWMinor
<1> QED
  BY <1>3, <1>6, <1>7

\* What is written for a price or a quantity, both services read again as it
\* (numeric.go:97, readmodel.go:465).
THEOREM NumbersSurvive == Spec => []NumbersRoundTrip
<1>1. NumbersRoundTrip
  <2> SUFFICES ASSUME NEW n \in 1..MaxInt64
               PROVE  /\ ParseQuantityScaled(FormatQuantityScaled(n)) = Number(n)
                      /\ ParseQuantity(FormatQuantityScaled(n)) = Number(n)
                      /\ ParsePrice(FormatPriceKRWMinor(n)) = Number(n)
    BY DEF NumbersRoundTrip
  <2>1. ParseQuantityScaled(FormatQuantityScaled(n)) = Number(n)
    BY QuantityReadBack
  <2>2. ParseQuantity(FormatQuantityScaled(n)) = ParseQuantityScaled(FormatQuantityScaled(n))
    BY <2>1, Outcomes, QuantityRead
  <2> QED
    BY <2>1, <2>2, PriceReadBack
<1> QED
  BY <1>1, PTL

----------------------------------------------------------------------------
(* The rows *)

LEMMA OnlyReadable ==
  ASSUME NEW h, NEW price \in PriceTexts, NEW qty \in QuantityTexts,
         CreateAnswer(h, price, qty) = 201
  PROVE  Accepted(price, qty)
<1>1. PriceOf[price].err = "none"
  BY DEF CreateAnswer
<1>2. QuantityOf[qty].err \in Errors
  BY QuantityOutcomes DEF QuantityOf
<1>3. QuantityOf[qty].err \notin {"format", "nonPositive"} /\ QuantityOf[qty].err # "overflow"
  BY DEF CreateAnswer
<1> QED
  BY <1>1, <1>2, <1>3 DEF Accepted, Errors

LEMMA CreateKeeps ==
  ASSUME RowsInv, NEW h, NEW side, NEW price \in PriceTexts, NEW qty \in QuantityTexts,
         CreateOrder(h, side, price, qty)
  PROVE  RowsInv'
<1> DEFINE row == [user |-> UserOf(h), side |-> side, price |-> price, qty |-> qty,
                   rem |-> qty, status |-> "open"]
<1>1. rows' = Append(rows, row) /\ Accepted(price, qty)
  BY OnlyReadable DEF CreateOrder
<1>2. RowRead(row)
  BY <1>1 DEF RowRead
<1> HIDE DEF row
<1>3. PICK S : rows \in Seq(S)
  BY DEF RowsInv
<1>4. rows \in Seq(S \cup {row}) /\ row \in S \cup {row}
  BY <1>3, SeqMonotonic
<1>5. /\ Append(rows, row) \in Seq(S \cup {row})
      /\ \A i \in DOMAIN Append(rows, row) :
           \/ i \in DOMAIN rows /\ Append(rows, row)[i] = rows[i]
           \/ Append(rows, row)[i] = row
  BY <1>4, AppendProperties
<1> QED
  BY <1>1, <1>2, <1>5 DEF RowsInv

\* Matching writes what remains and the status.
LEMMA MatchKeeps ==
  ASSUME RowsInv, MatchOrder
  PROVE  RowsInv'
<1>1. PICK delta : rows' =
        [k \in DOMAIN rows |->
           IF k = matching THEN TakerRow(rows[k], MatchResult(matching))
           ELSE IF delta[k] > 0 THEN MakerRow(rows[k], delta[k])
           ELSE rows[k]]
  <2> WITNESS [k \in DOMAIN rows |-> DeltaOf(MatchResult(matching).fills, k)]
  <2> QED
    BY DEF MatchOrder, MatchedRows
<1>2. DOMAIN rows' = DOMAIN rows
  BY <1>1
<1>3. \A k \in DOMAIN rows : RowRead(rows'[k])
  <2> SUFFICES ASSUME NEW k \in DOMAIN rows PROVE RowRead(rows'[k])
    OBVIOUS
  <2>1. RowRead(rows[k])
    BY DEF RowsInv
  <2>2. RowRead(TakerRow(rows[k], MatchResult(matching)))
    BY <2>1 DEF RowRead, TakerRow
  <2>3. RowRead(MakerRow(rows[k], delta[k]))
    BY <2>1 DEF RowRead, MakerRow
  <2> QED
    BY <1>1, <2>1, <2>2, <2>3
<1>4. PICK S : rows \in Seq(S)
  BY DEF RowsInv
<1>5. DOMAIN rows = 1..Len(rows) /\ Len(rows) \in Nat
  BY <1>4
<1>6. rows' \in Seq({rows'[k] : k \in 1..Len(rows)})
  BY <1>1, <1>5, IsASeq
<1> QED
  BY <1>2, <1>3, <1>6 DEF RowsInv

LEMMA CancelKeeps ==
  ASSUME RowsInv, NEW h, NEW i \in DOMAIN rows, CancelOrder(h, i)
  PROVE  RowsInv'
<1> DEFINE row == [rows[i] EXCEPT !.status = "cancelled"]
<1>1. rows' = [rows EXCEPT ![i] = row]
  BY DEF CancelOrder
<1>2. RowRead(rows[i])
  BY DEF RowsInv
<1>3. RowRead(row)
  BY <1>2 DEF RowRead
<1> HIDE DEF row
<1>4. PICK S : rows \in Seq(S)
  BY DEF RowsInv
<1>5. rows \in Seq(S \cup {row}) /\ row \in S \cup {row}
  BY <1>4, SeqMonotonic
<1>6. rows' \in Seq(S \cup {row})
  BY <1>1, <1>5, ExceptSeq
<1>7. DOMAIN rows' = DOMAIN rows /\ \A k \in DOMAIN rows : rows'[k] \in {row, rows[k]}
  BY <1>1
<1> QED
  BY <1>3, <1>6, <1>7 DEF RowsInv

\* Rows keep readable texts, whatever is asked for, matched and cancelled.
THEOREM RowsInvariant == Spec => []RowsInv
<1>1. Init => RowsInv
  BY EmptySeq DEF Init, RowsInv
<1>2. RowsInv /\ [Next]_vars => RowsInv'
  <2> SUFFICES ASSUME RowsInv, [Next]_vars PROVE RowsInv'
    OBVIOUS
  <2>1. ASSUME NEW h \in Headers, NEW s \in Sides, NEW p \in PriceTexts,
               NEW q \in QuantityTexts, CreateOrder(h, s, p, q)
        PROVE  RowsInv'
    BY <2>1, CreateKeeps
  <2>2. CASE MatchOrder
    BY <2>2, MatchKeeps
  <2>3. ASSUME NEW h \in Headers, NEW i \in DOMAIN rows, CancelOrder(h, i) PROVE RowsInv'
    BY <2>3, CancelKeeps
  <2>4. CASE UNCHANGED vars
    BY <2>4 DEF vars, RowsInv
  <2> QED
    BY <2>1, <2>2, <2>3, <2>4 DEF Next
<1> QED
  BY <1>1, <1>2, PTL DEF Spec

\* Every quantity that was accepted, and every price but one with space around it, is
\* the same number to both services, whatever is asked for, matched and cancelled
\* (numeric.go:25, 49; readmodel.go:454, 465).
THEOREM ReadAlike == Spec => []AcceptedIsRead
<1>1. RowsInv => AcceptedIsRead
  <2> SUFFICES ASSUME RowsInv, NEW i \in DOMAIN rows
               PROVE  LET price == ParsePriceKRWMinor(rows[i].price)
                          qty   == ParseQuantityScaled(rows[i].qty)
                      IN /\ qty.err = "none" /\ ParseQuantity(rows[i].qty) = qty
                         /\ price.err = "none"
                         /\ ~ rows[i].price.padded => ParsePrice(rows[i].price) = price
    BY DEF AcceptedIsRead
  <2>1. Accepted(rows[i].price, rows[i].qty)
    BY DEF RowsInv, RowRead
  <2>2. /\ rows[i].price \in PriceTexts
        /\ ParsePriceKRWMinor(rows[i].price).err = "none"
        /\ ParseQuantityScaled(rows[i].qty).err = "none"
    BY <2>1 DEF Accepted, PriceOf, QuantityOf
  <2> QED
    BY <2>2, QuantityRead, PriceRead
<1> QED
  BY <1>1, RowsInvariant, PTL

----------------------------------------------------------------------------
(* Lists *)

\* Of a set of numbers that is listed downwards, the first n are the n greatest.
LEMMA GreatestFirst ==
  ASSUME NEW S \in SUBSET Nat, IsFiniteSet(S), NEW s, Lists(s, S, Above), NEW n \in Nat
  PROVE  LET shown == ToSet(First(s, n))
         IN /\ shown \subseteq S
            /\ S \ shown # {} => Cardinality(shown) = n
            /\ \A i \in shown, j \in S \ shown : i > j
<1> PICK f : f = First(s, n)
  OBVIOUS
<1> PICK shown : shown = ToSet(f)
  OBVIOUS
<1>1. Lists(s, S, Above) /\ Cardinality(S) \in Nat
  BY FS_CardinalityType
<1>2. s \in [1..Cardinality(S) -> S] /\ \A i, j \in 1..Cardinality(S) : i < j => s[i] > s[j]
  BY <1>1, NumbersAreOrdered DEF Lists
<1>3. \A x \in S : \E i \in 1..Cardinality(S) : s[i] = x
  <2>1. TotalOrder(Above, S)
    BY NumbersAreOrdered
  <2>2. \A x \in S : \E i \in DOMAIN s : s[i] = x
    BY <1>1, <2>1, ListsAll
  <2> QED
    BY <1>2, <2>2
<1> PICK c \in Nat : c = Cardinality(S)
  BY <1>1
<1>4. s \in Seq(S) /\ Len(s) = c
  BY <1>2
<1> PICK m : m = Len(f)
  OBVIOUS
<1>5. /\ m = IF c > n THEN n ELSE c
      /\ f \in Seq(S) /\ DOMAIN f = 1..m
      /\ \A i \in 1..m : i \in 1..c /\ f[i] = s[i]
  BY <1>2, <1>4, FirstOnes
<1>6. m \in Nat
  BY <1>5
<1>7. shown = {f[i] : i \in 1..m} /\ shown \in SUBSET S
  BY <1>5 DEF ToSet
<1>8. ASSUME NEW j \in S \ shown
      PROVE  m = n /\ \A i \in shown : i > j
  <2>1. PICK k \in 1..c : s[k] = j
    BY <1>3
  <2>2. k \notin 1..m
    BY <1>5, <1>7, <2>1
  <2>3. m < k /\ m = n
    BY <1>5, <1>6, <2>2
  <2>4. ASSUME NEW i \in 1..m PROVE f[i] > j
    <3>1. i \in 1..c /\ i < k /\ f[i] = s[i]
      BY <1>5, <1>6, <2>3
    <3> QED
      BY <1>2, <2>1, <3>1
  <2> QED
    BY <1>7, <2>3, <2>4
<1>9. Cardinality(shown) = m
  <2>1. ASSUME NEW i \in 1..m, NEW j \in 1..m, f[i] = f[j] PROVE i = j
    <3>1. i \in 1..c /\ j \in 1..c /\ s[i] = s[j] /\ s[i] \in Nat
      BY <1>2, <1>5, <2>1
    <3>2. ~ (i < j) /\ ~ (j < i)
      BY <1>2, <3>1
    <3> QED
      BY <3>1, <3>2
  <2>2. f \in [1..m -> shown]
    BY <1>5, <1>7
  <2>3. f \in Bijection(1..m, shown)
    BY <1>7, <2>1, <2>2 DEF Bijection, Injection, Surjection, IsInjective
  <2>4. ExistsBijection(1..m, shown)
    BY <2>3 DEF ExistsBijection
  <2> QED
    BY <1>6, <2>4, FS_CountingElements
<1> QED
  BY <1>7, <1>8, <1>9

\* So a list shows the greatest, as many as its limit allows.
LEMMA NewestFirst ==
  ASSUME NEW S \in SUBSET Nat, IsFiniteSet(S), NEW n \in Nat
  PROVE  LET shown == ToSet(First(InOrderOf(S, >), n))
         IN /\ shown \subseteq S
            /\ S \ shown # {} => Cardinality(shown) = n
            /\ \A i \in shown, j \in S \ shown : i > j
BY SortedDown, GreatestFirst, Zenon

\* A limit that is accepted is a positive number.
LEMMA LimitType ==
  ASSUME NEW raw \in Texts, ~ BadLimit(raw)
  PROVE  ListLimit(raw) \in Nat \ {0}
<1> PICK n : n = ParseInt(raw.sign, raw.whole)
  OBVIOUS
<1>1. {DefaultListLimit, MaxListLimit} \subseteq Nat \ {0}
  BY ApiAssumption, TextAssumption
<1>2. n.value \in Nat
  <2>1. CASE raw = EmptyText
    <3>1. raw.whole = <<>>
      BY <2>1 DEF EmptyText, Text
    <3>2. n = Failure("format")
      BY <3>1 DEF ParseInt
    <3> QED
      BY <3>2 DEF Failure
  <2>2. CASE raw # EmptyText
    <3>1. n.err = "none" /\ ~ (n.value < 0)
      BY <2>2 DEF BadLimit
    <3>2. ValueOf(raw.whole) \in Nat
      BY ValueType DEF Texts
    <3>3. n = Number(IF raw.sign = "-" THEN -ValueOf(raw.whole) ELSE ValueOf(raw.whole))
      BY <3>1, Outcomes DEF ParseInt
    <3>4. n.value \in Int
      BY <3>2, <3>3, Outcomes
    <3> QED
      BY <3>1, <3>4
  <2> QED
    BY <2>1, <2>2
<1> QED
  BY <1>1, <1>2 DEF ListLimit

\* What is listed is of those asked for, with none newer left out.
LEMMA ListedOnes ==
  ASSUME RowsInv, NEW user, NEW status, NEW n \in Nat
  PROVE  LET asked == {i \in DOMAIN rows : /\ rows[i].user = user
                                           /\ status \in {AnyStatus, rows[i].status}}
             shown == ToSet(Listed(user, status, n))
         IN /\ shown \subseteq asked
            /\ asked \ shown # {} => Cardinality(shown) = n
            /\ \A i \in shown, j \in asked \ shown : i > j
<1> PICK asked : asked = {i \in DOMAIN rows : /\ rows[i].user = user
                                              /\ status \in {AnyStatus, rows[i].status}}
  OBVIOUS
<1>1. PICK S : rows \in Seq(S)
  BY DEF RowsInv
<1>2. DOMAIN rows = 1..Len(rows) /\ Len(rows) \in Nat
  BY <1>1
<1>3. asked \in SUBSET (1..Len(rows)) /\ asked \in SUBSET Nat
  BY <1>2
<1>4. IsFiniteSet(asked)
  <2>1. IsFiniteSet(1..Len(rows))
    BY <1>2, FS_Interval
  <2> QED
    BY <1>3, <2>1, FS_Subset
<1>5. Listed(user, status, n) = First(InOrderOf(asked, >), n)
  BY DEF Listed
<1> QED
  BY <1>3, <1>4, <1>5, NewestFirst

\* A parameter that is written for a number.
LEMMA ParamIs ==
  ASSUME NEW n \in Nat
  PROVE  Param(n) \in Texts
<1>1. FormatInt(n) \in Seq(Digits)
  BY IntRead
<1>2. <<>> \in Seq(Digits)
  BY EmptySeq
<1> QED
  BY <1>1, <1>2 DEF Param, Text, Texts

\* Who reads an order owns it, and so does who cancels it.
LEMMA OwnersOnly ==
  ASSUME NEW h, NEW i
  PROVE  /\ GetAnswer(h, i) = 200 <=> UserOf(h) # NoUser /\ IsOwn(h, i)
         /\ CancelAnswer(h, i) \in {200, 409} <=> UserOf(h) # NoUser /\ IsOwn(h, i)
<1>1. GetAnswer(h, i) = 200 <=> UserOf(h) # NoUser /\ IsOwn(h, i)
  BY DEF GetAnswer
<1>2. CancelAnswer(h, i) \in {200, 409} <=> UserOf(h) # NoUser /\ IsOwn(h, i)
  <2>1. CASE UserOf(h) = NoUser
    BY <2>1 DEF CancelAnswer
  <2>2. CASE UserOf(h) # NoUser /\ i \notin DOMAIN rows
    BY <2>2 DEF CancelAnswer, IsOwn
  <2>3. CASE UserOf(h) # NoUser /\ i \in DOMAIN rows /\ rows[i].user # UserOf(h)
    BY <2>3 DEF CancelAnswer, IsOwn
  <2>4. CASE UserOf(h) # NoUser /\ i \in DOMAIN rows /\ rows[i].user = UserOf(h)
    BY <2>4 DEF CancelAnswer, IsOwn
  <2> QED
    BY <2>1, <2>2, <2>3, <2>4
<1> QED
  BY <1>1, <1>2

\* Whatever is asked for, by whom, and however it is filtered: a list leaves out only
\* what its limit leaves no room for, and of that the oldest (store.go:184).
THEOREM ListsAreNewest == Spec => []ListHidesOnlyOlder
<1>1. RowsInv => ListHidesOnlyOlder
  <2> SUFFICES ASSUME RowsInv,
                      NEW h \in Users, NEW status \in Statuses \cup {AnyStatus},
                      NEW raw \in ParamTexts,
                      ListAnswer(h, status, raw).code = 200
               PROVE  LET shown == ToSet(ListAnswer(h, status, raw).orders)
                          asked == {i \in DOMAIN rows :
                                      IsOwn(h, i) /\ status \in {AnyStatus, rows[i].status}}
                      IN /\ shown \subseteq asked
                         /\ asked \ shown # {} => Cardinality(shown) = ListLimit(raw)
                         /\ \A i \in shown, j \in asked \ shown : i > j
    BY DEF ListHidesOnlyOlder
  <2>1. ~ BadLimit(raw) /\ ListAnswer(h, status, raw).orders = Listed(UserOf(h), status, ListLimit(raw))
    BY DEF ListAnswer
  <2>2. ListLimit(raw) \in Nat
    BY <2>1, LimitType, ApiAssumption
  <2>3. {i \in DOMAIN rows : IsOwn(h, i) /\ status \in {AnyStatus, rows[i].status}}
          = {i \in DOMAIN rows : rows[i].user = UserOf(h) /\ status \in {AnyStatus, rows[i].status}}
    BY DEF IsOwn
  <2> QED
    BY <2>1, <2>2, <2>3, ListedOnes
<1> QED
  BY <1>1, RowsInvariant, PTL

\* An order is listed, read and cancelled by the same user and nobody else
\* (handler.go:152, 186, 237).
THEOREM OrdersArePrivate == Spec => []OnlyOwnOrders
<1>1. RowsInv => OnlyOwnOrders
  <2> SUFFICES ASSUME RowsInv, NEW h \in Headers, NEW i \in 1..MaxOrders
               PROVE  /\ i \in ToSet(ListAnswer(h, AnyStatus, Param(MaxListLimit)).orders)
                           => GetAnswer(h, i) = 200
                      /\ GetAnswer(h, i) = 200 <=> CancelAnswer(h, i) \in {200, 409}
                      /\ GetAnswer(h, i) = 200 =>
                           \A g \in Headers : UserOf(g) # UserOf(h) => GetAnswer(g, i) # 200
    BY DEF OnlyOwnOrders
  <2> PICK raw : raw = Param(MaxListLimit)
    OBVIOUS
  <2>1. raw \in Texts
    BY ApiAssumption, ParamIs
  <2>2. ASSUME i \in ToSet(ListAnswer(h, AnyStatus, raw).orders) PROVE GetAnswer(h, i) = 200
    <3>1. ToSet(<<>>) = {}
      BY DEF ToSet
    <3>2. ListAnswer(h, AnyStatus, raw).orders # <<>>
      BY <2>2, <3>1
    <3>3. /\ UserOf(h) # NoUser /\ ~ BadLimit(raw)
          /\ ListAnswer(h, AnyStatus, raw).orders = Listed(UserOf(h), AnyStatus, ListLimit(raw))
      BY <3>2 DEF ListAnswer
    <3>4. ListLimit(raw) \in Nat
      BY <2>1, <3>3, LimitType
    <3>5. i \in DOMAIN rows /\ rows[i].user = UserOf(h)
      BY <2>2, <3>3, <3>4, ListedOnes
    <3> QED
      BY <3>3, <3>5, OwnersOnly DEF IsOwn
  <2>3. GetAnswer(h, i) = 200 <=> CancelAnswer(h, i) \in {200, 409}
    BY OwnersOnly
  <2>4. ASSUME GetAnswer(h, i) = 200, NEW g \in Headers, UserOf(g) # UserOf(h)
        PROVE  GetAnswer(g, i) # 200
    BY <2>4, OwnersOnly DEF IsOwn
  <2> QED
    BY <2>2, <2>3, <2>4
<1> QED
  BY <1>1, RowsInvariant, PTL


\* Any text stands for a number of units.
LEMMA ScaledType ==
  ASSUME NEW t \in Texts
  PROVE  Scaled(t) \in Nat
<1> PICK w, f, z : w = t.whole /\ f = t.frac /\ z = Zeros(Decimals - Len(t.frac))
  OBVIOUS
<1>1. w \in Seq(Digits) /\ f \in Seq(Digits)
  BY DEF Texts
<1>2. z \in Seq(Digits)
  <2> PICK k : k = Decimals - Len(f)
    OBVIOUS
  <2>1. k \in Int
    BY <1>1, TextAssumption
  <2>2. z = [i \in 1..k |-> 0]
    BY DEF Zeros
  <2>3. CASE k >= 0
    <3>1. k \in Nat /\ \A i \in 1..k : 0 \in Digits
      BY <2>1, <2>3 DEF Digits
    <3> QED
      BY <2>2, <3>1
  <2>4. CASE k < 0
    <3>1. 1..k = 1..0
      BY <2>1, <2>4
    <3>2. z = Zeros(0)
      BY <2>2, <3>1 DEF Zeros
    <3>3. \A n \in Nat : Zeros(n) \in Seq(Digits)
      BY DEF Zeros, Digits
    <3>4. Zeros(0) \in Seq(Digits)
      BY <3>3
    <3> QED
      BY <3>2, <3>4
  <2> QED
    BY <2>1, <2>3, <2>4
<1>3. w \o f \in Seq(Digits)
  BY <1>1, ConcatProperties
<1>4. w \o f \o z \in Seq(Digits)
  BY <1>2, <1>3, ConcatProperties
<1>5. Scaled(t) = ValueOf(w \o f \o z)
  BY DEF Scaled
<1> QED
  BY <1>4, <1>5, ValueType

----------------------------------------------------------------------------
(* What a match takes *)

Fills   == [maker : DOMAIN book, price : Nat, qty : Nat]
Results == [rem : Nat, fills : Seq(Fills)]

\* What was taken of m, one fill after the other.
Takes(d, fills, m) ==
  d[0] = 0 /\ \A k \in 1..Len(fills) : d[k] = IF fills[k].maker = m THEN d[k - 1] + fills[k].qty
                                                                   ELSE d[k - 1]

\* It does go on like that, up to makerDeltas.
LEMMA TakesExist ==
  ASSUME NEW S, NEW fills \in Seq(S), \A f \in S : f.qty \in Nat, NEW m
  PROVE  \E d \in [0..Len(fills) -> Nat] :
           Takes(d, fills, m) /\ d[Len(fills)] = DeltaOf(fills, m)
<1> PICK n : n = Len(fills)
  OBVIOUS
<1> DEFINE F == [x \in (1..n) \X Nat |->
                   IF fills[x[1]].maker = m THEN x[2] + fills[x[1]].qty ELSE x[2]]
<1>1. n \in Nat /\ DOMAIN fills = 1..n /\ \A i \in 1..n : fills[i].qty \in Nat
  OBVIOUS
<1>2. F \in [(1..n) \X Nat -> Nat]
  BY <1>1
<1>3. \A i \in 1..n, c \in Nat : F[<<i, c>>] = IF fills[i].maker = m THEN c + fills[i].qty ELSE c
  OBVIOUS
<1> HIDE DEF F
<1>4. PICK g : Folds(F, 0, g, n, Nat)
  <2>1. 0 \in Nat
    OBVIOUS
  <2> QED
    BY <1>1, <1>2, <2>1, FoldExists
<1>5. ASSUME NEW s \in SUBSET (1..n)
      PROVE  g[s] = IF s = {} THEN 0
                    ELSE IF fills[Max(s)].maker = m THEN g[s \ {Max(s)}] + fills[Max(s)].qty
                    ELSE g[s \ {Max(s)}]
  <2>1. CASE s = {}
    BY <1>4, <2>1 DEF Folds, Folded
  <2>2. CASE s # {}
    <3>1. Max(s) \in 1..n
      <4>1. s \in SUBSET (0..n)
        BY <1>1
      <4> QED
        BY <1>1, <2>2, <4>1, GreatestExists
    <3> PICK x : x = Max(s)
      OBVIOUS
    <3>2. g[s \ {x}] \in Nat /\ g[s] = F[<<x, g[s \ {x}]>>]
      BY <1>4, <2>2 DEF Folds, Folded
    <3> QED
      BY <1>3, <2>2, <3>1, <3>2
  <2> QED
    BY <2>1, <2>2
<1> DEFINE Q(h) == h = [s \in SUBSET (1..n) |->
                         IF s = {} THEN 0
                         ELSE IF fills[Max(s)].maker = m THEN h[s \ {Max(s)}] + fills[Max(s)].qty
                         ELSE h[s \ {Max(s)}]]
<1>6. Q(g)
  <2>1. g = [s \in SUBSET (1..n) |-> g[s]]
    BY <1>4 DEF Folds
  <2> QED
    BY <1>5, <2>1
<1>7. PICK h : h = (CHOOSE x : Q(x))
  OBVIOUS
<1>8. Q(h)
  BY <1>6, <1>7
<1>9. DeltaOf(fills, m) = h[1..n]
  BY <1>1, <1>7 DEF DeltaOf, FoldLeft, MapThenFoldSet
<1>10. /\ h[1..0] = 0
       /\ \A k \in 1..n : h[1..k] = IF fills[k].maker = m THEN h[1..(k - 1)] + fills[k].qty
                                                          ELSE h[1..(k - 1)]
  <2>1. ASSUME NEW s \in SUBSET (1..n)
        PROVE  h[s] = IF s = {} THEN 0
                      ELSE IF fills[Max(s)].maker = m THEN h[s \ {Max(s)}] + fills[Max(s)].qty
                      ELSE h[s \ {Max(s)}]
    BY <1>8
  <2>2. 1..0 = {} /\ 1..0 \in SUBSET (1..n)
    OBVIOUS
  <2>3. h[1..0] = 0
    BY <2>1, <2>2
  <2>4. ASSUME NEW k \in 1..n
        PROVE  h[1..k] = IF fills[k].maker = m THEN h[1..(k - 1)] + fills[k].qty
                                               ELSE h[1..(k - 1)]
    <3>1. k \in Nat \ {0} /\ 1..k \in SUBSET (1..n)
      BY <1>1
    <3>2. Max(1..k) = k /\ (1..k) \ {k} = 1..(k - 1) /\ 1..k # {}
      BY <3>1, LastOne
    <3> QED
      BY <2>1, <3>1, <3>2
  <2> QED
    BY <2>3, <2>4
<1> DEFINE d == [k \in 0..n |-> h[1..k]]
<1>11. \A k \in 0..n : d[k] \in Nat
  <2> DEFINE G == {k \in 0..n : d[k] \in Nat}
  <2>1. 0 \in G
    BY <1>1, <1>10
  <2>2. ASSUME NEW k \in 1..n, k - 1 \in G PROVE k \in G
    <3>1. d[k - 1] \in Nat /\ d[k] = IF fills[k].maker = m THEN d[k - 1] + fills[k].qty ELSE d[k - 1]
      BY <1>10, <2>2
    <3> QED
      BY <1>1, <3>1
  <2> HIDE DEF G
  <2>3. 0..n \subseteq G
    BY <1>1, <2>1, <2>2, CountingUp
  <2> QED
    BY <2>3 DEF G
<1>12. d \in [0..n -> Nat] /\ Takes(d, fills, m)
  BY <1>1, <1>10, <1>11 DEF Takes
<1>13. d[n] = DeltaOf(fills, m)
  BY <1>1, <1>9
<1> QED
  BY <1>12, <1>13

\* A fill more.
LEMMA DeltaAppended ==
  ASSUME NEW S, NEW fills \in Seq(S), \A f \in S : f.qty \in Nat, NEW m, NEW f \in S
  PROVE  /\ DeltaOf(fills, m) \in Nat
         /\ DeltaOf(Append(fills, f), m) = IF f.maker = m THEN DeltaOf(fills, m) + f.qty
                                                          ELSE DeltaOf(fills, m)
<1> PICK n : n = Len(fills)
  OBVIOUS
<1> PICK more : more = Append(fills, f)
  OBVIOUS
<1>1. /\ n \in Nat /\ more \in Seq(S) /\ Len(more) = n + 1 /\ more[n + 1] = f
      /\ \A i \in 1..n : more[i] = fills[i]
  OBVIOUS
<1>2. PICK d \in [0..n -> Nat] : Takes(d, fills, m) /\ d[n] = DeltaOf(fills, m)
  BY TakesExist
<1>3. PICK e \in [0..(n + 1) -> Nat] : Takes(e, more, m) /\ e[n + 1] = DeltaOf(more, m)
  BY <1>1, TakesExist
<1> DEFINE G == {k \in 0..n : e[k] = d[k]}
<1>4. 0 \in G
  BY <1>1, <1>2, <1>3 DEF Takes
<1>5. ASSUME NEW k \in 1..n, k - 1 \in G PROVE k \in G
  <2>1. d[k] = IF fills[k].maker = m THEN d[k - 1] + fills[k].qty ELSE d[k - 1]
    BY <1>2 DEF Takes
  <2>2. e[k] = IF more[k].maker = m THEN e[k - 1] + more[k].qty ELSE e[k - 1]
    BY <1>1, <1>3 DEF Takes
  <2> QED
    BY <1>1, <1>5, <2>1, <2>2
<1> HIDE DEF G
<1>6. 0..n \subseteq G
  BY <1>1, <1>4, <1>5, CountingUp
<1>7. e[n] = d[n] /\ d[n] \in Nat
  BY <1>1, <1>6 DEF G
<1>8. e[n + 1] = IF f.maker = m THEN e[n] + f.qty ELSE e[n]
  <2>1. n + 1 \in 1..Len(more) /\ (n + 1) - 1 = n
    BY <1>1
  <2>2. e[n + 1] = IF more[n + 1].maker = m THEN e[n + 1 - 1] + more[n + 1].qty ELSE e[n + 1 - 1]
    BY <1>3, <2>1 DEF Takes
  <2> QED
    BY <1>1, <2>1, <2>2
<1> QED
  BY <1>2, <1>3, <1>7, <1>8

\* No fills, nothing taken.
LEMMA DeltaOfNothing == ASSUME NEW m PROVE DeltaOf(<<>>, m) = 0
<1> PICK S : S = {}
  OBVIOUS
<1>1. <<>> \in Seq(S) /\ Len(<<>>) = 0 /\ \A f \in S : f.qty \in Nat
  BY EmptySeq
<1>2. PICK d \in [0..Len(<<>>) -> Nat] :
             Takes(d, <<>>, m) /\ d[Len(<<>>)] = DeltaOf(<<>>, m)
  BY <1>1, TakesExist
<1> QED
  BY <1>1, <1>2 DEF Takes

\* The book, as far as a match needs to know it.
BookType == \A m \in DOMAIN book : book[m].price \in Nat /\ book[m].rem \in Nat

\* What the taker gets of m when c is left of it.
Part(c, m) == IF c < book[m].rem THEN c ELSE book[m].rem

FillOf(m, q) == [maker |-> m, price |-> book[m].price, qty |-> q]

\* A meeting lessens what is left by what it fills.
LEMMA MeetIs ==
  ASSUME BookType, NEW result \in Results, NEW m \in DOMAIN book
  PROVE  LET q == Part(result.rem, m)
         IN /\ q \in Nat /\ q <= result.rem /\ q <= book[m].rem
            /\ Meet(result, m).rem = result.rem - q
            /\ Meet(result, m).fills = IF q = 0 THEN result.fills
                                                ELSE Append(result.fills, FillOf(m, q))
            /\ FillOf(m, q) \in Fills
            /\ Meet(result, m) \in Results
<1> PICK c, b, q : c = result.rem /\ b = book[m].rem /\ q = Part(result.rem, m)
  OBVIOUS
<1>1. c \in Nat /\ b \in Nat /\ book[m].price \in Nat /\ result.fills \in Seq(Fills)
  BY DEF Results, BookType
<1>2. q = (IF c < b THEN c ELSE b) /\ q \in Nat /\ q <= c /\ q <= b
  BY <1>1 DEF Part
<1>3. FillOf(m, q) \in Fills
  BY <1>1, <1>2 DEF FillOf, Fills
<1>4. SafeSubInt64(c, q).value = c - q
  BY <1>1, <1>2, Outcomes DEF SafeSubInt64
<1>5. Meet(result, m) = IF q = 0 THEN result
                        ELSE [rem |-> c - q, fills |-> Append(result.fills, FillOf(m, q))]
  BY <1>2, <1>4 DEF Meet, FillOf
<1>6. CASE q = 0
  <2>1. Meet(result, m) = result
    BY <1>5, <1>6
  <2>2. result.rem - q = result.rem
    BY <1>1, <1>6
  <2> QED
    BY <1>2, <1>3, <1>6, <2>1, <2>2
<1>7. CASE q # 0
  <2> PICK fs : fs = Append(result.fills, FillOf(m, q))
    OBVIOUS
  <2>1. fs \in Seq(Fills)
    BY <1>1, <1>3, AppendProperties
  <2>2. c - q \in Nat
    BY <1>1, <1>2
  <2>3. Meet(result, m) = [rem |-> c - q, fills |-> fs]
    BY <1>5, <1>7
  <2>4. Meet(result, m) \in Results
    BY <2>1, <2>2, <2>3 DEF Results
  <2>5. Meet(result, m).rem = c - q /\ Meet(result, m).fills = Append(result.fills, FillOf(m, q))
    BY <2>3
  <2>6. /\ q \in Nat /\ q <= result.rem /\ q <= book[m].rem
        /\ Meet(result, m).rem = result.rem - q
    BY <1>2, <2>5
  <2>7. Meet(result, m).fills = IF q = 0 THEN result.fills ELSE Append(result.fills, FillOf(m, q))
    BY <1>7, <2>5
  <2> QED
    BY <1>3, <2>4, <2>6, <2>7
<1> QED
  BY <1>6, <1>7

\* The taker's way along the makers.
Meets(r, makers) ==
  r \in [0..Len(makers) -> Results] /\ \A k \in 1..Len(makers) : r[k] = Meet(r[k - 1], makers[k])

\* ProcessNewOrder goes that way.
LEMMA MeetsExist ==
  ASSUME BookType, NEW makers \in Seq(DOMAIN book), NEW base \in Results
  PROVE  \E r : /\ Meets(r, makers) /\ r[0] = base
                /\ r[Len(makers)] = FoldLeft(Meet, base, makers)
<1> PICK n : n = Len(makers)
  OBVIOUS
<1> DEFINE F == [x \in (1..n) \X Results |-> Meet(x[2], makers[x[1]])]
<1>1. n \in Nat /\ DOMAIN makers = 1..n /\ \A i \in 1..n : makers[i] \in DOMAIN book
  OBVIOUS
<1>2. \A i \in 1..n, result \in Results : Meet(result, makers[i]) \in Results
  BY <1>1, MeetIs
<1>3. \A i \in 1..n, result \in Results : F[<<i, result>>] = Meet(result, makers[i])
  OBVIOUS
<1>14. DOMAIN F = (1..n) \X Results /\ F = [x \in (1..n) \X Results |-> F[x]]
  OBVIOUS
<1> HIDE DEF F
<1>4. PICK g : Folds(F, base, g, n, Results)
  <2>1. F \in [(1..n) \X Results -> Results]
    <3>1. \A x \in (1..n) \X Results : F[x] \in Results
      BY <1>2, <1>3
    <3> QED
      BY <1>14, <3>1
  <2> QED
    BY <1>1, <2>1, FoldExists
<1>5. ASSUME NEW s \in SUBSET (1..n)
      PROVE  g[s] = IF s = {} THEN base ELSE Meet(g[s \ {Max(s)}], makers[Max(s)])
  <2>1. CASE s = {}
    BY <1>4, <2>1 DEF Folds, Folded
  <2>2. CASE s # {}
    <3>1. Max(s) \in 1..n
      <4>1. s \in SUBSET (0..n)
        BY <1>1
      <4> QED
        BY <1>1, <2>2, <4>1, GreatestExists
    <3> PICK x : x = Max(s)
      OBVIOUS
    <3>2. g[s \ {x}] \in Results /\ g[s] = F[<<x, g[s \ {x}]>>]
      BY <1>4, <2>2 DEF Folds, Folded
    <3> QED
      BY <1>3, <2>2, <3>1, <3>2
  <2> QED
    BY <2>1, <2>2
<1> DEFINE Q(h) == h = [s \in SUBSET (1..n) |->
                         IF s = {} THEN base ELSE Meet(h[s \ {Max(s)}], makers[Max(s)])]
<1>6. Q(g)
  <2>1. g = [s \in SUBSET (1..n) |-> g[s]]
    BY <1>4 DEF Folds
  <2> QED
    BY <1>5, <2>1
<1>7. PICK h : h = (CHOOSE x : Q(x))
  OBVIOUS
<1>8. Q(h)
  BY <1>6, <1>7
<1>9. FoldLeft(Meet, base, makers) = h[1..n]
  BY <1>1, <1>7 DEF FoldLeft, MapThenFoldSet
<1>10. /\ h[1..0] = base
       /\ \A k \in 1..n : h[1..k] = Meet(h[1..(k - 1)], makers[k])
  <2>1. ASSUME NEW s \in SUBSET (1..n)
        PROVE  h[s] = IF s = {} THEN base ELSE Meet(h[s \ {Max(s)}], makers[Max(s)])
    BY <1>8
  <2>2. 1..0 = {} /\ 1..0 \in SUBSET (1..n)
    OBVIOUS
  <2>3. h[1..0] = base
    BY <2>1, <2>2
  <2>4. ASSUME NEW k \in 1..n PROVE h[1..k] = Meet(h[1..(k - 1)], makers[k])
    <3>1. k \in Nat \ {0} /\ 1..k \in SUBSET (1..n)
      BY <1>1
    <3>2. Max(1..k) = k /\ (1..k) \ {k} = 1..(k - 1) /\ 1..k # {}
      BY <3>1, LastOne
    <3> QED
      BY <2>1, <3>1, <3>2
  <2> QED
    BY <2>3, <2>4
<1> DEFINE r == [k \in 0..n |-> h[1..k]]
<1>11. \A k \in 0..n : r[k] \in Results
  <2> DEFINE G == {k \in 0..n : r[k] \in Results}
  <2>1. 0 \in G
    BY <1>1, <1>10
  <2>2. ASSUME NEW k \in 1..n, k - 1 \in G PROVE k \in G
    <3>1. r[k - 1] \in Results /\ r[k] = Meet(r[k - 1], makers[k])
      BY <1>10, <2>2
    <3> QED
      BY <1>2, <3>1
  <2> HIDE DEF G
  <2>3. 0..n \subseteq G
    BY <1>1, <2>1, <2>2, CountingUp
  <2> QED
    BY <2>3 DEF G
<1>12. Meets(r, makers)
  BY <1>1, <1>10, <1>11 DEF Meets
<1>13. r[0] = base /\ r[n] = FoldLeft(Meet, base, makers)
  BY <1>1, <1>9, <1>10
<1> QED
  BY <1>12, <1>13

\* What the taker gets of each maker on its way.
Parts(r, makers) == [k \in 1..Len(makers) |-> Part(r[k - 1].rem, makers[k])]

Distinct(makers) == \A j, k \in 1..Len(makers) : makers[j] = makers[k] => j = k

\* One step of the way.
LEMMA WalkStep ==
  ASSUME BookType, NEW makers \in Seq(DOMAIN book), NEW r, Meets(r, makers),
         NEW k \in 1..Len(makers)
  PROVE  LET q == Parts(r, makers)[k]
         IN /\ q \in Nat /\ q = Part(r[k - 1].rem, makers[k])
            /\ r[k - 1] \in Results /\ r[k] \in Results /\ makers[k] \in DOMAIN book
            /\ q <= r[k - 1].rem /\ q <= book[makers[k]].rem
            /\ r[k].rem = r[k - 1].rem - q
            /\ r[k].fills = IF q = 0 THEN r[k - 1].fills
                                     ELSE Append(r[k - 1].fills, FillOf(makers[k], q))
            /\ FillOf(makers[k], q) \in Fills
<1> PICK q : q = Parts(r, makers)[k]
  OBVIOUS
<1>1. k \in 0..Len(makers) /\ k - 1 \in 0..Len(makers) /\ makers[k] \in DOMAIN book
  OBVIOUS
<1>2. r[k - 1] \in Results /\ r[k] \in Results /\ r[k] = Meet(r[k - 1], makers[k])
  BY <1>1 DEF Meets
<1>3. q = Part(r[k - 1].rem, makers[k])
  BY DEF Parts
<1> PICK base, next, m : base = r[k - 1] /\ next = r[k] /\ m = makers[k]
  OBVIOUS
<1>4. /\ q \in Nat /\ q <= base.rem /\ q <= book[m].rem
      /\ next.rem = base.rem - q
      /\ next.fills = IF q = 0 THEN base.fills ELSE Append(base.fills, FillOf(m, q))
      /\ FillOf(m, q) \in Fills
  BY <1>1, <1>2, <1>3, MeetIs, ZenonT(40)
<1> QED
  BY <1>1, <1>2, <1>3, <1>4

\* The fills say what the parts are.
TakesParts(fills, makers, q, k) ==
  /\ \A j \in 1..k : DeltaOf(fills, makers[j]) = q[j]
  /\ \A m : (\A j \in 1..k : makers[j] # m) => DeltaOf(fills, m) = 0

\* What the fills say was taken of each.
LEMMA WalkTakes ==
  ASSUME BookType, NEW makers \in Seq(DOMAIN book), Distinct(makers),
         NEW r, Meets(r, makers), r[0].fills = <<>>
  PROVE  \A k \in 0..Len(makers) : TakesParts(r[k].fills, makers, Parts(r, makers), k)
<1> PICK n, q : n = Len(makers) /\ q = Parts(r, makers)
  OBVIOUS
<1>1. n \in Nat
  OBVIOUS
<1> DEFINE C(k) == /\ \A j \in 1..k : DeltaOf(r[k].fills, makers[j]) = q[j]
                   /\ \A m : (\A j \in 1..k : makers[j] # m) => DeltaOf(r[k].fills, m) = 0
<1>2. C(0)
  <2>1. 1..0 = {}
    OBVIOUS
  <2> QED
    BY <2>1, DeltaOfNothing
<1>3. ASSUME NEW k \in 1..n, C(k - 1) PROVE C(k)
  <2> PICK m0, old : m0 = makers[k] /\ old = r[k - 1].fills
    OBVIOUS
  <2>1. /\ q[k] \in Nat /\ r[k - 1] \in Results /\ FillOf(m0, q[k]) \in Fills
        /\ r[k].fills = IF q[k] = 0 THEN old ELSE Append(old, FillOf(m0, q[k]))
    BY WalkStep
  <2>2. old \in Seq(Fills) /\ \A f \in Fills : f.qty \in Nat
    BY <2>1 DEF Results, Fills
  <2>3. \A m : DeltaOf(r[k].fills, m) = IF m = m0 THEN DeltaOf(old, m) + q[k] ELSE DeltaOf(old, m)
    <3> SUFFICES ASSUME NEW m
                 PROVE  DeltaOf(r[k].fills, m) = IF m = m0 THEN DeltaOf(old, m) + q[k]
                                                           ELSE DeltaOf(old, m)
      OBVIOUS
    <3> PICK f \in Fills : f = FillOf(m0, q[k])
      BY <2>1
    <3>1. f.maker = m0 /\ f.qty = q[k]
      BY DEF FillOf
    <3>2. /\ DeltaOf(old, m) \in Nat
          /\ DeltaOf(Append(old, f), m) = IF f.maker = m THEN DeltaOf(old, m) + f.qty
                                                         ELSE DeltaOf(old, m)
      <4> PICK S : S = Fills
        OBVIOUS
      <4>1. old \in Seq(S) /\ (\A e \in S : e.qty \in Nat) /\ f \in S
        BY <2>2
      <4> QED
        BY <4>1, DeltaAppended, SMTT(30)
    <3>3. CASE q[k] = 0
      BY <2>1, <3>2, <3>3
    <3>4. CASE q[k] # 0
      BY <2>1, <3>1, <3>2, <3>4
    <3> QED
      BY <3>3, <3>4
  <2>4. \A j \in 1..(k - 1) : j \in 1..n /\ makers[j] # m0
    BY <1>1 DEF Distinct
  <2>5. DeltaOf(r[k].fills, m0) = q[k]
    <3>1. DeltaOf(old, m0) = 0
      BY <1>3, <2>4
    <3> QED
      BY <2>1, <2>3, <3>1
  <2>6. ASSUME NEW j \in 1..k PROVE DeltaOf(r[k].fills, makers[j]) = q[j]
    <3>1. CASE j = k
      BY <2>5, <3>1
    <3>2. CASE j # k
      <4>1. j \in 1..(k - 1)
        BY <3>2
      <4> QED
        BY <1>3, <2>3, <2>4, <4>1
    <3> QED
      BY <3>1, <3>2
  <2>7. ASSUME NEW m, \A j \in 1..k : makers[j] # m PROVE DeltaOf(r[k].fills, m) = 0
    <3>1. m # m0 /\ \A j \in 1..(k - 1) : makers[j] # m
      BY <2>7
    <3> QED
      BY <1>3, <2>3, <3>1
  <2> QED
    BY <2>6, <2>7
<1> HIDE DEF C
<1> DEFINE G == {k \in 0..n : C(k)}
<1>4. 0 \in G /\ \A k \in 1..n : k - 1 \in G => k \in G
  BY <1>1, <1>2, <1>3
<1> HIDE DEF G
<1>5. 0..n \subseteq G
  BY <1>1, <1>4, CountingUp
<1>6. \A k \in 0..n : C(k)
  BY <1>5 DEF G
<1>7. \A k \in 0..n : TakesParts(r[k].fills, makers, q, k)
  BY <1>6, Zenon DEF C, TakesParts
<1> QED
  BY <1>7

\* The fills, as a set.
FillsAre(fills, makers, q, k) ==
  \A f : f \in ToSet(fills) <=> \E j \in 1..k : q[j] # 0 /\ f = FillOf(makers[j], q[j])

LEMMA WalkFills ==
  ASSUME BookType, NEW makers \in Seq(DOMAIN book), NEW r, Meets(r, makers), r[0].fills = <<>>,
         NEW n, n = Len(makers), NEW q, q = Parts(r, makers)
  PROVE  /\ \A k \in 0..n : r[k].fills \in Seq(Fills)
         /\ \A k \in 0..n : FillsAre(r[k].fills, makers, q, k)
<1>1. n \in Nat
  OBVIOUS
<1> DEFINE C(k) == \A f : f \in ToSet(r[k].fills) <=>
                            \E j \in 1..k : q[j] # 0 /\ f = FillOf(makers[j], q[j])
<1>2. C(0)
  <2>1. ToSet(<<>>) = {} /\ 1..0 = {}
    BY DEF ToSet
  <2> QED
    BY <2>1
<1>3. ASSUME NEW k \in 1..n, C(k - 1) PROVE C(k)
  <2> PICK old, new : old = r[k - 1].fills /\ new = FillOf(makers[k], q[k])
    OBVIOUS
  <2>1. /\ q[k] \in Nat /\ r[k - 1] \in Results /\ new \in Fills
        /\ r[k].fills = IF q[k] = 0 THEN old ELSE Append(old, new)
    BY WalkStep
  <2>2. old \in Seq(Fills)
    BY <2>1 DEF Results
  <2>3. ToSet(Append(old, new)) = ToSet(old) \cup {new}
    <3>1. /\ DOMAIN Append(old, new) = 1..(Len(old) + 1) /\ DOMAIN old = 1..Len(old)
          /\ Append(old, new)[Len(old) + 1] = new
          /\ \A i \in 1..Len(old) : Append(old, new)[i] = old[i]
          /\ Len(old) \in Nat
      BY <2>1, <2>2
    <3> PICK l : l = Len(old)
      OBVIOUS
    <3> PICK more : more = Append(old, new)
      OBVIOUS
    <3>2. \A i \in 1..(l + 1) : i \in 1..l \/ i = l + 1
      BY <3>1
    <3>3. {more[i] : i \in 1..(l + 1)} = {old[i] : i \in 1..l} \cup {new}
      BY <3>1, <3>2
    <3> QED
      BY <3>1, <3>3 DEF ToSet
  <2>4. \A j : j \in 1..k <=> j \in 1..(k - 1) \/ j = k
    BY <1>1
  <2>5. CASE q[k] = 0
    BY <1>3, <2>1, <2>4, <2>5
  <2>6. CASE q[k] # 0
    BY <1>3, <2>1, <2>3, <2>4, <2>6
  <2> QED
    BY <2>5, <2>6
<1> HIDE DEF C
<1> DEFINE G == {k \in 0..n : C(k)}
<1>4. 0 \in G /\ \A k \in 1..n : k - 1 \in G => k \in G
  BY <1>1, <1>2, <1>3
<1> HIDE DEF G
<1>5. 0..n \subseteq G
  BY <1>1, <1>4, CountingUp
<1>6. \A k \in 0..n : C(k)
  BY <1>5 DEF G
<1>7. \A k \in 0..n : r[k].fills \in Seq(Fills)
  BY DEF Meets, Results
<1>8. \A k \in 0..n : FillsAre(r[k].fills, makers, q, k)
  BY <1>6, Zenon DEF C, FillsAre
<1> QED
  BY <1>7, <1>8

\* Who is met first, as a relation.
Earlier(S, side) == {x \in S \X S : MetBefore(side, x[1], x[2])}

LEMMA EarlierIs ==
  ASSUME NEW S, NEW side, NEW m \in S, NEW n \in S
  PROVE  <<m, n>> \in Earlier(S, side) <=> MetBefore(side, m, n)
BY DEF Earlier

\* Makers lists them all, each once, in the order they are met.
LEMMA MakersAre ==
  ASSUME BookType, DOMAIN book \in SUBSET Nat, IsFiniteSet(DOMAIN book), NEW i
  PROVE  /\ Makers(i) \in Seq(DOMAIN book) /\ Distinct(Makers(i))
         /\ \A m : m \in Crossed(i) <=> \E k \in 1..Len(Makers(i)) : Makers(i)[k] = m
         /\ \A j, k \in 1..Len(Makers(i)) :
              j < k => MetBefore(rows[i].side, Makers(i)[j], Makers(i)[k])
<1> PICK S, side : S = Crossed(i) /\ side = rows[i].side
  OBVIOUS
<1> PICK R : R = Earlier(S, side)
  OBVIOUS
<1>1. S \in SUBSET DOMAIN book /\ IsFiniteSet(S)
  <2>1. S \in SUBSET DOMAIN book
    BY DEF Crossed
  <2> QED
    BY <2>1, FS_Subset
<1>2. \A m, n \in S : <<m, n>> \in R <=> MetBefore(side, m, n)
  BY EarlierIs
<1>3. TotalOrder(R, S)
  <2>1. \A m \in S : m \in Nat /\ book[m].price \in Nat
    BY <1>1 DEF BookType
  <2>2. \A x \in S : ~ MetBefore(side, x, x)
    BY <2>1 DEF MetBefore
  <2>3. \A x, y, z \in S : MetBefore(side, x, y) /\ MetBefore(side, y, z) => MetBefore(side, x, z)
    BY <2>1 DEF MetBefore
  <2>4. \A x, y \in S : x = y \/ MetBefore(side, x, y) \/ MetBefore(side, y, x)
    BY <2>1 DEF MetBefore
  <2> QED
    BY <1>2, <2>2, <2>3, <2>4 DEF TotalOrder
<1> PICK c \in Nat : c = Cardinality(S)
  BY <1>1, FS_CardinalityType
<1>4. PICK s : Lists(s, S, R)
  BY <1>1, <1>3, ListExists
<1>5. s \in [1..c -> S] /\ \A j, k \in DOMAIN s : j < k => MetBefore(side, s[j], s[k])
  BY <1>2, <1>4 DEF Lists
<1> PICK makers : makers = Makers(i)
  OBVIOUS
<1>6. makers = CHOOSE x \in [1..c -> S] :
                 \A j, k \in DOMAIN x : j < k => MetBefore(side, x[j], x[k])
  BY DEF Makers, InOrderOf
<1>7. makers \in [1..c -> S] /\ \A j, k \in DOMAIN makers : j < k => MetBefore(side, makers[j], makers[k])
  BY <1>5, <1>6
<1>8. Lists(makers, S, R)
  BY <1>2, <1>7 DEF Lists
<1>9. makers \in Seq(DOMAIN book) /\ Len(makers) = c /\ DOMAIN makers = 1..c
  <2>1. \A k \in 1..c : makers[k] \in DOMAIN book
    BY <1>1, <1>7
  <2>2. makers = [k \in 1..c |-> makers[k]]
    BY <1>7
  <2> QED
    BY <2>1, <2>2
<1>10. \A m : m \in S <=> \E k \in 1..c : makers[k] = m
  <2>1. \A m \in S : \E k \in DOMAIN makers : makers[k] = m
    BY <1>1, <1>3, <1>8, ListsAll
  <2> QED
    BY <1>7, <2>1
<1>11. Distinct(makers)
  <2> SUFFICES ASSUME NEW j \in 1..c, NEW k \in 1..c, makers[j] = makers[k] PROVE j = k
    BY <1>9 DEF Distinct
  <2>1. makers[j] \in S /\ ~ MetBefore(side, makers[j], makers[j])
    <3>1. makers[j] \in S
      BY <1>7
    <3>2. makers[j] \in Nat /\ book[makers[j]].price \in Nat
      BY <1>1, <3>1 DEF BookType
    <3> QED
      BY <3>1, <3>2 DEF MetBefore
  <2>2. ~ (j < k) /\ ~ (k < j)
    BY <1>7, <1>9, <2>1
  <2> QED
    BY <2>2
<1>12. \A j, k \in 1..c : j < k => MetBefore(side, makers[j], makers[k])
  BY <1>7, <1>9
<1> QED
  BY <1>9, <1>10, <1>11, <1>12

\* No fill, nothing taken, and the other way round.
LEMMA WalkAlone ==
  ASSUME BookType, NEW makers \in Seq(DOMAIN book), NEW r, Meets(r, makers), r[0].fills = <<>>
  PROVE  \A k \in 0..Len(makers) : /\ r[k].rem <= r[0].rem
                                   /\ r[k].fills = <<>> <=> r[k].rem = r[0].rem
<1> PICK n : n = Len(makers)
  OBVIOUS
<1> DEFINE G == {k \in 0..n : r[k].rem <= r[0].rem /\ (r[k].fills = <<>> <=> r[k].rem = r[0].rem)}
<1>1. n \in Nat /\ 0 \in 0..n
  OBVIOUS
<1>2. \A k \in 0..n : r[k].rem \in Nat
  BY DEF Meets, Results
<1>3. 0 \in G
  BY <1>1, <1>2
<1>4. ASSUME NEW k \in 1..n, k - 1 \in G PROVE k \in G
  <2> PICK q, old, new : q = Parts(r, makers)[k] /\ old = r[k - 1] /\ new = r[k]
    OBVIOUS
  <2>1. /\ q \in Nat /\ old \in Results /\ new.rem = old.rem - q
        /\ new.fills = IF q = 0 THEN old.fills ELSE Append(old.fills, FillOf(makers[k], q))
    BY WalkStep
  <2>2. old.fills \in Seq(Fills) /\ old.rem \in Nat
    BY <2>1 DEF Results
  <2>3. old.rem <= r[0].rem /\ (old.fills = <<>> <=> old.rem = r[0].rem) /\ k \in 0..n
    BY <1>1, <1>4
  <2>4. r[0].rem \in Nat
    BY <1>1, <1>2
  <2>5. q # 0 => new.fills # <<>>
    <3> PICK e : e = FillOf(makers[k], q)
      OBVIOUS
    <3> PICK fs : fs = old.fills
      OBVIOUS
    <3>1. Append(fs, e) # <<>>
      <4>1. Len(Append(fs, e)) = Len(fs) + 1 /\ Len(fs) \in Nat
        BY <2>2
      <4>2. Len(<<>>) = 0
        OBVIOUS
      <4>3. Len(Append(fs, e)) # Len(<<>>)
        BY <4>1, <4>2
      <4> QED
        BY <4>3, Zenon
    <3> QED
      BY <2>1, <3>1
  <2>6. new.rem <= r[0].rem
    BY <2>1, <2>2, <2>3, <2>4
  <2>7. new.fills = <<>> <=> new.rem = r[0].rem
    <3>1. CASE q = 0
      BY <2>1, <2>2, <2>3, <3>1
    <3>2. CASE q # 0
      <4>1. new.fills # <<>>
        BY <2>5, <3>2
      <4>2. new.rem < r[0].rem
        BY <2>1, <2>2, <2>3, <2>4, <3>2
      <4>3. new.rem # r[0].rem
        BY <2>1, <2>2, <2>4, <4>2
      <4> QED
        BY <4>1, <4>3
    <3> QED
      BY <3>1, <3>2
  <2> QED
    BY <2>3, <2>6, <2>7
<1> HIDE DEF G
<1>5. 0..n \subseteq G
  BY <1>1, <1>3, <1>4, CountingUp
<1> QED
  BY <1>5 DEF G

----------------------------------------------------------------------------
(* Table and book *)

Row == [user : Users \cup {DevUser}, side : Sides, price : PriceTexts, qty : QuantityTexts,
        rem : Texts, status : Statuses]

\* What remains of a row is a number, which marketdata-service reads, and one that a restart
\* can read again while the row is live.
RowOk(row) ==
  /\ row \in Row /\ Accepted(row.price, row.qty)
  /\ Scaled(row.rem) \in 0..MaxInt64 /\ ParseQuantity(row.rem) = Number(Scaled(row.rem))
  /\ row.status \in Restable => ParseQuantityScaled(row.rem) = Number(Scaled(row.rem))

RestingRow(row) == RestingAt(PriceOf[row.price].value, Scaled(row.rem))

\* The book is what the live rows say, but for the order that is being matched, and that
\* is the one inserted last, as it was inserted.
TableInv ==
  /\ \E S : rows \in Seq(S)
  /\ \A i \in DOMAIN rows : RowOk(rows[i])
  /\ matching \in 0..Len(rows)
  /\ matching # 0 => /\ matching = Len(rows) /\ rows[matching].status = "open"
                     /\ rows[matching].rem = rows[matching].qty
  /\ book = [m \in Live \ {matching} |-> RestingRow(rows[m])]

\* The numbers of an accepted price and of any text of a quantity that parses.
LEMMA PriceValue ==
  ASSUME NEW t \in PriceTexts, PriceOf[t].err = "none"
  PROVE  PriceOf[t].value \in Nat \ {0} /\ PriceOf[t].value \in Prices
         /\ ParsePriceKRWMinor(t) = Number(PriceOf[t].value)
<1> DEFINE n == ParseInt(t.sign, t.whole)
<1>1. PriceOf[t] = ParsePriceKRWMinor(t)
  BY DEF PriceOf
<1>2. n.err = "none" /\ ~ (n.value <= 0) /\ ParsePriceKRWMinor(t) = n
  BY <1>1, Outcomes DEF ParsePriceKRWMinor
<1>3. ValueOf(t.whole) \in Int
  <2>1. t.whole \in Seq(Digits)
    BY ApiAssumption DEF Texts
  <2> QED
    BY <2>1, ValueType
<1>4. n = Number(IF t.sign = "-" THEN -ValueOf(t.whole) ELSE ValueOf(t.whole))
  BY <1>2, Outcomes DEF ParseInt
<1>5. n.value \in Int /\ n = Number(n.value)
  BY <1>3, <1>4, Outcomes
<1> HIDE DEF n
<1>6. PriceOf[t].value \in Nat \ {0} /\ ParsePriceKRWMinor(t) = Number(PriceOf[t].value)
  BY <1>1, <1>2, <1>5
<1> QED
  BY <1>6 DEF Prices

LEMMA QuantityValue ==
  ASSUME NEW t \in Texts, ParseQuantityScaled(t).err = "none"
  PROVE  Scaled(t) \in 1..MaxInt64 /\ ParseQuantityScaled(t) = Number(Scaled(t))
<1> DEFINE shape   == \/ t.sign # ""
                      \/ t.whole = <<>>
                      \/ t.point /\ t.frac = <<>>
                      \/ Len(t.frac) > Decimals
           large   == Scaled(t) > MaxInt64
           nothing == Scaled(t) = 0
<1>1. ParseQuantityScaled(t) = IF shape THEN Failure("format")
                             ELSE IF large THEN Failure("overflow")
                             ELSE IF nothing THEN Failure("nonPositive")
                             ELSE Number(Scaled(t))
  BY DEF ParseQuantityScaled
<1> HIDE DEF shape, large, nothing
<1>2. ~ shape /\ ~ large /\ ~ nothing /\ ParseQuantityScaled(t) = Number(Scaled(t))
  BY <1>1, Outcomes
<1>3. Scaled(t) \in Nat
  BY ScaledType
<1> QED
  BY <1>2, <1>3, TextAssumption DEF large, nothing

\* So the book is of numbers.
LEMMA BookTyped ==
  ASSUME TableInv
  PROVE  /\ BookType /\ DOMAIN book = Live \ {matching}
         /\ DOMAIN rows = 1..Len(rows) /\ Len(rows) \in Nat
         /\ DOMAIN book \in SUBSET Nat /\ IsFiniteSet(DOMAIN book)
         /\ matching \notin DOMAIN book
         /\ \A m \in DOMAIN book :
              /\ m \in DOMAIN rows /\ rows[m].status \in Restable
              /\ book[m].price = PriceOf[rows[m].price].value /\ book[m].price \in Prices
              /\ book[m].rem = Scaled(rows[m].rem) /\ book[m].rem \in 1..MaxInt64
<1>1. DOMAIN rows = 1..Len(rows) /\ Len(rows) \in Nat
  <2>1. PICK S : rows \in Seq(S)
    BY DEF TableInv
  <2> QED
    BY <2>1
<1>2. DOMAIN book = Live \ {matching} /\ DOMAIN book \in SUBSET DOMAIN rows
  BY DEF TableInv, Live
<1>3. IsFiniteSet(DOMAIN book)
  <2>1. IsFiniteSet(1..Len(rows))
    BY <1>1, FS_Interval
  <2> QED
    BY <1>1, <1>2, <2>1, FS_Subset
<1>4. DOMAIN book \in SUBSET Nat
  BY <1>1, <1>2
<1>5. ASSUME NEW m \in DOMAIN book
      PROVE  /\ m \in DOMAIN rows /\ rows[m].status \in Restable
             /\ book[m].price = PriceOf[rows[m].price].value /\ book[m].price \in Prices
             /\ book[m].rem = Scaled(rows[m].rem) /\ book[m].rem \in 1..MaxInt64
             /\ book[m].price \in Nat
  <2>1. m \in DOMAIN rows /\ rows[m].status \in Restable
    BY <1>2, <1>5 DEF Live
  <2>2. book[m] = RestingRow(rows[m])
    BY <1>2, <1>5 DEF TableInv
  <2>3. RowOk(rows[m])
    BY <2>1 DEF TableInv
  <2>4. book[m].price = PriceOf[rows[m].price].value /\ book[m].rem = Scaled(rows[m].rem)
    BY <2>2 DEF RestingRow, RestingAt
  <2>5. PriceOf[rows[m].price].value \in Nat \ {0} /\ PriceOf[rows[m].price].value \in Prices
    BY <2>3, PriceValue DEF RowOk, Accepted
  <2>6. rows[m].rem \in Texts /\ ParseQuantityScaled(rows[m].rem).err = "none"
    BY <2>1, <2>3, Outcomes DEF RowOk, Row
  <2>7. Scaled(rows[m].rem) \in 1..MaxInt64
    BY <2>6, QuantityValue
  <2> QED
    BY <2>1, <2>4, <2>5, <2>7
<1>6. BookType
  BY <1>5, TextAssumption DEF BookType
<1> QED
  BY <1>1, <1>2, <1>3, <1>4, <1>5, <1>6

\* A match is a walk along the makers.
LEMMA MatchWalk ==
  ASSUME TableInv, matching # 0
  PROVE  LET makers == Makers(matching)
             q      == Scaled(rows[matching].rem)
         IN /\ q \in 1..MaxInt64 /\ makers \in Seq(DOMAIN book) /\ Distinct(makers)
            /\ \E r : /\ Meets(r, makers) /\ r[0].rem = q /\ r[0].fills = <<>>
                      /\ r[Len(makers)] = MatchResult(matching)
<1> PICK i, makers, q, result : i = matching /\ makers = Makers(i) /\ q = Scaled(rows[i].rem)
                                /\ result = MatchResult(i)
  OBVIOUS
<1>1. /\ BookType /\ DOMAIN book \in SUBSET Nat /\ IsFiniteSet(DOMAIN book)
      /\ DOMAIN rows = 1..Len(rows) /\ Len(rows) \in Nat
  BY BookTyped
<1>2. makers \in Seq(DOMAIN book) /\ Distinct(makers)
  BY <1>1, MakersAre
<1>3. q \in 1..MaxInt64 /\ QuantityOf[rows[i].qty].value = q
  <2>1. i \in DOMAIN rows /\ rows[i].rem = rows[i].qty
    BY <1>1 DEF TableInv
  <2>2. RowOk(rows[i])
    BY <2>1 DEF TableInv
  <2> PICK t : t = rows[i].qty
    OBVIOUS
  <2>3. t \in Texts /\ t \in QuantityTexts /\ QuantityOf[t].err = "none"
    BY <2>2, ApiAssumption DEF RowOk, Accepted
  <2>4. QuantityOf[t] = ParseQuantityScaled(t)
    BY <2>3 DEF QuantityOf
  <2>5. Scaled(t) \in 1..MaxInt64 /\ ParseQuantityScaled(t) = Number(Scaled(t))
    BY <2>3, <2>4, QuantityValue
  <2> QED
    BY <2>1, <2>4, <2>5, Outcomes
<1> PICK base : base = [rem |-> q, fills |-> <<>>]
  OBVIOUS
<1>4. base \in Results /\ base.rem = q /\ base.fills = <<>>
  <2>1. q \in Nat /\ <<>> \in Seq(Fills)
    BY <1>3, TextAssumption, EmptySeq
  <2> QED
    BY <2>1 DEF Results
<1>5. result = FoldLeft(Meet, base, makers)
  BY <1>3 DEF MatchResult
<1>6. PICK r : Meets(r, makers) /\ r[0] = base /\ r[Len(makers)] = result
  BY <1>1, <1>2, <1>4, <1>5, MeetsExist
<1> QED
  BY <1>2, <1>3, <1>4, <1>6

\* What a match gives, of whatever book: nothing is taken of an order that the book does
\* not have, and only a taker that met nobody is left with all of it.
LEMMA MatchIs ==
  ASSUME TableInv, matching # 0
  PROVE  LET result == MatchResult(matching)
             q      == Scaled(rows[matching].rem)
         IN /\ q \in 1..MaxInt64 /\ result.rem \in 0..q /\ result.fills \in Seq(Fills)
            /\ result.fills = <<>> <=> result.rem = q
            /\ \A m : /\ DeltaOf(result.fills, m) \in Nat
                      /\ m \in DOMAIN book => DeltaOf(result.fills, m) <= book[m].rem
                      /\ m \notin DOMAIN book => DeltaOf(result.fills, m) = 0
<1>20. PICK i, makers, q, result : i = matching /\ makers = Makers(i) /\ q = Scaled(rows[i].rem)
                                   /\ result = MatchResult(i)
  OBVIOUS
<1>1. BookType
  BY BookTyped
<1>2. makers \in Seq(DOMAIN book) /\ Distinct(makers) /\ q \in 1..MaxInt64
  BY <1>20, MatchWalk
<1>6. PICK r : Meets(r, makers) /\ r[0].rem = q /\ r[0].fills = <<>> /\ r[Len(makers)] = result
  BY <1>20, MatchWalk
<1> PICK n \in Nat : n = Len(makers)
  BY <1>2
<1>7. n \in 0..n /\ DOMAIN makers = 1..n
  BY <1>2
<1>8. result \in Results /\ result.rem <= q /\ (result.fills = <<>> <=> result.rem = q)
  <2>1. r[n].rem <= r[0].rem /\ (r[n].fills = <<>> <=> r[n].rem = r[0].rem)
    BY <1>1, <1>2, <1>6, <1>7, WalkAlone
  <2>2. r[n] \in Results
    BY <1>6, <1>7 DEF Meets
  <2> QED
    BY <1>6, <2>1, <2>2
<1>9. result.rem \in 0..q /\ result.fills \in Seq(Fills)
  BY <1>2, <1>8, TextAssumption DEF Results
<1> PICK parts : parts = Parts(r, makers)
  OBVIOUS
<1>10. /\ \A j \in 1..n : DeltaOf(result.fills, makers[j]) = parts[j]
       /\ \A m : (\A j \in 1..n : makers[j] # m) => DeltaOf(result.fills, m) = 0
  <2>2. TakesParts(r[n].fills, makers, parts, n)
    BY <1>1, <1>2, <1>6, <1>7, WalkTakes
  <2> QED
    BY <1>6, <2>2 DEF TakesParts
<1>11. \A j \in 1..n : parts[j] \in Nat /\ parts[j] <= book[makers[j]].rem /\ makers[j] \in DOMAIN book
  BY <1>1, <1>2, <1>6, WalkStep
<1>12. ASSUME NEW m
       PROVE  /\ DeltaOf(result.fills, m) \in Nat
              /\ m \in DOMAIN book => DeltaOf(result.fills, m) <= book[m].rem
              /\ m \notin DOMAIN book => DeltaOf(result.fills, m) = 0
  <2>1. CASE \E j \in 1..n : makers[j] = m
    BY <1>10, <1>11, <2>1
  <2>2. CASE \A j \in 1..n : makers[j] # m
    <3>1. DeltaOf(result.fills, m) = 0
      BY <1>10, <2>2
    <3> QED
      BY <1>1, <3>1 DEF BookType
  <2> QED
    BY <2>1, <2>2
<1> QED
  BY <1>2, <1>8, <1>9, <1>12, <1>20

\* What is written for a quantity, 0 among them, marketdata-service reads again.
LEMMA WrittenIsRead ==
  ASSUME NEW n \in 0..MaxInt64
  PROVE  ParseQuantity(FormatQuantityScaled(n)) = Number(n)
<1> PICK t : t = FormatQuantityScaled(n)
  OBVIOUS
<1>1. n \in Nat /\ ~ (n > MaxInt64)
  BY TextAssumption
<1>2. t \in Texts /\ t.sign = "" /\ t.whole # <<>> /\ Len(t.frac) <= Decimals /\ Scaled(t) = n
  BY <1>1, QuantityWritten
<1>3. ~ (Len(t.frac) > Decimals)
  <2> PICK f, e : f = t.frac /\ e = Len(f)
    OBVIOUS
  <2>1. f \in Seq(Digits) /\ e <= Decimals
    BY <1>2 DEF Texts
  <2>2. e \in Nat
    BY <2>1
  <2> QED
    BY <2>1, <2>2, TextAssumption
<1>4. t # [EmptyText EXCEPT !.padded = t.padded]
  <2>1. [EmptyText EXCEPT !.padded = t.padded].whole = <<>>
    BY DEF EmptyText, Text
  <2> QED
    BY <1>2, <2>1
<1> QED
  BY <1>1, <1>2, <1>3, <1>4 DEF ParseQuantity

\* A row whose remaining quantity and status are written anew.
Rewritten(row, n, status) ==
  [row EXCEPT !.rem = FormatQuantityScaled(n), !.status = status]

LEMMA RewrittenIs ==
  ASSUME NEW row, RowOk(row), NEW n \in 0..MaxInt64, NEW status \in Statuses,
         status \in Restable => n # 0
  PROVE  LET new == Rewritten(row, n, status)
         IN /\ RowOk(new) /\ Scaled(new.rem) = n /\ new.status = status
            /\ RestingRow(new) = RestingAt(PriceOf[row.price].value, n)
            /\ new.side = row.side /\ new.price = row.price /\ new.qty = row.qty
<1> PICK t, new : t = FormatQuantityScaled(n) /\ new = Rewritten(row, n, status)
  OBVIOUS
<1>1. n \in Nat
  BY TextAssumption
<1>2. t \in Texts /\ Scaled(t) = n
  BY <1>1, QuantityWritten
<1>3. row \in Row /\ Accepted(row.price, row.qty)
  BY DEF RowOk
<1>4. new = [row EXCEPT !.rem = t, !.status = status]
  BY DEF Rewritten
<1>5. /\ new \in Row /\ new.rem = t /\ new.status = status /\ new.side = row.side
      /\ new.price = row.price /\ new.qty = row.qty
  BY <1>2, <1>3, <1>4 DEF Row
<1>6. status \in Restable => ParseQuantityScaled(t) = Number(n)
  <2> SUFFICES ASSUME status \in Restable PROVE ParseQuantityScaled(t) = Number(n)
    OBVIOUS
  <2>1. n \in 1..MaxInt64
    BY <1>1, TextAssumption
  <2> QED
    BY <2>1, QuantityReadBack
<1>9. ParseQuantity(t) = Number(n)
  BY WrittenIsRead
<1>7. RowOk(new)
  BY <1>2, <1>3, <1>5, <1>6, <1>9 DEF RowOk
<1>8. RestingRow(new) = RestingAt(PriceOf[row.price].value, n)
  BY <1>2, <1>5 DEF RestingRow
<1> QED
  BY <1>2, <1>5, <1>7, <1>8

\* What an accepted request inserts.
LEMMA RowInserted ==
  ASSUME NEW h \in Headers, NEW side \in Sides, NEW price \in PriceTexts,
         NEW qty \in QuantityTexts, CreateAnswer(h, price, qty) = 201
  PROVE  LET row == [user |-> UserOf(h), side |-> side, price |-> price, qty |-> qty,
                     rem |-> qty, status |-> "open"]
         IN RowOk(row)
<1> PICK row : row = [user |-> UserOf(h), side |-> side, price |-> price, qty |-> qty,
                      rem |-> qty, status |-> "open"]
  BY ZenonT(40)
<1>1. Accepted(price, qty)
  BY OnlyReadable
<1>2. UserOf(h) # NoUser
  BY DEF CreateAnswer
<1>3. UserOf(h) \in Users \cup {DevUser}
  BY <1>2 DEF UserOf
<1>4. qty \in Texts /\ ParseQuantityScaled(qty).err = "none"
  BY <1>1, ApiAssumption DEF Accepted, QuantityOf
<1>5. Scaled(qty) \in 1..MaxInt64 /\ ParseQuantityScaled(qty) = Number(Scaled(qty))
  BY <1>4, QuantityValue
<1>9. ParseQuantity(qty) = Number(Scaled(qty))
  BY <1>4, <1>5, QuantityRead
<1>6. row \in Row
  BY <1>3, <1>4 DEF Row, Statuses, Restable
<1>7. row.price = price /\ row.qty = qty /\ row.rem = qty
  OBVIOUS
<1>8. RowOk(row)
  BY <1>1, <1>5, <1>6, <1>7, <1>9, TextAssumption DEF RowOk
<1> QED
  BY <1>8

LEMMA CreateKeepsTable ==
  ASSUME TableInv, NEW h \in Headers, NEW side \in Sides, NEW price \in PriceTexts,
         NEW qty \in QuantityTexts, CreateOrder(h, side, price, qty)
  PROVE  TableInv'
<1> PICK row, i : /\ row = [user |-> UserOf(h), side |-> side, price |-> price, qty |-> qty,
                            rem |-> qty, status |-> "open"]
                  /\ i = Len(rows) + 1
  OBVIOUS
<1>1. /\ matching = 0 /\ rows' = Append(rows, row) /\ matching' = i /\ book' = book
      /\ RowOk(row)
  BY RowInserted DEF CreateOrder
<1>2. row.status = "open" /\ row.rem = row.qty
  OBVIOUS
<1>3. PICK S : rows \in Seq(S)
  BY DEF TableInv
<1>4. rows \in Seq(S \cup {row}) /\ row \in S \cup {row}
  BY <1>3, SeqMonotonic
<1>5. /\ rows' \in Seq(S \cup {row}) /\ Len(rows') = i /\ DOMAIN rows' = 1..i
      /\ rows'[i] = row /\ DOMAIN rows = 1..(i - 1) /\ i \in Nat \ {0}
      /\ \A k \in 1..(i - 1) : rows'[k] = rows[k]
  BY <1>1, <1>4, AppendProperties
<1>6. \A k \in DOMAIN rows' : RowOk(rows'[k])
  <2>1. \A k \in 1..i : k = i \/ k \in 1..(i - 1)
    BY <1>5
  <2> QED
    BY <1>1, <1>5, <2>1 DEF TableInv
<1>7. book' = [m \in Live' \ {matching'} |-> RestingRow(rows'[m])]
  <2>1. Live' \ {matching'} = Live
    <3>1. \A k \in 1..i : k = i \/ k \in 1..(i - 1)
      BY <1>5
    <3>2. \A k \in 1..(i - 1) : k # i /\ k \in 1..i
      BY <1>5
    <3> QED
      BY <1>1, <1>5, <3>1, <3>2 DEF Live
  <2>2. Live \ {matching} = Live
    BY <1>1, <1>5 DEF Live
  <2>3. \A m \in Live : rows'[m] = rows[m]
    BY <1>5 DEF Live
  <2>4. book = [m \in Live |-> RestingRow(rows[m])]
    BY <2>2 DEF TableInv
  <2> QED
    BY <1>1, <2>1, <2>3, <2>4
<1>8. matching' \in 0..Len(rows') /\ matching' = Len(rows')
      /\ rows'[matching'].status = "open" /\ rows'[matching'].rem = rows'[matching'].qty
  BY <1>1, <1>2, <1>5
<1> QED
  BY <1>5, <1>6, <1>7, <1>8 DEF TableInv

LEMMA CancelKeepsTable ==
  ASSUME TableInv, NEW h, NEW i \in DOMAIN rows, CancelOrder(h, i)
  PROVE  TableInv'
<1> PICK row : row = [rows[i] EXCEPT !.status = "cancelled"]
  OBVIOUS
<1>1. /\ matching = 0 /\ rows' = [rows EXCEPT ![i] = row] /\ UNCHANGED matching
      /\ book' = [m \in DOMAIN book \ {i} |-> book[m]]
  BY DEF CancelOrder
<1>2. RowOk(row) /\ row.status = "cancelled"
  <2>1. RowOk(rows[i])
    BY DEF TableInv
  <2>2. row \in Row /\ row.status = "cancelled" /\ row.price = rows[i].price
        /\ row.qty = rows[i].qty /\ row.rem = rows[i].rem
    BY <2>1 DEF RowOk, Row, Statuses
  <2>3. "cancelled" \notin Restable
    BY DEF Restable
  <2> QED
    BY <2>1, <2>2, <2>3 DEF RowOk
<1>3. PICK S : rows \in Seq(S)
  BY DEF TableInv
<1>4. rows \in Seq(S \cup {row}) /\ row \in S \cup {row}
  BY <1>3, SeqMonotonic
<1>5. rows' \in Seq(S \cup {row})
  BY <1>1, <1>4, ExceptSeq
<1>6. DOMAIN rows' = DOMAIN rows /\ Len(rows') = Len(rows) /\ rows'[i] = row
      /\ \A k \in DOMAIN rows \ {i} : rows'[k] = rows[k]
  BY <1>1, <1>4, <1>5
<1>7. \A k \in DOMAIN rows' : RowOk(rows'[k])
  BY <1>2, <1>6 DEF TableInv
<1>8. book' = [m \in Live' \ {matching'} |-> RestingRow(rows'[m])]
  <2>1. Live' = Live \ {i}
    BY <1>2, <1>6 DEF Live, Restable
  <2>2. 0 \notin Live
    BY <1>3 DEF Live
  <2>3. DOMAIN book = Live /\ \A m \in Live : book[m] = RestingRow(rows[m])
    BY <1>1, <2>2 DEF TableInv
  <2>4. \A m \in Live \ {i} : rows'[m] = rows[m]
    BY <1>6 DEF Live
  <2>5. Live' \ {matching'} = Live \ {i}
    BY <1>1, <2>1, <2>2
  <2> QED
    BY <1>1, <2>3, <2>4, <2>5
<1> QED
  BY <1>1, <1>5, <1>6, <1>7, <1>8 DEF TableInv

\* What a match writes, row by row.
LEMMA MatchedRow ==
  ASSUME TableInv, matching # 0, NEW k \in DOMAIN rows
  PROVE  LET result == MatchResult(matching)
             new    == MatchedRows(matching, result)[k]
             taken  == IF k = matching THEN Scaled(rows[k].rem) - result.rem
                                       ELSE DeltaOf(result.fills, k)
         IN /\ taken \in 0..Scaled(rows[k].rem)
            /\ RowOk(new) /\ Scaled(new.rem) = Scaled(rows[k].rem) - taken
            /\ new.side = rows[k].side /\ new.price = rows[k].price /\ new.qty = rows[k].qty
            /\ RestingRow(new) = RestingAt(PriceOf[rows[k].price].value, Scaled(rows[k].rem) - taken)
            /\ new.status = IF taken = 0 THEN rows[k].status
                            ELSE IF taken = Scaled(rows[k].rem) THEN "filled"
                            ELSE "partially_filled"
<1> PICK i, result, d : i = matching /\ result = MatchResult(i) /\ d = DeltaOf(result.fills, k)
  OBVIOUS
<1> PICK new, row, q : new = MatchedRows(i, result)[k] /\ row = rows[k] /\ q = Scaled(row.rem)
  OBVIOUS
<1>1. RowOk(row) /\ q \in 0..MaxInt64 /\ q \in Nat /\ MaxInt64 \in Nat /\ row \in Row
  BY TextAssumption DEF TableInv, RowOk
<1>2. new = IF k = i THEN TakerRow(row, result)
            ELSE IF d > 0 THEN MakerRow(row, d) ELSE row
  BY DEF MatchedRows
<1>3. {"filled", "partially_filled", "open"} \subseteq Statuses /\ "filled" \notin Restable
  BY DEF Statuses, Restable
<1>4. CASE k = i
  <2> DEFINE alone == result.fills = <<>>
  <2>1. /\ q \in 1..MaxInt64 /\ result.rem \in 0..q /\ (alone <=> result.rem = q)
        /\ rows[i].status = "open"
    BY <1>4, MatchIs DEF TableInv
  <2>6. TakerRow(row, result) =
          Rewritten(row, result.rem, IF alone THEN "open"
                                     ELSE IF result.rem = 0 THEN "filled" ELSE "partially_filled")
    BY DEF TakerRow, Rewritten
  <2> HIDE DEF alone
  <2>7. PICK taken, status, n :
         /\ n = result.rem /\ taken = q - n
         /\ status = IF alone THEN "open" ELSE IF n = 0 THEN "filled" ELSE "partially_filled"
    OBVIOUS
  <2>2. /\ n \in 0..MaxInt64 /\ taken \in 0..q /\ q - taken = n /\ (taken = q <=> n = 0)
        /\ alone <=> taken = 0
    BY <1>1, <2>1, <2>7
  <2>3. new = Rewritten(row, n, status)
    BY <1>2, <1>4, <2>6, <2>7
  <2>4. status \in Statuses /\ (status \in Restable => n # 0)
    <3>1. n = 0 => ~ alone
      BY <1>1, <2>1, <2>2
    <3> QED
      BY <1>3, <2>7, <3>1
  <2>5. /\ RowOk(new) /\ Scaled(new.rem) = n /\ new.status = status
        /\ RestingRow(new) = RestingAt(PriceOf[row.price].value, n)
        /\ new.side = row.side /\ new.price = row.price /\ new.qty = row.qty
    BY <1>1, <2>2, <2>3, <2>4, RewrittenIs
  <2> QED
    BY <1>4, <2>1, <2>2, <2>5, <2>7
<1>5. CASE k # i
  <2>1. d \in Nat /\ (k \notin DOMAIN book => d = 0) /\ (k \in DOMAIN book => d <= book[k].rem)
    BY MatchIs
  <2>2. k \in DOMAIN book => book[k].rem = q /\ ParseQuantityScaled(row.rem).value = q
                             /\ q \in 1..MaxInt64
    <3> SUFFICES ASSUME k \in DOMAIN book
                 PROVE  /\ book[k].rem = q /\ ParseQuantityScaled(row.rem).value = q
                        /\ q \in 1..MaxInt64
      OBVIOUS
    <3>1. book[k].rem = q /\ row.status \in Restable /\ q \in 1..MaxInt64
      BY BookTyped
    <3>2. ParseQuantityScaled(row.rem) = Number(q)
      BY <1>1, <3>1 DEF RowOk
    <3> QED
      BY <3>1, <3>2, Outcomes
  <2>3. CASE d = 0
    <3>1. new = row
      BY <1>2, <1>5, <2>3
    <3>2. RestingRow(row) = RestingAt(PriceOf[row.price].value, q - 0)
      BY <1>1 DEF RestingRow
    <3> QED
      BY <1>1, <1>5, <2>3, <3>1, <3>2
  <2>4. CASE d # 0
    <3> PICK n, status : n = q - d /\ status = IF n = 0 THEN "filled" ELSE "partially_filled"
      OBVIOUS
    <3>1. /\ k \in DOMAIN book /\ d \in 0..q /\ n \in 0..MaxInt64 /\ (d = q <=> n = 0)
          /\ ParseQuantityScaled(row.rem).value = q
      BY <1>1, <2>1, <2>2, <2>4
    <3>2. new = Rewritten(row, n, status)
      BY <1>2, <1>5, <2>1, <2>4, <3>1 DEF MakerRow, Rewritten
    <3>3. status \in Statuses /\ (status \in Restable => n # 0)
      BY <1>3
    <3>4. /\ RowOk(new) /\ Scaled(new.rem) = n /\ new.status = status
          /\ RestingRow(new) = RestingAt(PriceOf[row.price].value, n)
          /\ new.side = row.side /\ new.price = row.price /\ new.qty = row.qty
      BY <1>1, <3>1, <3>2, <3>3, RewrittenIs
    <3> QED
      BY <1>5, <2>4, <3>1, <3>4
  <2> QED
    BY <2>3, <2>4
<1> QED
  BY <1>4, <1>5

LEMMA MatchKeepsTable ==
  ASSUME TableInv, MatchOrder
  PROVE  TableInv'
<1> PICK i, result : i = matching /\ result = MatchResult(i)
  OBVIOUS
<1> DEFINE resting == {m \in DOMAIN book : DeltaOf(result.fills, m) < book[m].rem}
           left    == {k \in {i} : result.rem > 0}
           entry(m) == IF m = i THEN RestingAt(PriceOf[rows[i].price].value, result.rem)
                       ELSE RestingAt(book[m].price, book[m].rem - DeltaOf(result.fills, m))
<1>1. /\ i # 0 /\ rows' = MatchedRows(i, result) /\ matching' = 0
      /\ book' = [m \in resting \cup left |-> entry(m)]
  BY DEF MatchOrder
<1>2. /\ DOMAIN rows = 1..Len(rows) /\ Len(rows) \in Nat /\ i \in DOMAIN rows
      /\ rows[i].status = "open" /\ i \notin DOMAIN book /\ DOMAIN book \subseteq DOMAIN rows
  BY <1>1, BookTyped DEF TableInv
<1>3. DOMAIN rows' = DOMAIN rows
  BY <1>1 DEF MatchedRows
<1>4. \A k \in DOMAIN rows : RowOk(rows'[k])
  BY <1>1, MatchedRow
<1>5. rows' \in Seq({rows'[k] : k \in 1..Len(rows)}) /\ Len(rows') = Len(rows)
  <2>1. rows' = [k \in 1..Len(rows) |-> rows'[k]]
    BY <1>1, <1>2 DEF MatchedRows
  <2> QED
    BY <1>2, <2>1
<1>6. ASSUME NEW k \in DOMAIN rows
      PROVE  /\ rows'[k].status \in Restable <=> k \in resting \cup left
             /\ k \in resting \cup left => entry(k) = RestingRow(rows'[k])
  <2> PICK q, d, new : q = Scaled(rows[k].rem) /\ d = DeltaOf(result.fills, k) /\ new = rows'[k]
    OBVIOUS
  <2>1. q \in 0..MaxInt64 /\ q \in Nat
    BY TextAssumption DEF TableInv, RowOk
  <2>2. "filled" \notin Restable /\ "partially_filled" \in Restable /\ "open" \in Restable
    BY DEF Restable
  <2>3. CASE k = i
    <3>1. q \in 1..MaxInt64 /\ result.rem \in 0..q
      BY <1>1, <2>3, MatchIs
    <3>2. /\ RestingRow(new) = RestingAt(PriceOf[rows[i].price].value, q - (q - result.rem))
          /\ new.status = IF q - result.rem = 0 THEN "open"
                          ELSE IF q - result.rem = q THEN "filled" ELSE "partially_filled"
      BY <1>1, <1>2, <2>3, MatchedRow
    <3>3. q - (q - result.rem) = result.rem /\ (q - result.rem = q <=> result.rem = 0)
          /\ (q - result.rem = 0 => result.rem > 0) /\ (result.rem > 0 <=> result.rem # 0)
      BY <2>1, <3>1, TextAssumption
    <3>4. new.status \in Restable <=> result.rem > 0
      BY <2>2, <3>2, <3>3
    <3>5. k \notin resting /\ (k \in left <=> result.rem > 0)
      BY <1>2, <2>3
    <3>6. entry(k) = RestingAt(PriceOf[rows[i].price].value, result.rem)
      BY <2>3
    <3> QED
      BY <3>2, <3>3, <3>4, <3>5, <3>6
  <2>4. CASE k # i
    <3>1. d \in 0..q
      BY <1>1, <2>4, MatchedRow
    <3>2. /\ RestingRow(new) = RestingAt(PriceOf[rows[k].price].value, q - d)
          /\ new.status = IF d = 0 THEN rows[k].status
                          ELSE IF d = q THEN "filled" ELSE "partially_filled"
      BY <1>1, <2>4, MatchedRow
    <3>3. k \notin left
      BY <2>4
    <3>4. CASE k \in DOMAIN book
      <4>1. /\ rows[k].status \in Restable /\ book[k].price = PriceOf[rows[k].price].value
            /\ book[k].rem = q /\ q \in 1..MaxInt64
        BY <3>4, BookTyped
      <4>2. k \in resting <=> d < q
        BY <3>4, <4>1
      <4>3. (d < q <=> d # q) /\ (d = 0 => d # q)
        BY <2>1, <3>1, <4>1, TextAssumption
      <4>4. entry(k) = RestingAt(PriceOf[rows[k].price].value, q - d)
        BY <2>4, <4>1
      <4> QED
        BY <2>2, <3>2, <3>3, <4>1, <4>2, <4>3, <4>4
    <3>5. CASE k \notin DOMAIN book
      <4>1. d = 0 /\ rows[k].status \notin Restable
        <5>1. d = 0
          BY <1>1, <3>5, MatchIs
        <5>2. k \notin Live
          BY <2>4, <3>5 DEF TableInv
        <5> QED
          BY <5>1, <5>2 DEF Live
      <4> QED
        BY <3>2, <3>3, <3>5, <4>1
    <3> QED
      BY <3>4, <3>5
  <2> QED
    BY <2>3, <2>4
<1>7. resting \cup left \subseteq DOMAIN rows
  BY <1>2
<1> HIDE DEF resting, left, entry
<1>8. Live' \ {matching'} = resting \cup left
  <2>1. Live' = resting \cup left
    BY <1>3, <1>6, <1>7 DEF Live
  <2>2. 0 \notin Live'
    BY <1>2, <1>3 DEF Live
  <2> QED
    BY <1>1, <2>1, <2>2
<1>9. book' = [m \in Live' \ {matching'} |-> RestingRow(rows'[m])]
  BY <1>1, <1>6, <1>7, <1>8
<1>10. matching' \in 0..Len(rows')
  BY <1>1, <1>2, <1>5
<1> QED
  BY <1>1, <1>3, <1>4, <1>5, <1>9, <1>10 DEF TableInv

----------------------------------------------------------------------------
(* The market view *)

\* A sum of two numbers of an integer's width is itself, or it comes out negative.
LEMMA WrappedIs ==
  ASSUME NEW n \in 0..(2 * MaxInt64)
  PROVE  Wrapped(n) \in Int /\ IF n > MaxInt64 THEN Wrapped(n) < 0 ELSE Wrapped(n) = n
<1> PICK M, w : M = MaxInt64 /\ w = 2 * (M + 1)
  OBVIOUS
<1>1. M \in Nat /\ n \in Nat /\ w \in Nat /\ w > 0
  BY TextAssumption
<1> PICK k : k = n + M + 1
  OBVIOUS
<1>2. k \in Nat /\ Wrapped(n) = (k % w) - M - 1
  BY <1>1 DEF Wrapped
<1>3. CASE n > M
  <2> PICK r : r = k - w
    OBVIOUS
  <2>1. r \in Nat /\ r < w /\ k = w * 1 + r /\ 1 \in Nat
    BY <1>1, <1>3
  <2>2. k % w = r
    BY <1>1, <1>2, <2>1, DivisionIs
  <2> QED
    BY <1>1, <1>2, <1>3, <2>2
<1>4. CASE ~ (n > M)
  <2>1. k < w /\ k = w * 0 + k /\ 0 \in Nat
    BY <1>1, <1>4
  <2>2. k % w = k
    BY <1>1, <1>2, <2>1, DivisionIs
  <2> QED
    BY <1>1, <1>2, <1>4, <2>2
<1> QED
  BY <1>3, <1>4

Known == [side : Sides, price : Prices, rem : 0..MaxInt64, status : Statuses]
Items == [1..MaxOrders -> Known \cup {NoItem}]
Views == [items : Items, depth : [Sides -> [Prices -> 0..MaxInt64]], wrapped : BOOLEAN]

\* Of an item that is active, where it is.
IsAt(item, s, p) == IsDepthActive(item) /\ item.side = s /\ item.price = p

\* What the items give to a level.
Share(items, s, p) == [i \in 1..MaxOrders |-> IF IsAt(items[i], s, p) THEN items[i].rem ELSE 0]

SumAt(items, s, p) == Sum(Share(items, s, p), 1..MaxOrders)

\* A level is the sum of the items there, until a sum leaves int64, and never more.
DepthInv(view) ==
  \A s \in Sides, p \in Prices :
    /\ view.depth[s][p] <= SumAt(view.items, s, p)
    /\ ~ view.wrapped => view.depth[s][p] = SumAt(view.items, s, p)

LEMMA PricesType == Prices \in SUBSET (1..MaxInt64)
<1> SUFFICES ASSUME NEW t \in PriceTexts, PriceOf[t].value # 0
             PROVE  PriceOf[t].value \in 1..MaxInt64
  BY DEF Prices
<1> DEFINE n == ParseInt(t.sign, t.whole)
<1>1. PriceOf[t] = IF t.point THEN Failure("format")
                   ELSE IF n.err = "none" /\ n.value <= 0 THEN Failure("nonPositive") ELSE n
  BY DEF PriceOf, ParsePriceKRWMinor
<1>2. \A e : Failure(e).value = 0
  BY DEF Failure
<1>3. PriceOf[t] = n /\ ~ (n.err = "none" /\ n.value <= 0)
  BY <1>1, <1>2
<1>4. ValueOf(t.whole) \in Nat
  <2>1. t.whole \in Seq(Digits)
    BY ApiAssumption DEF Texts
  <2> QED
    BY <2>1, ValueType
<1> PICK v : v = ValueOf(t.whole)
  OBVIOUS
<1>5. n = Number(IF t.sign = "-" THEN -v ELSE v)
      /\ ~ (v > (IF t.sign = "-" THEN MaxInt64 + 1 ELSE MaxInt64))
  BY <1>2, <1>3 DEF ParseInt
<1> HIDE DEF n
<1>6. n.err = "none" /\ n.value = IF t.sign = "-" THEN -v ELSE v
  BY <1>5, Outcomes
<1> QED
  BY <1>3, <1>4, <1>5, <1>6, TextAssumption

LEMMA ShareType ==
  ASSUME NEW items \in Items, NEW s, NEW p
  PROVE  /\ \A i \in 1..MaxOrders : Share(items, s, p)[i] \in 0..MaxInt64
         /\ SumAt(items, s, p) \in Nat
         /\ \A i \in 1..MaxOrders : Share(items, s, p)[i] <= SumAt(items, s, p)
<1> PICK f : f = Share(items, s, p)
  OBVIOUS
<1>1. \A i \in 1..MaxOrders : f[i] \in 0..MaxInt64 /\ f[i] \in Nat
  <2> SUFFICES ASSUME NEW i \in 1..MaxOrders PROVE f[i] \in 0..MaxInt64 /\ f[i] \in Nat
    OBVIOUS
  <2>1. items[i] \in Known \cup {NoItem}
    BY DEF Items
  <2>2. items[i].rem \in 0..MaxInt64 /\ 0 \in 0..MaxInt64
    BY <2>1, TextAssumption DEF Known, NoItem
  <2>3. f[i] = IF IsAt(items[i], s, p) THEN items[i].rem ELSE 0
    BY DEF Share
  <2> QED
    BY <2>2, <2>3, TextAssumption
<1>2. IsFiniteSet(1..MaxOrders)
  BY FS_Interval, ApiAssumption
<1>3. Sum(f, 1..MaxOrders) \in Nat
  BY <1>1, <1>2, SumType
<1>4. ASSUME NEW i \in 1..MaxOrders PROVE f[i] <= Sum(f, 1..MaxOrders)
  <2>1. Sum(f, 1..MaxOrders) = f[i] + Sum(f, 1..MaxOrders \ {i})
    BY <1>1, <1>2, SumWithout
  <2>2. IsFiniteSet(1..MaxOrders \ {i})
    BY <1>2, FS_Subset
  <2>3. Sum(f, 1..MaxOrders \ {i}) \in Nat
    BY <1>1, <2>2, SumType
  <2> QED
    BY <1>1, <2>1, <2>3
<1> QED
  BY <1>1, <1>3, <1>4 DEF SumAt

Cut(d, a) == IF d - a > 0 THEN d - a ELSE 0
Plus(d, b) == IF Wrapped(d + b) > 0 THEN Wrapped(d + b) ELSE 0

LEMMA Bounds ==
  ASSUME NEW d \in 0..MaxInt64, NEW a \in 0..MaxInt64
  PROVE  /\ Cut(d, a) \in 0..MaxInt64 /\ Cut(d, 0) = d
         /\ Plus(d, a) \in 0..MaxInt64 /\ Plus(d, 0) = d
         /\ Plus(d, a) <= d + a
         /\ ~ (d + a > MaxInt64) => Plus(d, a) = d + a
<1> PICK M : M = MaxInt64
  OBVIOUS
<1>1. M \in Nat /\ d \in Nat /\ a \in Nat /\ d <= M /\ a <= M
  BY TextAssumption
<1>2. Cut(d, a) \in 0..M /\ Cut(d, 0) = d
  BY <1>1 DEF Cut
<1>3. /\ Plus(d, a) \in 0..M /\ Plus(d, a) <= d + a
      /\ ~ (d + a > M) => Plus(d, a) = d + a
  <2> PICK w : w = Wrapped(d + a)
    OBVIOUS
  <2>1. w \in Int /\ IF d + a > M THEN w < 0 ELSE w = d + a
    <3>1. d + a \in 0..(2 * MaxInt64)
      BY <1>1
    <3> QED
      BY <3>1, WrappedIs
  <2>2. Plus(d, a) = IF w > 0 THEN w ELSE 0
    BY DEF Plus
  <2> QED
    BY <1>1, <2>1, <2>2
<1>4. Plus(d, 0) = d
  <2>1. d + 0 \in 0..(2 * MaxInt64) /\ d + 0 = d /\ ~ (d > M)
    BY <1>1
  <2>2. Wrapped(d + 0) = d + 0
    BY <2>1, WrappedIs
  <2> QED
    BY <1>1, <2>1, <2>2 DEF Plus
<1> QED
  BY <1>2, <1>3, <1>4

LEMMA SubDepthIs ==
  ASSUME NEW view \in Views, NEW item \in Known
  PROVE  LET new == SubDepth(view, item)
         IN /\ new \in Views /\ new.items = view.items /\ new.wrapped = view.wrapped
            /\ \A s \in Sides, p \in Prices :
                 new.depth[s][p] = IF s = item.side /\ p = item.price
                                     THEN Cut(view.depth[s][p], item.rem) ELSE view.depth[s][p]
<1> PICK side, price, d, e, new :
      /\ side = item.side /\ price = item.price /\ d = view.depth
      /\ e = Cut(d[side][price], item.rem) /\ new = SubDepth(view, item)
  OBVIOUS
<1>1. /\ side \in Sides /\ price \in Prices /\ item.rem \in 0..MaxInt64
      /\ d \in [Sides -> [Prices -> 0..MaxInt64]]
  BY DEF Known, Views
<1>2. e \in 0..MaxInt64
  BY <1>1, Bounds
<1>3. new = [view EXCEPT !.depth = [d EXCEPT ![side] = [d[side] EXCEPT ![price] = e]]]
  BY DEF SubDepth, DepthIn, Cut
<1> PICK new_d : new_d = [d EXCEPT ![side] = [d[side] EXCEPT ![price] = e]]
  OBVIOUS
<1>4. new_d \in [Sides -> [Prices -> 0..MaxInt64]]
      /\ \A s \in Sides, p \in Prices :
           new_d[s][p] = IF s = side /\ p = price THEN e ELSE d[s][p]
  BY <1>1, <1>2
<1>5. new = [view EXCEPT !.depth = new_d]
  BY <1>3
<1>6. new \in Views /\ new.items = view.items /\ new.wrapped = view.wrapped /\ new.depth = new_d
  BY <1>4, <1>5 DEF Views
<1> QED
  BY <1>4, <1>6

LEMMA AddDepthIs ==
  ASSUME NEW view \in Views, NEW item \in Known
  PROVE  LET new == AddDepth(view, item)
             sum == view.depth[item.side][item.price] + item.rem
         IN /\ new \in Views /\ new.items = view.items
            /\ new.wrapped <=> view.wrapped \/ sum > MaxInt64
            /\ \A s \in Sides, p \in Prices :
                 new.depth[s][p] = IF s = item.side /\ p = item.price
                                     THEN Plus(view.depth[s][p], item.rem) ELSE view.depth[s][p]
<1> PICK side, price, d, e, new :
      /\ side = item.side /\ price = item.price /\ d = view.depth
      /\ e = Plus(d[side][price], item.rem) /\ new = AddDepth(view, item)
  OBVIOUS
<1> DEFINE over == view.wrapped \/ d[side][price] + item.rem > MaxInt64
<1>1. /\ side \in Sides /\ price \in Prices /\ item.rem \in 0..MaxInt64
      /\ d \in [Sides -> [Prices -> 0..MaxInt64]]
  BY DEF Known, Views
<1>2. e \in 0..MaxInt64 /\ over \in BOOLEAN
  BY <1>1, Bounds
<1>3. new = [view EXCEPT !.depth = [d EXCEPT ![side] = [d[side] EXCEPT ![price] = e]],
                         !.wrapped = over]
  BY DEF AddDepth, DepthIn, Plus
<1> HIDE DEF over
<1> PICK new_d : new_d = [d EXCEPT ![side] = [d[side] EXCEPT ![price] = e]]
  OBVIOUS
<1>4. new_d \in [Sides -> [Prices -> 0..MaxInt64]]
      /\ \A s \in Sides, p \in Prices :
           new_d[s][p] = IF s = side /\ p = price THEN e ELSE d[s][p]
  BY <1>1, <1>2
<1>5. new = [view EXCEPT !.depth = new_d, !.wrapped = over]
  BY <1>3
<1>6. new \in Views /\ new.items = view.items /\ new.wrapped = over /\ new.depth = new_d
  BY <1>2, <1>4, <1>5 DEF Views
<1>7. new.wrapped <=> view.wrapped \/ d[side][price] + item.rem > MaxInt64
  BY <1>6 DEF over
<1> QED
  BY <1>4, <1>6, <1>7

\* An item in the place of another, in the view of an order that has moved.
Put(view, i, item) ==
  LET less  == IF IsDepthActive(view.items[i]) THEN SubDepth(view, view.items[i]) ELSE view
      known == [less EXCEPT !.items[i] = item]
  IN IF IsDepthActive(item) THEN AddDepth(known, item) ELSE known

\* It takes the one away and adds the other, at every level.
LEMMA PutIs ==
  ASSUME NEW view \in Views, NEW i \in 1..MaxOrders, NEW item \in Known
  PROVE  LET new  == Put(view, i, item)
             next == [view.items EXCEPT ![i] = item]
         IN /\ new \in Views /\ next \in Items /\ new.items = next
            /\ \A s \in Sides, p \in Prices :
                 LET rest == Cut(view.depth[s][p], Share(view.items, s, p)[i])
                 IN /\ new.depth[s][p] = Plus(rest, Share(next, s, p)[i])
                    /\ ~ new.wrapped => /\ ~ view.wrapped
                                        /\ ~ (rest + Share(next, s, p)[i] > MaxInt64)
<1>10. PICK prev, items, next, new :
         /\ prev = view.items[i] /\ items = view.items
         /\ next = [items EXCEPT ![i] = item] /\ new = Put(view, i, item)
  OBVIOUS
<1>11. PICK less : less = IF IsDepthActive(prev) THEN SubDepth(view, prev) ELSE view
  OBVIOUS
<1>12. PICK known : known = [less EXCEPT !.items = next]
  OBVIOUS
<1>1. items \in Items /\ next \in Items /\ prev \in Known \cup {NoItem}
      /\ \A k \in 1..MaxOrders : next[k] = IF k = i THEN item ELSE items[k]
  BY <1>10 DEF Views, Items
<1>2. IsDepthActive(prev) => prev \in Known
  BY <1>1 DEF IsDepthActive, NoItem, Restable
<1>3. /\ less \in Views /\ less.items = items /\ less.wrapped = view.wrapped
      /\ \A s \in Sides, p \in Prices :
           less.depth[s][p] = Cut(view.depth[s][p], Share(items, s, p)[i])
  <2>1. \A s, p : Share(items, s, p)[i] = IF IsAt(prev, s, p) THEN prev.rem ELSE 0
    BY <1>10 DEF Share
  <2>2. \A s \in Sides, p \in Prices : view.depth[s][p] \in 0..MaxInt64
    BY DEF Views
  <2>3. \A s \in Sides, p \in Prices : Cut(view.depth[s][p], 0) = view.depth[s][p]
    <3>1. 0 \in 0..MaxInt64
      BY TextAssumption
    <3> QED
      BY <2>2, <3>1, Bounds
  <2>4. CASE IsDepthActive(prev)
    <3>1. /\ less \in Views /\ less.items = items /\ less.wrapped = view.wrapped
          /\ \A s \in Sides, p \in Prices :
               less.depth[s][p] = IF s = prev.side /\ p = prev.price
                                    THEN Cut(view.depth[s][p], prev.rem) ELSE view.depth[s][p]
      <4>1. PICK cut : cut = SubDepth(view, prev)
        OBVIOUS
      <4>2. prev \in Known /\ less = cut
        BY <1>2, <1>11, <2>4, <4>1
      <4>3. /\ cut \in Views /\ cut.items = view.items /\ cut.wrapped = view.wrapped
            /\ \A s \in Sides, p \in Prices :
                 cut.depth[s][p] = IF s = prev.side /\ p = prev.price
                                     THEN Cut(view.depth[s][p], prev.rem) ELSE view.depth[s][p]
        BY <4>1, <4>2, SubDepthIs
      <4> QED
        BY <1>10, <4>2, <4>3
    <3> QED
      BY <2>1, <2>3, <2>4, <3>1 DEF IsAt
  <2>5. CASE ~ IsDepthActive(prev)
    BY <1>10, <1>11, <2>1, <2>3, <2>5 DEF IsAt
  <2> QED
    BY <2>4, <2>5
<1>4. /\ known \in Views /\ known.items = next /\ known.wrapped = view.wrapped
      /\ known.depth = less.depth
  <2>1. less = [items |-> less.items, depth |-> less.depth, wrapped |-> less.wrapped]
    BY <1>3 DEF Views
  <2>2. known = [items |-> next, depth |-> less.depth, wrapped |-> less.wrapped]
    BY <1>12, <2>1
  <2> QED
    BY <1>1, <1>3, <2>2 DEF Views
<1>5. new = IF IsDepthActive(item) THEN AddDepth(known, item) ELSE known
  <2>1. known = [less EXCEPT !.items[i] = item]
    BY <1>3, <1>10, <1>12
  <2> QED
    BY <1>10, <1>11, <2>1 DEF Put
<1>6. \A s, p : Share(next, s, p)[i] = IF IsAt(item, s, p) THEN item.rem ELSE 0
  BY <1>1 DEF Share
<1>7. \A s \in Sides, p \in Prices : known.depth[s][p] \in 0..MaxInt64
  BY <1>4 DEF Views
<1>8. /\ new \in Views /\ new.items = next
      /\ \A s \in Sides, p \in Prices :
           /\ new.depth[s][p] = Plus(known.depth[s][p], Share(next, s, p)[i])
           /\ ~ new.wrapped => ~ view.wrapped /\ ~ (known.depth[s][p] + Share(next, s, p)[i] > MaxInt64)
  <2>1. CASE IsDepthActive(item)
    <3>1. /\ new \in Views /\ new.items = next
          /\ new.wrapped <=> known.wrapped \/ known.depth[item.side][item.price] + item.rem > MaxInt64
          /\ \A s \in Sides, p \in Prices :
               new.depth[s][p] = IF s = item.side /\ p = item.price
                                   THEN Plus(known.depth[s][p], item.rem) ELSE known.depth[s][p]
      BY <1>4, <1>5, <2>1, AddDepthIs
    <3> SUFFICES ASSUME NEW s \in Sides, NEW p \in Prices
                 PROVE  /\ new.depth[s][p] = Plus(known.depth[s][p], Share(next, s, p)[i])
                        /\ ~ new.wrapped => /\ ~ view.wrapped
                                            /\ ~ (known.depth[s][p] + Share(next, s, p)[i] > MaxInt64)
      BY <3>1
    <3> PICK d : d = known.depth[s][p]
      OBVIOUS
    <3>2. d \in 0..MaxInt64 /\ Plus(d, 0) = d /\ ~ (d + 0 > MaxInt64)
      <4>1. d \in 0..MaxInt64
        BY <1>7
      <4> QED
        BY <4>1, Bounds, TextAssumption
    <3>3. CASE s = item.side /\ p = item.price
      <4>1. Share(next, s, p)[i] = item.rem
        BY <1>6, <2>1, <3>3 DEF IsAt
      <4> QED
        BY <1>4, <3>1, <3>3, <4>1
    <3>4. CASE ~ (s = item.side /\ p = item.price)
      <4>1. Share(next, s, p)[i] = 0
        BY <1>6, <3>4 DEF IsAt
      <4> QED
        BY <1>4, <3>1, <3>2, <3>4, <4>1
    <3> QED
      BY <3>3, <3>4
  <2>2. CASE ~ IsDepthActive(item)
    <3> SUFFICES ASSUME NEW s \in Sides, NEW p \in Prices
                 PROVE  /\ new.depth[s][p] = Plus(known.depth[s][p], Share(next, s, p)[i])
                        /\ ~ new.wrapped => /\ ~ view.wrapped
                                            /\ ~ (known.depth[s][p] + Share(next, s, p)[i] > MaxInt64)
      BY <1>4, <1>5, <2>2
    <3> PICK d : d = known.depth[s][p]
      OBVIOUS
    <3>2. d \in 0..MaxInt64 /\ Plus(d, 0) = d /\ ~ (d + 0 > MaxInt64)
      <4>1. d \in 0..MaxInt64
        BY <1>7
      <4> QED
        BY <4>1, Bounds, TextAssumption
    <3>3. Share(next, s, p)[i] = 0
      BY <1>6, <2>2 DEF IsAt
    <3> QED
      BY <1>4, <1>5, <2>2, <3>2, <3>3
  <2> QED
    BY <2>1, <2>2
<1> QED
  BY <1>1, <1>3, <1>4, <1>8, <1>10

\* Of one item replaced, the sum of a level moves by what that item gave and gives.
LEMMA PutSums ==
  ASSUME NEW items \in Items, NEW next \in Items, NEW i \in 1..MaxOrders, NEW s, NEW p,
         \A k \in 1..MaxOrders \ {i} : next[k] = items[k]
  PROVE  SumAt(next, s, p) + Share(items, s, p)[i] = SumAt(items, s, p) + Share(next, s, p)[i]
<1>1. PICK f, h, N, j : f = Share(items, s, p) /\ h = Share(next, s, p) /\ N = 1..MaxOrders /\ j = i
  OBVIOUS
<1>2. \A k \in N : f[k] \in 0..MaxInt64 /\ h[k] \in 0..MaxInt64
  BY <1>1, ShareType
<1>3. \A k \in N : f[k] \in Nat /\ h[k] \in Nat
  BY <1>2, TextAssumption
<1>4. \A k \in N \ {j} : h[k] = f[k]
  BY <1>1 DEF Share
<1>5. IsFiniteSet(N) /\ j \in N
  BY <1>1, FS_Interval, ApiAssumption
<1>6. Sum(h, N) + f[j] = Sum(f, N) + h[j]
  BY ONLY <1>3, <1>4, <1>5, SumChanged
<1> QED
  BY <1>1, <1>6 DEF SumAt

\* So every level stays a sum.
LEMMA PutKeeps ==
  ASSUME NEW view \in Views, DepthInv(view), NEW i \in 1..MaxOrders, NEW item \in Known
  PROVE  LET new == Put(view, i, item)
         IN new \in Views /\ DepthInv(new) /\ new.items = [view.items EXCEPT ![i] = item]
<1>1. PICK items, next, new : /\ items = view.items /\ next = [view.items EXCEPT ![i] = item]
                              /\ new = Put(view, i, item)
  OBVIOUS
<1>2. /\ new \in Views /\ next \in Items /\ items \in Items /\ new.items = next
      /\ \A k \in 1..MaxOrders \ {i} : next[k] = items[k]
  <2>1. new \in Views /\ next \in Items /\ new.items = next
    BY <1>1, PutIs
  <2>2. items \in Items
    BY <1>1 DEF Views
  <2>3. \A k \in 1..MaxOrders \ {i} : next[k] = items[k]
    BY <1>1, <2>2 DEF Items
  <2> QED
    BY <2>1, <2>2, <2>3
<1>3. ASSUME NEW s \in Sides, NEW p \in Prices
      PROVE  /\ new.depth[s][p] <= SumAt(next, s, p)
             /\ ~ new.wrapped => new.depth[s][p] = SumAt(next, s, p)
  <2>1. PICK f, h, d, was, will : /\ f = Share(items, s, p) /\ h = Share(next, s, p)
                             /\ d = view.depth[s][p]
                             /\ was = SumAt(items, s, p) /\ will = SumAt(next, s, p)
    OBVIOUS
  <2>2. /\ \A k \in 1..MaxOrders : f[k] \in 0..MaxInt64 /\ h[k] \in 0..MaxInt64
        /\ was \in Nat /\ will \in Nat /\ f[i] <= was
    BY <1>2, <2>1, ShareType
  <2>3. will + f[i] = was + h[i]
    BY <1>2, <2>1, PutSums
  <2>4. d \in 0..MaxInt64 /\ d <= was /\ (~ view.wrapped => d = was)
    BY <1>1, <2>1 DEF Views, DepthInv
  <2>5. PICK a, b, c : a = f[i] /\ b = h[i] /\ c = Cut(d, a)
    OBVIOUS
  <2>6. a \in 0..MaxInt64 /\ b \in 0..MaxInt64 /\ a <= was
    BY <2>2, <2>5
  <2>7. /\ new.depth[s][p] = Plus(c, b)
        /\ ~ new.wrapped => ~ view.wrapped /\ ~ (c + b > MaxInt64)
    BY <1>1, <2>1, <2>5, PutIs
  <2>8. c \in 0..MaxInt64
    BY <2>4, <2>5, <2>6, Bounds
  <2>9. c <= was - a /\ (d = was => c = was - a)
    BY <2>2, <2>4, <2>5, <2>6, TextAssumption DEF Cut
  <2>10. /\ Plus(c, b) \in 0..MaxInt64 /\ Plus(c, b) <= c + b
         /\ ~ (c + b > MaxInt64) => Plus(c, b) = c + b
    BY <2>6, <2>8, Bounds
  <2>11. will = (was - a) + b
    BY <2>2, <2>3, <2>5, <2>6, TextAssumption
  <2>12. Plus(c, b) <= will /\ (~ new.wrapped => Plus(c, b) = will)
    BY <2>2, <2>4, <2>6, <2>7, <2>8, <2>9, <2>10, <2>11, TextAssumption
  <2> QED
    BY <2>1, <2>7, <2>12
<1>4. DepthInv(new)
  BY <1>2, <1>3 DEF DepthInv
<1> QED
  BY <1>1, <1>2, <1>4

\* What marketdata-service makes of a row, and what it has of it.
ItemOf(row) == [side |-> row.side, price |-> PriceOf[row.price].value, rem |-> Scaled(row.rem),
                status |-> row.status]
Told(row) == IF ParsePrice(row.price).err = "none" THEN ItemOf(row) ELSE NoItem

\* A new row in the place of another that had the same price.
LEMMA EventIs ==
  ASSUME NEW view \in Views, DepthInv(view), NEW k \in 1..MaxOrders, NEW row, RowOk(row),
         ParsePrice(row.price).err # "none" => view.items[k] = NoItem
  PROVE  LET new == ApplyOrderEvent(view, k, row)
         IN new \in Views /\ DepthInv(new) /\ new.items = [view.items EXCEPT ![k] = Told(row)]
<1>1. PICK new, price, rem, item :
        /\ new = ApplyOrderEvent(view, k, row) /\ price = ParsePrice(row.price)
        /\ rem = ParseQuantity(row.rem)
        /\ item = [side |-> row.side, price |-> price.value, rem |-> rem.value,
                   status |-> row.status]
  OBVIOUS
<1>2. /\ row \in Row /\ row.price \in PriceTexts /\ PriceOf[row.price].err = "none"
      /\ Scaled(row.rem) \in 0..MaxInt64 /\ rem = Number(Scaled(row.rem))
  BY <1>1 DEF RowOk, Accepted
<1>3. rem.err = "none" /\ rem.value = Scaled(row.rem)
  BY <1>2, Outcomes
<1>4. new = IF price.err # "none" THEN view ELSE Put(view, k, item)
  BY <1>1, <1>3 DEF ApplyOrderEvent, Put
<1>5. CASE price.err = "none"
  <2>1. ~ row.price.padded
    BY <1>1, <1>5, Outcomes DEF ParsePrice
  <2>2. ParsePriceKRWMinor(row.price) = Number(PriceOf[row.price].value)
        /\ PriceOf[row.price].value \in Prices
    BY <1>2, PriceValue
  <2>3. price.value = PriceOf[row.price].value
    BY <1>1, <1>2, <2>1, <2>2, PriceRead, Outcomes
  <2>4. item = ItemOf(row) /\ Told(row) = ItemOf(row)
    BY <1>1, <1>3, <1>5, <2>3 DEF ItemOf, Told
  <2>5. ItemOf(row) \in Known
    BY <1>2, <2>2 DEF ItemOf, Known, Row
  <2> QED
    BY <1>1, <1>4, <1>5, <2>4, <2>5, PutKeeps
<1>6. CASE price.err # "none"
  <2>1. Told(row) = NoItem /\ view.items[k] = NoItem /\ new = view
    BY <1>1, <1>4, <1>6 DEF Told
  <2>2. view.items \in Items
    BY DEF Views
  <2>3. view.items = [view.items EXCEPT ![k] = NoItem]
    BY <2>1, <2>2 DEF Items
  <2> QED
    BY <1>1, <2>1, <2>3
<1> QED
  BY <1>5, <1>6

\* The market view is of the rows.
ViewInv ==
  /\ Len(rows) <= MaxOrders
  /\ market \in Views /\ DepthInv(market)
  /\ \A k \in 1..MaxOrders :
       market.items[k] = IF k \in DOMAIN rows THEN Told(rows[k]) ELSE NoItem

LEMMA EmptyViewIs == EmptyView \in Views /\ DepthInv(EmptyView)
<1>1. EmptyView \in Views
  <2>1. 0 \in 0..MaxInt64 /\ FALSE \in BOOLEAN
    BY TextAssumption
  <2> QED
    BY <2>1 DEF EmptyView, Views, Items
<1>2. ASSUME NEW s \in Sides, NEW p \in Prices
      PROVE  SumAt(EmptyView.items, s, p) = 0 /\ EmptyView.depth[s][p] = 0
  <2> PICK f, N : f = Share(EmptyView.items, s, p) /\ N = 1..MaxOrders
    OBVIOUS
  <2>1. \A i \in N : f[i] = 0
    BY DEF Share, IsAt, IsDepthActive, EmptyView, NoItem, Restable
  <2>2. IsFiniteSet(N)
    BY FS_Interval, ApiAssumption
  <2>3. Sum(f, N) = 0
    BY <2>1, <2>2, SumOfZeros
  <2> QED
    BY <2>3 DEF SumAt, EmptyView
<1> QED
  BY <1>1, <1>2 DEF DepthInv

\* Views that know some of the new rows.
Between(new, base) ==
  {v \in Views : /\ DepthInv(v)
                 /\ \A k \in 1..MaxOrders : \/ v.items[k] = base.items[k]
                                            \/ RowOk(new[k]) /\ v.items[k] = Told(new[k])}

\* After them each of these rows is known.
LEMMA EventsTold ==
  ASSUME NEW base \in Views, DepthInv(base), NEW new, NEW ks \in Seq(1..MaxOrders),
         \A k \in 1..MaxOrders :
           RowOk(new[k]) /\ ParsePrice(new[k].price).err # "none" => base.items[k] = NoItem,
         \A j \in 1..Len(ks) : RowOk(new[ks[j]])
  PROVE  LET final == Telling(new, base, ks)
         IN /\ final \in Views /\ DepthInv(final)
            /\ \A k \in 1..MaxOrders :
                 final.items[k] = IF \E j \in 1..Len(ks) : ks[j] = k THEN Told(new[k])
                                                                     ELSE base.items[k]
<1>21. PICK n : n = Len(ks)
  OBVIOUS
<1> PICK T : T = Between(new, base)
  OBVIOUS
<1> DEFINE F == [x \in (1..n) \X T |-> ApplyOrderEvent(x[2], ks[x[1]], new[ks[x[1]]])]
<1>1. n \in Nat /\ DOMAIN ks = 1..n /\ \A j \in 1..n : ks[j] \in 1..MaxOrders
  <2>1. PICK S : S = 1..MaxOrders
    OBVIOUS
  <2>2. ks \in Seq(S)
    BY <2>1
  <2>3. n \in Nat /\ DOMAIN ks = 1..n /\ \A j \in 1..n : ks[j] \in S
    BY ONLY <1>21, <2>2
  <2> QED
    BY ONLY <2>1, <2>3
<1>2. ASSUME NEW j \in 1..n, NEW view \in T
      PROVE  LET next == ApplyOrderEvent(view, ks[j], new[ks[j]])
             IN next \in T /\ next.items = [view.items EXCEPT ![ks[j]] = Told(new[ks[j]])]
  <2>1. PICK k, row, next : k = ks[j] /\ row = new[k] /\ next = ApplyOrderEvent(view, k, row)
    OBVIOUS
  <2>2. k \in 1..MaxOrders /\ RowOk(row) /\ view \in Views /\ DepthInv(view)
    BY <1>1, <2>1 DEF Between
  <2>3. ParsePrice(row.price).err # "none" => view.items[k] = NoItem
    BY <2>1, <2>2 DEF Between, Told
  <2>4. next \in Views /\ DepthInv(next) /\ next.items = [view.items EXCEPT ![k] = Told(row)]
    BY <2>1, <2>2, <2>3, EventIs
  <2>5. view.items \in Items
    BY <2>2 DEF Views
  <2>6. \A m \in 1..MaxOrders : next.items[m] = IF m = k THEN Told(row) ELSE view.items[m]
    BY <2>4, <2>5 DEF Items
  <2>7. \A m \in 1..MaxOrders : \/ next.items[m] = base.items[m]
                                \/ RowOk(new[m]) /\ next.items[m] = Told(new[m])
    BY <2>1, <2>2, <2>6 DEF Between
  <2> QED
    BY <2>1, <2>4, <2>7 DEF Between
<1>3. F \in [(1..n) \X T -> T]
  BY <1>2
<1>4. \A j \in 1..n, v \in T : F[<<j, v>>] = ApplyOrderEvent(v, ks[j], new[ks[j]])
  OBVIOUS
<1>5. base \in T
  BY DEF Between
<1> HIDE DEF F
<1>6. PICK g : Folds(F, base, g, n, T)
  BY <1>1, <1>3, <1>5, FoldExists
<1> DEFINE Turned(h, s) == IF s = {} THEN base
                           ELSE ApplyOrderEvent(h[s \ {Max(s)}], ks[Max(s)], new[ks[Max(s)]])
<1>7. ASSUME NEW s \in SUBSET (1..n) PROVE g[s] = Turned(g, s)
  <2>1. CASE s = {}
    BY <1>6, <2>1 DEF Folds, Folded
  <2>2. CASE s # {}
    <3>1. Max(s) \in 1..n
      <4>1. s \in SUBSET (0..n)
        BY <1>1
      <4> QED
        BY <1>1, <2>2, <4>1, GreatestExists
    <3> PICK x : x = Max(s)
      OBVIOUS
    <3>2. g[s \ {x}] \in T /\ g[s] = F[<<x, g[s \ {x}]>>]
      BY <1>6, <2>2 DEF Folds, Folded
    <3> QED
      BY <1>4, <2>2, <3>1, <3>2
  <2> QED
    BY <2>1, <2>2
<1> DEFINE Q(h) == h = [s \in SUBSET (1..n) |->
                         IF s = {} THEN base
                         ELSE ApplyOrderEvent(h[s \ {Max(s)}], ks[Max(s)], new[ks[Max(s)]])]
<1>8. Q(g)
  <2>1. g = [s \in SUBSET (1..n) |-> g[s]]
    BY <1>6 DEF Folds
  <2> QED
    BY <1>7, <2>1
<1>9. PICK h : h = (CHOOSE x : Q(x))
  OBVIOUS
<1>10. Q(h)
  BY <1>8, <1>9
<1>11. Telling(new, base, ks) = h[1..n]
  BY ONLY <1>1, <1>9 DEF Telling, FoldLeft, MapThenFoldSet, Q
<1>12. /\ h[1..0] = base
       /\ \A k \in 1..n : h[1..k] = ApplyOrderEvent(h[1..(k - 1)], ks[k], new[ks[k]])
  <2>1. ASSUME NEW s \in SUBSET (1..n) PROVE h[s] = Turned(h, s)
    BY <1>10
  <2>2. 1..0 = {} /\ 1..0 \in SUBSET (1..n)
    OBVIOUS
  <2>3. h[1..0] = base
    BY <2>1, <2>2
  <2>4. ASSUME NEW k \in 1..n
        PROVE h[1..k] = ApplyOrderEvent(h[1..(k - 1)], ks[k], new[ks[k]])
    <3>1. k \in Nat \ {0} /\ 1..k \in SUBSET (1..n)
      BY <1>1
    <3>2. Max(1..k) = k /\ (1..k) \ {k} = 1..(k - 1) /\ 1..k # {}
      BY <3>1, LastOne
    <3>3. h[1..k] = Turned(h, 1..k)
      BY <2>1, <3>1
    <3> QED
      BY <3>2, <3>3
  <2> QED
    BY <2>3, <2>4
<1>20. PICK e : e = [k \in 0..n |-> h[1..k]]
  OBVIOUS
<1>13. e[0] = base /\ e[n] = Telling(new, base, ks)
       /\ \A k \in 1..n : e[k] = ApplyOrderEvent(e[k - 1], ks[k], new[ks[k]])
  BY <1>1, <1>11, <1>12, <1>20
<1> HIDE DEF Q, Turned
<1> DEFINE G == {k \in 0..n : /\ e[k] \in T
                              /\ \A m \in 1..MaxOrders :
                                   e[k].items[m] = IF \E j \in 1..k : ks[j] = m THEN Told(new[m])
                                                                                ELSE base.items[m]}
<1>14. 0 \in G
  <2>1. 1..0 = {}
    OBVIOUS
  <2> QED
    BY <1>1, <1>5, <1>13, <2>1
<1> HIDE DEF G
<1>15. ASSUME NEW k \in 1..n, k - 1 \in G PROVE k \in G
  <2>20. PICK old, next, x : old = e[k - 1] /\ next = e[k] /\ x = ks[k]
    OBVIOUS
  <2>21. x \in 1..MaxOrders
    BY <1>1, <2>20
  <2>1. /\ old \in T
        /\ \A m \in 1..MaxOrders : old.items[m] = IF \E j \in 1..(k - 1) : ks[j] = m
                                                    THEN Told(new[m]) ELSE base.items[m]
    BY <1>15, <2>20 DEF G
  <2>2. next \in T /\ next.items = [old.items EXCEPT ![x] = Told(new[x])]
    <3>1. next = ApplyOrderEvent(old, x, new[x])
      BY <1>13, <2>20
    <3> QED
      BY <1>2, <2>1, <2>20, <3>1
  <2>3. old.items \in Items
    BY <2>1 DEF Between, Views
  <2>4. \A m \in 1..MaxOrders : next.items[m] = IF m = x THEN Told(new[m]) ELSE old.items[m]
    BY <2>21, <2>2, <2>3 DEF Items
  <2>5. \A j : j \in 1..k <=> j \in 1..(k - 1) \/ j = k
    BY ONLY <1>1, k \in 1..n
  <2>6. \A m \in 1..MaxOrders : next.items[m] = IF \E j \in 1..k : ks[j] = m
                                                  THEN Told(new[m]) ELSE base.items[m]
    BY ONLY <2>1, <2>4, <2>5, <2>20
  <2> QED
    <3>1. k \in 0..n
      BY <1>1
    <3> QED
      BY <2>2, <2>6, <2>20, <3>1 DEF G
<1> HIDE DEF G
<1>16. 0..n \subseteq G
  BY <1>1, <1>14, <1>15, CountingUp
<1>17. n \in G
  BY <1>1, <1>16
<1> QED
  BY <1>13, <1>17, <1>21 DEF G, Between

\* Nothing is taken of who is in no fill.
LEMMA DeltaOfOthers ==
  ASSUME NEW S, NEW fills \in Seq(S), \A f \in S : f.qty \in Nat, NEW m,
         \A j \in 1..Len(fills) : fills[j].maker # m
  PROVE  DeltaOf(fills, m) = 0
<1> PICK n \in Nat : n = Len(fills)
  OBVIOUS
<1>1. PICK d \in [0..n -> Nat] : Takes(d, fills, m) /\ d[n] = DeltaOf(fills, m)
  BY TakesExist
<1> DEFINE G == {k \in 0..n : d[k] = 0}
<1>2. 0 \in G
  BY <1>1 DEF Takes
<1>3. ASSUME NEW k \in 1..n, k - 1 \in G PROVE k \in G
  BY <1>1, <1>3, SMTT(30) DEF Takes
<1> HIDE DEF G
<1>4. 0..n \subseteq G
  BY <1>2, <1>3, CountingUp
<1> QED
  BY <1>1, <1>4 DEF G

LEMMA CreateKeepsView ==
  ASSUME TableInv, ViewInv, NEW h \in Headers, NEW side \in Sides, NEW price \in PriceTexts,
         NEW qty \in QuantityTexts, CreateOrder(h, side, price, qty)
  PROVE  ViewInv'
<1>1. PICK row, i : /\ row = [user |-> UserOf(h), side |-> side, price |-> price, qty |-> qty,
                              rem |-> qty, status |-> "open"]
                    /\ i = Len(rows) + 1
  OBVIOUS
<1>2. /\ rows' = Append(rows, row) /\ RowOk(row) /\ market' = ApplyOrderEvent(market, i, row)
      /\ i <= MaxOrders
  BY <1>1, RowInserted DEF CreateOrder
<1>3. PICK S : rows \in Seq(S)
  BY DEF TableInv
<1>4. rows \in Seq(S \cup {row}) /\ row \in S \cup {row}
  BY <1>3, SeqMonotonic
<1>5. /\ Len(rows') = i /\ DOMAIN rows' = 1..i
      /\ rows'[i] = row /\ DOMAIN rows = 1..(i - 1) /\ i \in Nat \ {0}
      /\ \A k \in 1..(i - 1) : rows'[k] = rows[k]
  BY <1>1, <1>2, <1>4, AppendProperties
<1>6. /\ i \in 1..MaxOrders /\ i \notin DOMAIN rows
      /\ \A k \in 1..MaxOrders : k \in DOMAIN rows' <=> k = i \/ k \in DOMAIN rows
  BY <1>2, <1>5, ApiAssumption
<1>7. /\ market \in Views /\ DepthInv(market)
      /\ \A k \in 1..MaxOrders :
           market.items[k] = IF k \in DOMAIN rows THEN Told(rows[k]) ELSE NoItem
  BY DEF ViewInv
<1>8. market.items[i] = NoItem
  BY <1>6, <1>7
<1>9. /\ market' \in Views /\ DepthInv(market')
      /\ market'.items = [market.items EXCEPT ![i] = Told(row)]
  BY <1>2, <1>6, <1>7, <1>8, EventIs
<1>10. market.items \in Items
  BY <1>7 DEF Views
<1>11. \A k \in 1..MaxOrders : market'.items[k] = IF k = i THEN Told(row) ELSE market.items[k]
  BY <1>9, <1>10 DEF Items
<1>12. \A k \in 1..MaxOrders :
         market'.items[k] = IF k \in DOMAIN rows' THEN Told(rows'[k]) ELSE NoItem
  BY <1>5, <1>6, <1>7, <1>11
<1> QED
  BY <1>2, <1>5, <1>9, <1>12 DEF ViewInv, DepthInv

LEMMA CancelKeepsView ==
  ASSUME TableInv, ViewInv, NEW h, NEW i \in DOMAIN rows, CancelOrder(h, i)
  PROVE  ViewInv'
<1>1. PICK row : row = [rows[i] EXCEPT !.status = "cancelled"]
  OBVIOUS
<1>2. /\ rows' = [rows EXCEPT ![i] = row] /\ market' = ApplyOrderEvent(market, i, row)
  BY <1>1 DEF CancelOrder
<1>3. RowOk(row) /\ row.price = rows[i].price
  <2>1. RowOk(rows[i])
    BY DEF TableInv
  <2>2. row \in Row /\ row.status = "cancelled" /\ row.price = rows[i].price
        /\ row.qty = rows[i].qty /\ row.rem = rows[i].rem
    BY <1>1, <2>1 DEF RowOk, Row, Statuses
  <2>3. "cancelled" \notin Restable
    BY DEF Restable
  <2> QED
    BY <2>1, <2>2, <2>3 DEF RowOk
<1>4. DOMAIN rows' = DOMAIN rows /\ Len(rows') = Len(rows) /\ rows'[i] = row
      /\ (\A k \in DOMAIN rows \ {i} : rows'[k] = rows[k])
      /\ DOMAIN rows = 1..Len(rows) /\ Len(rows) \in Nat
  <2>1. PICK S : rows \in Seq(S)
    BY DEF TableInv
  <2> QED
    BY <1>2, <2>1
<1>5. /\ market \in Views /\ DepthInv(market) /\ Len(rows) <= MaxOrders
      /\ \A k \in 1..MaxOrders :
           market.items[k] = IF k \in DOMAIN rows THEN Told(rows[k]) ELSE NoItem
  BY DEF ViewInv
<1>6. i \in 1..MaxOrders
  BY <1>4, <1>5, ApiAssumption
<1>7. ParsePrice(row.price).err # "none" => market.items[i] = NoItem
  BY <1>3, <1>5, <1>6 DEF Told
<1>8. /\ market' \in Views /\ DepthInv(market')
      /\ market'.items = [market.items EXCEPT ![i] = Told(row)]
  BY <1>2, <1>3, <1>5, <1>6, <1>7, EventIs
<1>9. market.items \in Items
  BY <1>5 DEF Views
<1>10. \A k \in 1..MaxOrders : market'.items[k] = IF k = i THEN Told(row) ELSE market.items[k]
  BY <1>8, <1>9 DEF Items
<1>11. \A k \in 1..MaxOrders :
         market'.items[k] = IF k \in DOMAIN rows' THEN Told(rows'[k]) ELSE NoItem
  BY <1>4, <1>5, <1>10
<1> QED
  BY <1>4, <1>5, <1>8, <1>11 DEF ViewInv, DepthInv

\* The orders whose events a match sends.
LEMMA AnnouncedAre ==
  ASSUME TableInv, ViewInv, matching # 0, NEW fills \in Seq(Fills)
  PROVE  LET ks == [k \in DOMAIN fills |-> fills[k].maker] \o <<matching>>
         IN /\ ks \in Seq(1..MaxOrders) /\ (\A j \in 1..Len(ks) : ks[j] \in DOMAIN rows)
            /\ \A m : (\E j \in 1..Len(ks) : ks[j] = m) <=>
                      m = matching \/ \E j \in 1..Len(fills) : fills[j].maker = m
<1>1. PICK n : n = Len(fills)
  OBVIOUS
<1>2. PICK s, i, ks : s = [k \in DOMAIN fills |-> fills[k].maker] /\ i = matching /\ ks = s \o <<i>>
  OBVIOUS
<1>3. DOMAIN rows = 1..Len(rows) /\ Len(rows) \in Nat /\ i \in DOMAIN rows
      /\ DOMAIN book \subseteq DOMAIN rows
  BY <1>2, BookTyped DEF TableInv
<1>4. DOMAIN rows \subseteq 1..MaxOrders
  BY <1>3, ApiAssumption DEF ViewInv
<1>5. PICK D : D = DOMAIN rows
  OBVIOUS
<1>6. n \in Nat /\ DOMAIN fills = 1..n /\ \A k \in 1..n : fills[k] \in Fills
  BY <1>1
<1>7. \A k \in 1..n : fills[k].maker \in D
  BY <1>3, <1>5, <1>6 DEF Fills
<1>8. s \in Seq(D) /\ Len(s) = n /\ \A k \in 1..n : s[k] = fills[k].maker
  <2>1. s = [k \in 1..n |-> fills[k].maker]
    BY <1>2, <1>6
  <2> QED
    BY ONLY <1>6, <1>7, <2>1
<1>15. PICK t : t = <<i>>
  OBVIOUS
<1>9. t \in Seq(D) /\ Len(t) = 1 /\ t[1] = i
  <2>1. i \in D
    BY <1>3, <1>5
  <2> QED
    BY ONLY <1>15, <2>1
<1>16. ks = s \o t
  BY <1>2, <1>15
<1>10. ks \in Seq(D) /\ Len(ks) = n + 1
       /\ \A j \in 1..(n + 1) : ks[j] = IF j <= n THEN s[j] ELSE t[j - n]
  BY ONLY <1>16, <1>6, <1>8, <1>9, ConcatProperties, SMTT(30)
<1>11. \A j \in 1..(n + 1) : ks[j] = IF j <= n THEN fills[j].maker ELSE i
  <2> SUFFICES ASSUME NEW j \in 1..(n + 1) PROVE ks[j] = IF j <= n THEN fills[j].maker ELSE i
    OBVIOUS
  <2>1. CASE j <= n
    BY ONLY <1>6, <1>8, <1>10, <2>1, j \in 1..(n + 1)
  <2>2. CASE ~ (j <= n)
    <3>1. j = n + 1 /\ j - n = 1
      BY ONLY <1>6, <2>2, j \in 1..(n + 1)
    <3> QED
      BY ONLY <1>9, <1>10, <2>2, <3>1, j \in 1..(n + 1)
  <2> QED
    BY <2>1, <2>2
<1>12. ASSUME NEW m
       PROVE  (\E j \in 1..Len(ks) : ks[j] = m) <=>
              m = matching \/ \E j \in 1..Len(fills) : fills[j].maker = m
  <2>1. n + 1 \in 1..(n + 1) /\ ~ (n + 1 <= n) /\ (\A j \in 1..n : j \in 1..(n + 1) /\ j <= n)
        /\ \A j \in 1..(n + 1) : j \in 1..n \/ ~ (j <= n)
    BY ONLY <1>6
  <2> QED
    <3>1. (\E j \in 1..(n + 1) : ks[j] = m) <=> m = i \/ \E j \in 1..n : fills[j].maker = m
      BY ONLY <1>11, <2>1
    <3> QED
      BY ONLY <1>1, <1>2, <1>10, <3>1
<1>13. ks \in Seq(1..MaxOrders)
  <2>1. PICK M : M = 1..MaxOrders
    OBVIOUS
  <2>2. ks \in Seq(D) /\ D \subseteq M
    BY <1>4, <1>5, <1>10, <2>1
  <2>3. ks \in Seq(M)
    BY ONLY <2>2, SeqMonotonic
  <2> QED
    BY ONLY <2>1, <2>3
<1>14. \A j \in 1..Len(ks) : ks[j] \in DOMAIN rows
  <2>1. \A j \in 1..Len(ks) : ks[j] \in D
    BY ONLY <1>10
  <2> QED
    BY ONLY <1>5, <2>1
<1> QED
  BY <1>2, <1>12, <1>13, <1>14

LEMMA MatchKeepsView ==
  ASSUME TableInv, ViewInv, MatchOrder
  PROVE  ViewInv'
<1>1. PICK i, fills, new :
        /\ i = matching /\ fills = MatchResult(i).fills /\ new = MatchedRows(i, MatchResult(i))
  OBVIOUS
<1>2. PICK ks : ks = [k \in DOMAIN fills |-> fills[k].maker] \o <<i>>
  OBVIOUS
<1>3. i # 0 /\ rows' = new
  BY <1>1 DEF MatchOrder
<1>4. market' = Telling(new, market, ks)
  BY <1>1, <1>2 DEF MatchOrder
<1>5. DOMAIN new = DOMAIN rows /\ DOMAIN rows = 1..Len(rows) /\ Len(rows) \in Nat
      /\ \A k \in DOMAIN rows : RowOk(new[k]) /\ new[k].price = rows[k].price
  <2>1. DOMAIN new = DOMAIN rows
    BY <1>1 DEF MatchedRows
  <2>2. DOMAIN rows = 1..Len(rows) /\ Len(rows) \in Nat
    BY BookTyped
  <2>3. \A k \in DOMAIN rows : RowOk(new[k]) /\ new[k].price = rows[k].price
    BY <1>1, <1>3, MatchedRow
  <2> QED
    BY <2>1, <2>2, <2>3
<1>6. Len(rows') = Len(rows)
  <2>1. new = [k \in 1..Len(rows) |-> new[k]]
    BY <1>1, <1>5 DEF MatchedRows
  <2> QED
    BY <1>3, <1>5, <2>1
<1>7. /\ market \in Views /\ DepthInv(market) /\ Len(rows) <= MaxOrders
      /\ \A k \in 1..MaxOrders :
           market.items[k] = IF k \in DOMAIN rows THEN Told(rows[k]) ELSE NoItem
  BY DEF ViewInv
<1>8. fills \in Seq(Fills)
  BY <1>1, <1>3, MatchIs
<1>9. /\ ks \in Seq(1..MaxOrders) /\ (\A j \in 1..Len(ks) : ks[j] \in DOMAIN rows)
      /\ \A m : (\E j \in 1..Len(ks) : ks[j] = m) <=>
                m = i \/ \E j \in 1..Len(fills) : fills[j].maker = m
  <2>1. TableInv /\ ViewInv /\ matching # 0
    BY <1>1, <1>3
  <2> QED
    BY ONLY <2>1, <1>1, <1>2, <1>8, AnnouncedAre, ZenonT(40)
<1>10. \A k \in 1..MaxOrders :
         RowOk(new[k]) /\ ParsePrice(new[k].price).err # "none" => market.items[k] = NoItem
  BY <1>5, <1>7 DEF Told
<1>11. \A j \in 1..Len(ks) : RowOk(new[ks[j]])
  BY <1>5, <1>9
<1>12. /\ market' \in Views /\ DepthInv(market')
       /\ \A k \in 1..MaxOrders :
            market'.items[k] = IF \E j \in 1..Len(ks) : ks[j] = k THEN Told(new[k])
                                                                  ELSE market.items[k]
  BY <1>4, <1>7, <1>9, <1>10, <1>11, EventsTold
<1>13. ASSUME NEW k \in DOMAIN rows, ~ (\E j \in 1..Len(ks) : ks[j] = k)
       PROVE  Told(new[k]) = Told(rows[k])
  <2>1. k # i /\ \A j \in 1..Len(fills) : fills[j].maker # k
    BY <1>9, <1>13
  <2>2. \A f \in Fills : f.qty \in Nat
    BY DEF Fills
  <2>3. DeltaOf(fills, k) = 0
    <3>1. PICK S : S = Fills
      OBVIOUS
    <3>2. fills \in Seq(S) /\ \A f \in S : f.qty \in Nat
      BY <1>8, <2>2, <3>1
    <3> QED
      BY ONLY <2>1, <3>2, DeltaOfOthers
  <2>4. new[k] = rows[k]
    BY <1>1, <2>1, <2>3 DEF MatchedRows
  <2> QED
    BY <2>4
<1>14. \A k \in 1..MaxOrders :
         market'.items[k] = IF k \in DOMAIN rows' THEN Told(rows'[k]) ELSE NoItem
  BY <1>3, <1>5, <1>7, <1>9, <1>12, <1>13
<1> QED
  BY <1>6, <1>7, <1>12, <1>14 DEF ViewInv, DepthInv

\* What trades can be.
Trades == [taker : Nat, maker : Nat, price : Prices, qty : Nat]

LEMMA TradesTyped ==
  ASSUME TableInv, MatchOrder, trades \subseteq Trades
  PROVE  trades' \subseteq Trades
<1>1. PICK i, fills : i = matching /\ fills = MatchResult(i).fills
  OBVIOUS
<1>2. /\ i # 0
      /\ trades' = trades \cup {[taker |-> i, maker |-> f.maker, price |-> f.price, qty |-> f.qty] :
                                  f \in ToSet(fills)}
  BY <1>1 DEF MatchOrder
<1>3. i \in Nat
  BY <1>1, BookTyped DEF TableInv
<1>4. ASSUME NEW f \in ToSet(fills)
      PROVE  f.maker \in Nat /\ f.price \in Prices /\ f.qty \in Nat
  <2>1. PICK makers : makers = Makers(i)
    OBVIOUS
  <2>2. makers \in Seq(DOMAIN book)
    BY <1>1, <1>2, <2>1, MatchWalk
  <2>3. PICK r : Meets(r, makers) /\ r[0].fills = <<>> /\ r[Len(makers)].fills = fills
    BY <1>1, <1>2, <2>1, MatchWalk
  <2>4. PICK n, q : n = Len(makers) /\ q = Parts(r, makers)
    OBVIOUS
  <2>5. n \in Nat /\ n \in 0..n /\ DOMAIN makers = 1..n
    BY ONLY <2>2, <2>4
  <2>6. BookType
    BY BookTyped
  <2>7. \A x : x \in ToSet(fills) <=> \E j \in 1..n : q[j] # 0 /\ x = FillOf(makers[j], q[j])
    <3>1. \A k \in 0..n : FillsAre(r[k].fills, makers, q, k)
      BY ONLY <2>2, <2>3, <2>4, <2>6, WalkFills
    <3>2. r[n].fills = fills
      BY ONLY <2>3, <2>4
    <3> QED
      BY ONLY <2>5, <3>1, <3>2 DEF FillsAre
  <2>8. PICK j \in 1..n : f = FillOf(makers[j], q[j])
    BY <2>7
  <2>9. makers[j] \in DOMAIN book /\ q[j] \in Nat
    <3>1. Parts(r, makers)[j] \in Nat /\ makers[j] \in DOMAIN book
      BY <2>2, <2>3, <2>4, <2>6, WalkStep
    <3> QED
      BY <2>4, <3>1
  <2>10. book[makers[j]].price \in Prices /\ makers[j] \in Nat
    BY <2>9, BookTyped
  <2> QED
    BY <2>8, <2>9, <2>10 DEF FillOf
<1> QED
  BY <1>2, <1>3, <1>4 DEF Trades

\* All of it.
ApiInv ==
  /\ devMode \in BOOLEAN
  /\ trades \subseteq Trades
  /\ TableInv
  /\ ViewInv

THEOREM ApiInvariant == Spec => []ApiInv
<1>1. Init => ApiInv
  <2> SUFFICES ASSUME Init PROVE ApiInv
    OBVIOUS
  <2>1. rows = <<>> /\ Len(rows) = 0 /\ DOMAIN rows = {} /\ matching = 0 /\ market = EmptyView
    BY DEF Init
  <2>2. TableInv
    <3>1. rows \in Seq({}) /\ 0 \in 0..0 /\ Live \ {0} = {}
      BY <2>1, EmptySeq DEF Live
    <3>2. book = [m \in {} |-> RestingRow(rows[m])]
      BY DEF Init
    <3> QED
      BY <2>1, <3>1, <3>2 DEF TableInv
  <2>3. ViewInv
    <3>1. \A k \in 1..MaxOrders : EmptyView.items[k] = NoItem
      BY DEF EmptyView
    <3>2. 0 <= MaxOrders
      BY ApiAssumption
    <3> QED
      BY <2>1, <3>1, <3>2, EmptyViewIs DEF ViewInv
  <2> QED
    BY <2>2, <2>3 DEF Init, ApiInv
<1>2. ApiInv /\ [Next]_vars => ApiInv'
  <2> SUFFICES ASSUME ApiInv, [Next]_vars PROVE ApiInv'
    OBVIOUS
  <2> USE DEF ApiInv
  <2>1. ASSUME NEW h \in Headers, NEW s \in Sides, NEW p \in PriceTexts,
               NEW q \in QuantityTexts, CreateOrder(h, s, p, q)
        PROVE  ApiInv'
    <3>1. TableInv' /\ ViewInv'
      BY <2>1, CreateKeepsTable, CreateKeepsView
    <3>2. UNCHANGED <<devMode, trades>>
      BY <2>1 DEF CreateOrder
    <3> QED
      BY <3>1, <3>2 DEF Trades
  <2>2. ASSUME MatchOrder PROVE ApiInv'
    <3>1. TableInv' /\ ViewInv' /\ trades' \subseteq Trades
      BY <2>2, MatchKeepsTable, MatchKeepsView, TradesTyped
    <3>2. UNCHANGED devMode
      BY <2>2 DEF MatchOrder
    <3> QED
      BY <3>1, <3>2 DEF Trades
  <2>3. ASSUME NEW h \in Headers, NEW i \in DOMAIN rows, CancelOrder(h, i) PROVE ApiInv'
    <3>1. TableInv' /\ ViewInv'
      BY <2>3, CancelKeepsTable, CancelKeepsView
    <3>2. UNCHANGED <<devMode, trades>>
      BY <2>3 DEF CancelOrder
    <3> QED
      BY <3>1, <3>2 DEF Trades
  <2>4. ASSUME UNCHANGED vars PROVE ApiInv'
    BY <2>4 DEF vars, TableInv, ViewInv, Live, DepthInv, Trades
  <2> QED
    BY <2>1, <2>2, <2>3, <2>4 DEF Next
<1> QED
  BY <1>1, <1>2, PTL DEF Spec

\* A restart would rebuild the book that is there: the rows' texts parse, to the numbers
\* that the book holds (numeric.go:97, rebuild.go:57).
THEOREM RestartRebuildsBook == Spec => []BookIsParsedRows
<1>1. ApiInv => BookIsParsedRows
  <2> SUFFICES ASSUME ApiInv PROVE BookIsParsedRows
    OBVIOUS
  <2>1. TypeOK
    <3>1. rows \in Seq(Row)
      <4>1. PICK S : rows \in Seq(S)
        BY DEF ApiInv, TableInv
      <4>2. \A k \in DOMAIN rows : rows[k] \in Row
        BY DEF ApiInv, TableInv, RowOk
      <4>3. rows = [k \in 1..Len(rows) |-> rows[k]] /\ Len(rows) \in Nat /\ DOMAIN rows = 1..Len(rows)
        BY <4>1
      <4>4. PICK R : R = Row
        OBVIOUS
      <4>5. rows \in Seq(R)
        BY ONLY <4>2, <4>3, <4>4
      <4> QED
        BY <4>4, <4>5
    <3>2. DOMAIN book \subseteq DOMAIN rows
      BY BookTyped DEF ApiInv
    <3>3. \A s \in Sides : market.depth[s] \in [Prices -> 0..MaxInt64]
      BY DEF ApiInv, ViewInv, Views
    <3> QED
      BY <3>1, <3>2, <3>3 DEF TypeOK, ApiInv, TableInv, Row, Trades
  <2>2. DOMAIN book = Live \ {matching}
    BY DEF ApiInv, TableInv
  <2>3. ASSUME NEW m \in DOMAIN book
        PROVE  /\ ParsePriceKRWMinor(rows[m].price) = Number(book[m].price)
               /\ ParseQuantityScaled(rows[m].rem) = Number(book[m].rem)
    <3>1. /\ m \in DOMAIN rows /\ rows[m].status \in Restable
          /\ book[m].price = PriceOf[rows[m].price].value
          /\ book[m].rem = Scaled(rows[m].rem)
      BY BookTyped DEF ApiInv
    <3>2. RowOk(rows[m])
      BY <3>1 DEF ApiInv, TableInv
    <3>3. ParsePriceKRWMinor(rows[m].price) = Number(PriceOf[rows[m].price].value)
      BY <3>2, PriceValue DEF RowOk, Accepted
    <3> QED
      BY <3>1, <3>2, <3>3 DEF RowOk
  <2> QED
    BY <2>1, <2>2, <2>3 DEF BookIsParsedRows
<1> QED
  BY <1>1, ApiInvariant, PTL

----------------------------------------------------------------------------
(* The order book that is answered *)

\* What order i adds to a level of the table.
TableShare(s, p, i) ==
  IF i \in Readable /\ rows[i].side = s /\ PriceOf[rows[i].price].value = p
    THEN Scaled(rows[i].rem) ELSE 0

\* What market data has of it is that.
LEMMA ShareIs ==
  ASSUME ApiInv, NEW s \in Sides, NEW p \in Prices, NEW i \in 1..MaxOrders
  PROVE  Share(market.items, s, p)[i] = IF i \in DOMAIN rows THEN TableShare(s, p, i) ELSE 0
<1>1. PICK item : item = market.items[i]
  OBVIOUS
<1>2. item = IF i \in DOMAIN rows THEN Told(rows[i]) ELSE NoItem
  BY <1>1 DEF ApiInv, ViewInv
<1>3. Share(market.items, s, p)[i] = IF IsAt(item, s, p) THEN item.rem ELSE 0
  BY <1>1 DEF Share
<1>4. ~ IsAt(NoItem, s, p)
  BY DEF IsAt, IsDepthActive, NoItem, Restable
<1>5. CASE i \in DOMAIN rows /\ ParsePrice(rows[i].price).err = "none"
  <2>1. item = ItemOf(rows[i])
    BY <1>2, <1>5 DEF Told
  <2>2. /\ item.rem = Scaled(rows[i].rem)
        /\ IsAt(item, s, p) <=> /\ rows[i].status \in Restable /\ rows[i].side = s
                                /\ PriceOf[rows[i].price].value = p
    BY <2>1 DEF ItemOf, IsAt, IsDepthActive
  <2>3. i \in Readable <=> rows[i].status \in Restable
    BY <1>5 DEF Readable, Live
  <2> QED
    BY <1>3, <1>5, <2>2, <2>3 DEF TableShare
<1>6. CASE ~ (i \in DOMAIN rows /\ ParsePrice(rows[i].price).err = "none")
  <2>1. item = NoItem
    BY <1>2, <1>6 DEF Told
  <2>2. i \notin Readable
    BY <1>6 DEF Readable, Live
  <2> QED
    BY <1>3, <1>4, <2>1, <2>2 DEF TableShare
<1> QED
  BY <1>5, <1>6

\* The depth of the table, counted up.
LEMMA TableDepthCounts ==
  ASSUME ApiInv, NEW s \in Sides, NEW p \in Prices
  PROVE  \E e : /\ e[0] = 0 /\ e[Len(rows)] = TableDepth(s, p)
                /\ \A k \in 1..Len(rows) : e[k] = e[k - 1] + TableShare(s, p, k) /\ e[k - 1] \in Nat
<1>1. PICK n : n = Len(rows)
  OBVIOUS
<1>2. n \in Nat /\ DOMAIN rows = 1..n
  BY <1>1, BookTyped DEF ApiInv
<1>3. PICK ids : ids = [i \in DOMAIN rows |-> i]
  OBVIOUS
<1>4. DOMAIN ids = 1..n /\ \A k \in 1..n : ids[k] = k
  BY <1>2, <1>3
<1>5. \A k \in 1..n : TableShare(s, p, k) \in Nat
  <2> SUFFICES ASSUME NEW k \in 1..n PROVE TableShare(s, p, k) \in Nat
    OBVIOUS
  <2>1. RowOk(rows[k])
    BY <1>2 DEF ApiInv, TableInv
  <2>2. Scaled(rows[k].rem) \in Nat
    BY <2>1, TextAssumption DEF RowOk
  <2> QED
    BY <2>2 DEF TableShare
<1> DEFINE Counted(i) == i \in Readable /\ rows[i].side = s /\ PriceOf[rows[i].price].value = p
           F == [x \in (1..n) \X Nat |-> x[2] + TableShare(s, p, x[1])]
<1>6. F \in [(1..n) \X Nat -> Nat] /\ \A i \in 1..n, c \in Nat : F[<<i, c>>] = c + TableShare(s, p, i)
  BY <1>5
<1> HIDE DEF F
<1>7. PICK g : Folds(F, 0, g, n, Nat)
  <2>1. 0 \in Nat
    OBVIOUS
  <2> QED
    BY <1>2, <1>6, <2>1, FoldExists
<1>8. ASSUME NEW t \in SUBSET (1..n)
      PROVE  /\ g[t] = IF t = {} THEN 0
                       ELSE IF Counted(ids[Max(t)]) THEN g[t \ {Max(t)}] + Scaled(rows[ids[Max(t)]].rem)
                       ELSE g[t \ {Max(t)}]
  <2>1. CASE t = {}
    BY <1>7, <2>1 DEF Folds, Folded
  <2>2. CASE t # {}
    <3>1. Max(t) \in 1..n
      <4>1. t \in SUBSET (0..n)
        BY <1>2
      <4> QED
        BY <1>2, <2>2, <4>1, GreatestExists
    <3> PICK x : x = Max(t)
      OBVIOUS
    <3>2. g[t \ {x}] \in Nat /\ g[t] = F[<<x, g[t \ {x}]>>]
      BY <1>7, <2>2 DEF Folds, Folded
    <3>3. g[t] = g[t \ {x}] + TableShare(s, p, x) /\ ids[x] = x
      BY <1>4, <1>6, <3>1, <3>2
    <3>4. g[t \ {x}] + 0 = g[t \ {x}]
      BY <3>2
    <3> QED
      BY <2>2, <3>2, <3>3, <3>4 DEF TableShare
  <2> QED
    BY <2>1, <2>2
<1> DEFINE Q(h) == h = [t \in SUBSET (1..n) |->
                         IF t = {} THEN 0
                         ELSE IF Counted(ids[Max(t)])
                           THEN h[t \ {Max(t)}] + Scaled(rows[ids[Max(t)]].rem)
                         ELSE h[t \ {Max(t)}]]
<1>9. Q(g)
  <2>1. g = [t \in SUBSET (1..n) |-> g[t]]
    BY <1>7 DEF Folds
  <2> QED
    BY <1>8, <2>1
<1>10. PICK h : h = (CHOOSE x : Q(x))
  OBVIOUS
<1>11. Q(h)
  BY <1>9, <1>10
<1>12. TableDepth(s, p) = h[1..n]
  BY <1>3, <1>4, <1>10 DEF TableDepth, FoldLeft, MapThenFoldSet
<1>13. h[1..0] = 0
  <2>1. 1..0 = {} /\ 1..0 \in SUBSET (1..n)
    OBVIOUS
  <2> QED
    BY <1>11, <2>1
<1>14. \A t \in SUBSET (1..n) : h[t] = IF t = {} THEN 0
                                       ELSE IF Counted(ids[Max(t)])
                                         THEN h[t \ {Max(t)}] + Scaled(rows[ids[Max(t)]].rem)
                                       ELSE h[t \ {Max(t)}]
  BY <1>11
<1>15. ASSUME NEW k \in 1..n
       PROVE  h[1..k] = IF Counted(k) THEN h[1..(k - 1)] + Scaled(rows[k].rem) ELSE h[1..(k - 1)]
  <2>1. k \in Nat \ {0} /\ 1..k \in SUBSET (1..n)
    BY <1>2
  <2>2. Max(1..k) = k /\ (1..k) \ {k} = 1..(k - 1) /\ 1..k # {}
    BY <2>1, LastOne
  <2>3. PICK t : t = 1..k
    OBVIOUS
  <2>4. h[t] = IF t = {} THEN 0
               ELSE IF Counted(ids[Max(t)]) THEN h[t \ {Max(t)}] + Scaled(rows[ids[Max(t)]].rem)
               ELSE h[t \ {Max(t)}]
    BY <1>14, <2>1, <2>3
  <2>5. Max(t) = k /\ t \ {Max(t)} = 1..(k - 1) /\ t # {} /\ ids[Max(t)] = k
    BY <1>4, <2>2, <2>3
  <2> HIDE DEF Counted
  <2> QED
    BY ONLY <2>3, <2>4, <2>5
<1>16. PICK e : e = [k \in 0..n |-> h[1..k]]
  OBVIOUS
<1>17. /\ e[0] = 0 /\ e[n] = TableDepth(s, p)
       /\ \A k \in 1..n : e[k] = IF Counted(k) THEN e[k - 1] + Scaled(rows[k].rem) ELSE e[k - 1]
  BY <1>2, <1>12, <1>13, <1>15, <1>16
<1> HIDE DEF Q
<1> DEFINE G == {k \in 0..n : e[k] \in Nat}
<1>18. 0 \in G
  BY <1>2, <1>17
<1>19. ASSUME NEW k \in 1..n, k - 1 \in G
       PROVE  k \in G /\ e[k] = e[k - 1] + TableShare(s, p, k)
  <2>1. e[k - 1] \in Nat /\ e[k - 1] + 0 = e[k - 1]
    BY <1>19
  <2>2. e[k] = e[k - 1] + TableShare(s, p, k)
    BY <1>17, <2>1 DEF TableShare
  <2> QED
    BY <1>2, <1>5, <2>1, <2>2
<1> HIDE DEF G
<1>20. 0..n \subseteq G
  BY <1>2, <1>18, <1>19, CountingUp
<1>21. ASSUME NEW k \in 1..n
       PROVE  e[k] = e[k - 1] + TableShare(s, p, k) /\ e[k - 1] \in Nat
  <2>1. k - 1 \in G
    BY <1>2, <1>20
  <2> QED
    BY <1>19, <2>1 DEF G
<1> QED
  BY <1>1, <1>17, <1>21

\* It is what market data sums.
LEMMA TableDepthIs ==
  ASSUME ApiInv, NEW s \in Sides, NEW p \in Prices
  PROVE  TableDepth(s, p) = SumAt(market.items, s, p)
<1>1. PICK n, M, f : n = Len(rows) /\ M = MaxOrders /\ f = Share(market.items, s, p)
  OBVIOUS
<1>2. n \in Nat /\ M \in Nat /\ n <= M /\ DOMAIN rows = 1..n
  BY <1>1, BookTyped, ApiAssumption DEF ApiInv, ViewInv
<1>3. \A i \in 1..M : f[i] \in Nat /\ f[i] = IF i <= n THEN TableShare(s, p, i) ELSE 0
  <2>1. market.items \in Items
    BY DEF ApiInv, ViewInv, Views
  <2>2. \A i \in 1..M : f[i] \in 0..MaxInt64
    BY <1>1, <2>1, ShareType
  <2>3. \A i \in 1..M : f[i] = IF i \in 1..n THEN TableShare(s, p, i) ELSE 0
    BY <1>1, <1>2, ShareIs
  <2> QED
    BY <1>2, <2>2, <2>3, TextAssumption
<1>4. PICK e : /\ e[0] = 0 /\ e[n] = TableDepth(s, p)
               /\ \A k \in 1..n : e[k] = e[k - 1] + TableShare(s, p, k) /\ e[k - 1] \in Nat
  BY <1>1, TableDepthCounts
<1>5. \A k \in 0..M : IsFiniteSet(1..k) /\ (\A i \in 1..k : f[i] \in Nat)
  BY <1>2, <1>3, FS_Interval, SMTT(30)
<1> DEFINE G == {k \in 0..n : e[k] = Sum(f, 1..k)}
<1>6. 0 \in G
  <2>1. 1..0 = {}
    OBVIOUS
  <2> QED
    BY <1>2, <1>4, <2>1, SumOfNothing
<1>7. ASSUME NEW k \in 1..n, k - 1 \in G PROVE k \in G
  <2>1. k \in 1..M /\ k \in 0..M /\ k \in 1..k /\ (1..k) \ {k} = 1..(k - 1)
    BY <1>2
  <2>2. Sum(f, 1..k) = f[k] + Sum(f, 1..(k - 1))
    <3>1. PICK S : S = 1..k
      OBVIOUS
    <3>2. IsFiniteSet(S) /\ (\A i \in S : f[i] \in Nat) /\ k \in S
      BY <1>5, <2>1, <3>1
    <3>3. Sum(f, S) = f[k] + Sum(f, S \ {k})
      BY ONLY <3>2, SumWithout
    <3> QED
      BY <2>1, <3>1, <3>3
  <2>3. e[k] = e[k - 1] + f[k] /\ e[k - 1] = Sum(f, 1..(k - 1)) /\ e[k - 1] \in Nat /\ f[k] \in Nat
    <3>1. e[k] = e[k - 1] + TableShare(s, p, k) /\ e[k - 1] \in Nat
      BY <1>4
    <3>2. f[k] \in Nat /\ f[k] = TableShare(s, p, k)
      <4>1. k <= n
        BY <1>2
      <4> QED
        BY <1>3, <2>1, <4>1
    <3>3. e[k - 1] = Sum(f, 1..(k - 1))
      BY <1>7
    <3> QED
      BY <3>1, <3>2, <3>3
  <2> QED
    BY <2>2, <2>3
<1> HIDE DEF G
<1>8. 0..n \subseteq G
  BY <1>2, <1>6, <1>7, CountingUp
<1>9. Sum(f, 1..n) = TableDepth(s, p)
  BY <1>2, <1>4, <1>8 DEF G
<1> DEFINE H == {k \in 0..(M - n) : Sum(f, 1..(n + k)) = Sum(f, 1..n)}
<1>10. 0 \in H
  BY <1>2
<1>11. ASSUME NEW k \in 1..(M - n), k - 1 \in H PROVE k \in H
  <2>1. PICK x : x = n + k
    OBVIOUS
  <2>2. x \in 1..M /\ x \in 0..M /\ ~ (x <= n) /\ (1..x) \ {x} = 1..(x - 1) /\ x - 1 = n + (k - 1)
    BY <1>2, <2>1
  <2>3. Sum(f, 1..x) = Sum(f, 1..(x - 1))
    <3>1. PICK S : S = 1..x
      OBVIOUS
    <3>2. IsFiniteSet(S) /\ (\A i \in S : f[i] \in Nat) /\ f[x] = 0
      BY <1>3, <1>5, <2>2, <3>1
    <3>3. Sum(f, S) = Sum(f, S \ {x})
      BY ONLY <3>2, SumWithoutZero
    <3> QED
      BY <2>2, <3>1, <3>3
  <2> QED
    BY <1>2, <1>11, <2>1, <2>2, <2>3
<1>12. M - n \in Nat
  BY <1>2
<1>13. M - n \in H
  <2> HIDE DEF H
  <2>1. 0..(M - n) \subseteq H
    BY <1>10, <1>11, <1>12, CountingUp
  <2> QED
    BY <1>12, <2>1
<1>14. Sum(f, 1..M) = Sum(f, 1..n)
  BY <1>2, <1>13
<1> QED
  BY <1>1, <1>9, <1>14 DEF SumAt

\* Of a list in an order, the first n are before all the others.
LEMMA FirstOfList ==
  ASSUME NEW S, IsFiniteSet(S), NEW R, TotalOrder(R, S), NEW s, Lists(s, S, R), NEW n \in Nat
  PROVE  LET shown == ToSet(First(s, n))
         IN /\ shown \subseteq S
            /\ S \ shown # {} => Cardinality(shown) = n
            /\ \A x \in shown, y \in S \ shown : <<x, y>> \in R
<1> PICK f : f = First(s, n)
  OBVIOUS
<1> PICK shown : shown = ToSet(f)
  OBVIOUS
<1> PICK c \in Nat : c = Cardinality(S)
  BY FS_CardinalityType
<1>2. s \in [1..c -> S] /\ \A i, j \in 1..c : i < j => <<s[i], s[j]>> \in R
  BY DEF Lists
<1>3. \A x \in S : \E i \in 1..c : s[i] = x
  <2>1. \A x \in S : \E i \in DOMAIN s : s[i] = x
    BY ListsAll
  <2> QED
    BY <1>2, <2>1
<1>4. s \in Seq(S) /\ Len(s) = c
  BY <1>2
<1> PICK m : m = Len(f)
  OBVIOUS
<1>5. /\ m = IF c > n THEN n ELSE c
      /\ f \in Seq(S) /\ DOMAIN f = 1..m
      /\ \A i \in 1..m : i \in 1..c /\ f[i] = s[i]
  BY <1>2, <1>4, FirstOnes
<1>6. m \in Nat
  BY <1>5
<1>7. shown = {f[i] : i \in 1..m} /\ shown \in SUBSET S
  BY <1>5 DEF ToSet
<1>8. ASSUME NEW y \in S \ shown
      PROVE  m = n /\ \A x \in shown : <<x, y>> \in R
  <2>1. PICK k \in 1..c : s[k] = y
    BY <1>3
  <2>2. k \notin 1..m
    BY <1>5, <1>7, <2>1
  <2>3. m < k /\ m = n
    BY <1>5, <1>6, <2>2
  <2>4. ASSUME NEW i \in 1..m PROVE <<f[i], y>> \in R
    <3>1. i \in 1..c /\ i < k /\ f[i] = s[i]
      BY <1>5, <1>6, <2>3
    <3> QED
      BY <1>2, <2>1, <3>1
  <2> QED
    BY <1>7, <2>3, <2>4
<1>9. Cardinality(shown) = m
  <2>1. ASSUME NEW i \in 1..m, NEW j \in 1..m, f[i] = f[j] PROVE i = j
    <3>1. i \in 1..c /\ j \in 1..c /\ s[i] = s[j] /\ s[i] \in S
      BY <1>2, <1>5, <2>1
    <3>2. <<s[i], s[i]>> \notin R
      BY <3>1 DEF TotalOrder
    <3>3. ~ (i < j) /\ ~ (j < i)
      BY <1>2, <3>1, <3>2
    <3> QED
      BY <3>1, <3>3
  <2>2. f \in [1..m -> shown]
    BY <1>5, <1>7
  <2>3. f \in Bijection(1..m, shown)
    BY <1>7, <2>1, <2>2 DEF Bijection, Injection, Surjection, IsInjective
  <2>4. ExistsBijection(1..m, shown)
    BY <2>3 DEF ExistsBijection
  <2> QED
    BY <1>6, <2>4, FS_CountingElements
<1> QED
  BY <1>7, <1>8, <1>9

\* The best prices of a side.
LEMMA BestFirst ==
  ASSUME NEW S \in SUBSET Nat, IsFiniteSet(S), NEW n \in Nat
  PROVE  LET down == ToSet(First(InOrderOf(S, >), n))
             up   == ToSet(First(InOrderOf(S, <), n))
         IN /\ down \subseteq S /\ (S \ down # {} => Cardinality(down) = n)
            /\ \A p \in down, q \in S \ down : p > q
            /\ up \subseteq S /\ (S \ up # {} => Cardinality(up) = n)
            /\ \A p \in up, q \in S \ up : p < q
<1>1. /\ TotalOrder(Above, S) /\ TotalOrder(Below, S)
      /\ \A x, y \in S : (<<x, y>> \in Above <=> x > y) /\ (<<x, y>> \in Below <=> x < y)
  BY NumbersAreOrdered
<1>2. PICK s, t : s = InOrderOf(S, >) /\ t = InOrderOf(S, <)
  OBVIOUS
<1>3. Lists(s, S, Above) /\ Lists(t, S, Below)
  BY <1>2, SortedDown, SortedUp
<1>4. PICK down, up : down = ToSet(First(s, n)) /\ up = ToSet(First(t, n))
  OBVIOUS
<1>5. /\ down \subseteq S /\ (S \ down # {} => Cardinality(down) = n)
      /\ \A p \in down, q \in S \ down : <<p, q>> \in Above
  BY <1>1, <1>3, <1>4, FirstOfList
<1>6. /\ up \subseteq S /\ (S \ up # {} => Cardinality(up) = n)
      /\ \A p \in up, q \in S \ up : <<p, q>> \in Below
  BY <1>1, <1>3, <1>4, FirstOfList
<1> QED
  BY <1>1, <1>2, <1>4, <1>5, <1>6

\* A parameter that is in bounds is the number it was written for.
LEMMA ParamRead ==
  ASSUME NEW n \in 1..MaxDepth
  PROVE  ParseBoundedPositiveInt(Param(n), DefaultDepth, MaxDepth) = Number(n)
<1>1. n \in 1..MaxInt64 /\ n \in Nat /\ ~ (n <= 0) /\ ~ (n > MaxDepth)
  BY ApiAssumption, TextAssumption
<1>2. PICK t, a : t = Param(n) /\ a = FormatInt(n)
  OBVIOUS
<1>3. t.sign = "" /\ t.whole = a /\ ~ t.padded /\ ~ t.point
  BY <1>2 DEF Param, Text
<1>4. a # <<>> /\ ParseInt("", a) = Number(n)
  BY <1>1, <1>2, IntRead, PriceReadBack
<1>5. t # EmptyText
  <2>1. EmptyText.whole = <<>>
    BY DEF EmptyText, Text
  <2> QED
    BY <1>3, <1>4, <2>1
<1> QED
  BY <1>1, <1>2, <1>3, <1>4, <1>5, Outcomes DEF ParseBoundedPositiveInt

\* Levels that are read back are the numbers that were written.
LEMMA LevelsRead ==
  ASSUME NEW side, NEW n \in Nat, NEW S \in SUBSET (1..MaxInt64),
         \A p \in S : market.depth[side][p] \in 1..MaxInt64,
         NEW prices \in Seq(S)
  PROVE  ReadBack(First([i \in DOMAIN prices |-> LevelOf(side, prices[i])], n))
           = {<<p, market.depth[side][p]>> : p \in ToSet(First(prices, n))}
<1>1. PICK all : all = [i \in DOMAIN prices |-> LevelOf(side, prices[i])]
  OBVIOUS
<1>2. PICK L : L = {LevelOf(side, p) : p \in S}
  OBVIOUS
<1>3. PICK c \in Nat : c = Len(prices) /\ DOMAIN prices = 1..c
  OBVIOUS
<1>4. \A i \in 1..c : prices[i] \in S
  BY <1>3
<1>5. all \in Seq(L) /\ Len(all) = c /\ \A i \in 1..c : all[i] = LevelOf(side, prices[i])
  <2>1. all = [i \in 1..c |-> LevelOf(side, prices[i])] /\ \A i \in 1..c : LevelOf(side, prices[i]) \in L
    BY <1>1, <1>2, <1>3, <1>4
  <2> QED
    BY ONLY <2>1, c \in Nat
<1>6. PICK f, g : f = First(all, n) /\ g = First(prices, n)
  OBVIOUS
<1>7. PICK m : m = IF c > n THEN n ELSE c
  OBVIOUS
<1>8. DOMAIN f = 1..m /\ \A i \in 1..m : i \in 1..c /\ f[i] = all[i]
  BY <1>5, <1>6, <1>7, FirstOnes
<1>9. DOMAIN g = 1..m /\ \A i \in 1..m : i \in 1..c /\ g[i] = prices[i]
  BY <1>3, <1>6, <1>7, FirstOnes
<1>10. \A i \in 1..m : f[i] = LevelOf(side, g[i]) /\ g[i] \in S
  BY <1>4, <1>5, <1>8, <1>9
<1>11. \A p \in S : LET l == LevelOf(side, p)
                    IN <<ParsePriceKRWMinor(l.price).value, ParseQuantityScaled(l.qty).value>>
                         = <<p, market.depth[side][p]>>
  <2> SUFFICES ASSUME NEW p \in S
               PROVE  /\ ParsePriceKRWMinor(LevelOf(side, p).price).value = p
                      /\ ParseQuantityScaled(LevelOf(side, p).qty).value = market.depth[side][p]
    OBVIOUS
  <2>1. PICK d : d = market.depth[side][p]
    OBVIOUS
  <2>2. p \in 1..MaxInt64 /\ d \in 1..MaxInt64
    BY <2>1
  <2>3. ParsePriceKRWMinor(FormatPriceKRWMinor(p)) = Number(p)
    BY <2>2, PriceReadBack
  <2>4. ParseQuantityScaled(FormatQuantityScaled(d)) = Number(d)
    BY <2>2, QuantityReadBack
  <2> QED
    BY <2>1, <2>3, <2>4, Outcomes DEF LevelOf, FormatPrice, FormatQuantity
<1>12. ReadBack(f) = {<<p, market.depth[side][p]>> : p \in ToSet(g)}
  <2>1. ToSet(f) = {f[i] : i \in 1..m} /\ ToSet(g) = {g[i] : i \in 1..m}
    BY <1>8, <1>9 DEF ToSet
  <2>2. \A i \in 1..m : <<ParsePriceKRWMinor(f[i].price).value, ParseQuantityScaled(f[i].qty).value>>
                          = <<g[i], market.depth[side][g[i]]>>
    BY <1>10, <1>11
  <2> QED
    BY <2>1, <2>2 DEF ReadBack
<1> QED
  BY <1>1, <1>6, <1>12

\* Prices that market data has something of.
Offered(side) == {p \in Prices : market.depth[side][p] > 0}

\* What is answered, read back.
LEMMA ShownAre ==
  ASSUME ApiInv, NEW n \in 1..MaxDepth, NEW s \in Sides
  PROVE  \E best :
           /\ Shown(s, n) = {<<p, market.depth[s][p]>> : p \in best}
           /\ best \subseteq Offered(s) /\ (Offered(s) \ best # {} => Cardinality(best) = n)
           /\ \A p \in best, q \in Offered(s) \ best : IF s = "buy" THEN p > q ELSE p < q
<1>1. PICK S : S = Offered(s)
  OBVIOUS
<1>2. /\ S \in SUBSET (1..MaxInt64) /\ S \in SUBSET Nat /\ IsFiniteSet(S)
      /\ \A p \in S : market.depth[s][p] \in 1..MaxInt64
  <2>1. S \in SUBSET (1..MaxInt64)
    BY <1>1, PricesType DEF Offered
  <2>2. IsFiniteSet(S)
    <3>1. IsFiniteSet(1..MaxInt64)
      BY FS_Interval, TextAssumption
    <3> QED
      BY <2>1, <3>1, FS_Subset
  <2>3. ASSUME NEW p \in S PROVE market.depth[s][p] \in 1..MaxInt64
    <3>1. p \in Prices /\ market.depth[s][p] > 0
      BY <1>1 DEF Offered
    <3>2. market.depth[s][p] \in 0..MaxInt64
      BY <3>1 DEF ApiInv, ViewInv, Views
    <3> QED
      BY <3>1, <3>2, TextAssumption
  <2>4. 1..MaxInt64 \subseteq Nat
    BY TextAssumption
  <2> QED
    BY <2>1, <2>2, <2>3, <2>4
<1>3. n \in Nat
  BY ApiAssumption, TextAssumption
<1>4. Number(n).err = "none" /\ Number(n).value = n
  BY Outcomes
<1>5. CASE s = "buy"
  <2>1. PICK prices : prices = InOrderOf(S, >)
    OBVIOUS
  <2>2. PICK levels : levels = First([i \in DOMAIN prices |-> LevelOf(s, prices[i])], n)
    OBVIOUS
  <2>3. OrderBookAnswer(Param(n))[s] = levels
    BY <1>1, <1>4, <1>5, <2>1, <2>2, ParamRead DEF OrderBookAnswer, Levels, Offered
  <2>4. prices \in Seq(S)
    <3>1. Lists(prices, S, Above)
      BY <1>2, <2>1, SortedDown
    <3>2. PICK c \in Nat : c = Cardinality(S)
      BY <1>2, FS_CardinalityType
    <3> QED
      BY <3>1, <3>2 DEF Lists
  <2>5. Shown(s, n) = {<<p, market.depth[s][p]>> : p \in ToSet(First(prices, n))}
    BY <1>2, <1>3, <2>2, <2>3, <2>4, LevelsRead DEF Shown
  <2>6. PICK best : best = ToSet(First(prices, n))
    OBVIOUS
  <2>7. /\ best \subseteq S /\ (S \ best # {} => Cardinality(best) = n)
        /\ \A p \in best, q \in S \ best : p > q
    BY <1>2, <1>3, <2>1, <2>6, BestFirst
  <2> QED
    BY <1>1, <1>5, <2>5, <2>6, <2>7
<1>6. CASE s = "sell"
  <2>1. PICK prices : prices = InOrderOf(S, <)
    OBVIOUS
  <2>2. PICK levels : levels = First([i \in DOMAIN prices |-> LevelOf(s, prices[i])], n)
    OBVIOUS
  <2>3. OrderBookAnswer(Param(n))[s] = levels
    BY <1>1, <1>4, <1>6, <2>1, <2>2, ParamRead DEF OrderBookAnswer, Levels, Offered
  <2>4. prices \in Seq(S)
    <3>1. Lists(prices, S, Below)
      BY <1>2, <2>1, SortedUp
    <3>2. PICK c \in Nat : c = Cardinality(S)
      BY <1>2, FS_CardinalityType
    <3> QED
      BY <3>1, <3>2 DEF Lists
  <2>5. Shown(s, n) = {<<p, market.depth[s][p]>> : p \in ToSet(First(prices, n))}
    BY <1>2, <1>3, <2>2, <2>3, <2>4, LevelsRead DEF Shown
  <2>6. PICK best : best = ToSet(First(prices, n))
    OBVIOUS
  <2>7. /\ best \subseteq S /\ (S \ best # {} => Cardinality(best) = n)
        /\ \A p \in best, q \in S \ best : p < q
    BY <1>2, <1>3, <2>1, <2>6, BestFirst
  <2> QED
    BY <1>1, <1>6, <2>5, <2>6, <2>7
<1> QED
  BY <1>5, <1>6 DEF Sides

\* What is answered for any depth is what the table has at its best prices, once it is read
\* back, and never more than it has (readmodel.go:90, 162, 362).
THEOREM AnswersShowTable == Spec => []AnsweredDepthIsTable
<1>1. ApiInv => AnsweredDepthIsTable
  <2> SUFFICES ASSUME ApiInv, NEW n \in 1..MaxDepth, NEW s \in Sides
               PROVE  LET shown  == Shown(s, n)
                          prices == {l[1] : l \in shown}
                          live   == {p \in Prices : TableDepth(s, p) > 0}
                      IN /\ \A l \in shown : l[2] \in 1..TableDepth(s, l[1])
                         /\ ~ market.wrapped =>
                              /\ \A l \in shown : l[1] \in live /\ l[2] = TableDepth(s, l[1])
                              /\ live \ prices # {} => Cardinality(prices) = n
                              /\ \A p \in prices, q \in live \ prices :
                                   IF s = "buy" THEN p > q ELSE p < q
    BY DEF AnsweredDepthIsTable
  <2>1. PICK best : /\ Shown(s, n) = {<<p, market.depth[s][p]>> : p \in best}
                    /\ best \subseteq Offered(s)
                    /\ Offered(s) \ best # {} => Cardinality(best) = n
                    /\ \A p \in best, q \in Offered(s) \ best : IF s = "buy" THEN p > q ELSE p < q
    BY ShownAre
  <2>2. PICK shown, prices, live :
          /\ shown = Shown(s, n) /\ prices = {l[1] : l \in shown}
          /\ live = {p \in Prices : TableDepth(s, p) > 0}
    OBVIOUS
  <2>3. prices = best /\ \A l \in shown : l[1] \in best /\ l[2] = market.depth[s][l[1]]
    <3>1. PICK D : D = market.depth[s]
      OBVIOUS
    <3>2. shown = {<<p, D[p]>> : p \in best} /\ prices = {l[1] : l \in shown}
      BY <2>1, <2>2, <3>1
    <3>3. \A l \in shown : l[1] \in best /\ l[2] = D[l[1]]
      BY ONLY <3>2
    <3>4. \A p \in best : <<p, D[p]>> \in shown /\ <<p, D[p]>>[1] = p
      BY ONLY <3>2
    <3>5. prices = best
      BY ONLY <3>2, <3>3, <3>4
    <3> QED
      BY <3>1, <3>3, <3>5
  <2>4. ASSUME NEW p \in Prices
        PROVE  /\ market.depth[s][p] \in Nat /\ TableDepth(s, p) \in Nat
               /\ market.depth[s][p] <= TableDepth(s, p)
               /\ ~ market.wrapped => market.depth[s][p] = TableDepth(s, p)
    <3>1. TableDepth(s, p) = SumAt(market.items, s, p)
      BY TableDepthIs
    <3>2. market.depth[s][p] \in 0..MaxInt64 /\ market.items \in Items
      BY DEF ApiInv, ViewInv, Views
    <3>3. SumAt(market.items, s, p) \in Nat
      BY <3>2, ShareType
    <3>4. /\ market.depth[s][p] <= SumAt(market.items, s, p)
          /\ ~ market.wrapped => market.depth[s][p] = SumAt(market.items, s, p)
      BY DEF ApiInv, ViewInv, DepthInv
    <3> QED
      BY <3>1, <3>2, <3>3, <3>4, TextAssumption
  <2>5. best \subseteq Prices /\ \A p \in best : market.depth[s][p] > 0
    BY <2>1 DEF Offered
  <2>6. \A l \in shown : l[2] \in 1..TableDepth(s, l[1])
    <3> SUFFICES ASSUME NEW l \in shown PROVE l[2] \in 1..TableDepth(s, l[1])
      OBVIOUS
    <3>1. PICK p, d : p = l[1] /\ d = l[2]
      OBVIOUS
    <3>2. p \in Prices /\ d = market.depth[s][p] /\ d > 0
      BY <2>3, <2>5, <3>1
    <3> QED
      BY <2>4, <3>1, <3>2
  <2>7. ASSUME ~ market.wrapped
        PROVE  /\ \A l \in shown : l[1] \in live /\ l[2] = TableDepth(s, l[1])
               /\ live \ prices # {} => Cardinality(prices) = n
               /\ \A p \in prices, q \in live \ prices : IF s = "buy" THEN p > q ELSE p < q
    <3>1. live = Offered(s)
      BY <2>2, <2>4, <2>7 DEF Offered
    <3>2. \A l \in shown : l[1] \in live /\ l[2] = TableDepth(s, l[1])
      BY <2>1, <2>3, <2>4, <2>5, <2>7, <3>1
    <3> QED
      BY <2>1, <2>3, <3>1, <3>2
  <2> QED
    BY <2>2, <2>6, <2>7
<1> QED
  BY <1>1, ApiInvariant, PTL

----------------------------------------------------------------------------
(* The exchange *)

\* What the book has of each order.
Rems == [m \in DOMAIN book |-> book[m].rem]

\* The makers that the taker meets first.
UpTo(makers, k) == {makers[j] : j \in 1..k}

LEMMA UpToGrows ==
  ASSUME IsFiniteSet(DOMAIN book), NEW makers \in Seq(DOMAIN book), Distinct(makers),
         NEW k \in 1..Len(makers)
  PROVE  /\ UpTo(makers, k) = UpTo(makers, k - 1) \cup {makers[k]}
         /\ makers[k] \notin UpTo(makers, k - 1) /\ makers[k] \in DOMAIN book
         /\ UpTo(makers, k - 1) \in SUBSET (DOMAIN book) /\ IsFiniteSet(UpTo(makers, k - 1))
<1> PICK n : n = Len(makers)
  OBVIOUS
<1>1. n \in Nat /\ \A j \in 1..n : makers[j] \in DOMAIN book
  OBVIOUS
<1>2. (\A j \in 1..(k - 1) : j \in 1..n /\ j # k /\ j \in 1..k)
      /\ \A j \in 1..k : j = k \/ j \in 1..(k - 1)
  BY <1>1
<1>3. UpTo(makers, k - 1) \in SUBSET (DOMAIN book)
  BY <1>1, <1>2 DEF UpTo
<1>4. makers[k] \notin UpTo(makers, k - 1)
  BY <1>2 DEF UpTo, Distinct
<1>5. UpTo(makers, k) = UpTo(makers, k - 1) \cup {makers[k]}
  <2>1. k \in 1..k
    BY <1>1
  <2> QED
    BY <1>2, <2>1 DEF UpTo
<1>6. IsFiniteSet(UpTo(makers, k - 1))
  BY <1>3, FS_Subset
<1> QED
  BY <1>1, <1>3, <1>4, <1>5, <1>6

\* What is left of the taker is what the makers it met had less of than it wants.
LeftAfter(r, makers, k) ==
  /\ Sum(Rems, UpTo(makers, k)) \in Nat
  /\ r[k].rem = IF Sum(Rems, UpTo(makers, k)) >= r[0].rem THEN 0
                ELSE r[0].rem - Sum(Rems, UpTo(makers, k))

LEMMA WalkLeft ==
  ASSUME BookType, IsFiniteSet(DOMAIN book), NEW makers \in Seq(DOMAIN book), Distinct(makers),
         NEW r, Meets(r, makers)
  PROVE  \A k \in 0..Len(makers) : LeftAfter(r, makers, k)
<1> PICK n : n = Len(makers)
  OBVIOUS
<1>1. n \in Nat /\ r[0] \in Results /\ r[0].rem \in Nat
  <2>1. 0 \in 0..Len(makers)
    OBVIOUS
  <2> QED
    BY <2>1 DEF Meets, Results
<1>2. LeftAfter(r, makers, 0)
  <2>1. UpTo(makers, 0) = {}
    BY DEF UpTo
  <2>2. Sum(Rems, UpTo(makers, 0)) = 0
    BY <2>1, SumOfNothing
  <2> QED
    BY <1>1, <2>2 DEF LeftAfter
<1>3. ASSUME NEW k \in 1..n, LeftAfter(r, makers, k - 1) PROVE LeftAfter(r, makers, k)
  <2> PICK m, old, ahead, Q :
        /\ m = makers[k] /\ old = UpTo(makers, k - 1) /\ ahead = Sum(Rems, old) /\ Q = r[0].rem
    OBVIOUS
  <2>1. /\ UpTo(makers, k) = old \cup {m} /\ m \notin old /\ m \in DOMAIN book
        /\ old \in SUBSET (DOMAIN book) /\ IsFiniteSet(old)
    BY UpToGrows
  <2>2. Rems[m] = book[m].rem /\ Rems[m] \in Nat /\ \A x \in old : Rems[x] \in Nat
    BY <2>1 DEF Rems, BookType
  <2>3. Sum(Rems, UpTo(makers, k)) = Rems[m] + ahead
    BY <2>1, <2>2, SumWith
  <2>4. /\ r[k].rem = r[k - 1].rem - Part(r[k - 1].rem, m) /\ r[k - 1].rem \in Nat
    BY WalkStep DEF Results
  <2>5. ahead \in Nat /\ r[k - 1].rem = IF ahead >= Q THEN 0 ELSE Q - ahead
    BY <1>3 DEF LeftAfter
  <2>6. r[k].rem = IF Rems[m] + ahead >= Q THEN 0 ELSE Q - (Rems[m] + ahead)
    BY <1>1, <2>2, <2>4, <2>5, SMTT(30) DEF Part
  <2> QED
    BY <2>2, <2>3, <2>5, <2>6 DEF LeftAfter
<1> DEFINE G == {k \in 0..n : LeftAfter(r, makers, k)}
<1>4. 0 \in G /\ \A k \in 1..n : k - 1 \in G => k \in G
  BY <1>1, <1>2, <1>3
<1> HIDE DEF G
<1>5. 0..n \subseteq G
  BY <1>1, <1>4, CountingUp
<1> QED
  BY <1>5 DEF G

\* And what it took is the sum of its fills.
Hits(makers, q, k) == {makers[j] : j \in {x \in 1..k : q[x] > 0}}

LEMMA WalkTook ==
  ASSUME BookType, IsFiniteSet(DOMAIN book), NEW makers \in Seq(DOMAIN book), Distinct(makers),
         NEW r, Meets(r, makers), NEW q, q = Parts(r, makers),
         NEW f, \A j \in 1..Len(makers) : f[makers[j]] = q[j]
  PROVE  \A k \in 0..Len(makers) : r[0].rem - r[k].rem = Sum(f, Hits(makers, q, k))
<1> PICK n : n = Len(makers)
  OBVIOUS
<1>1. n \in Nat /\ r[0] \in Results /\ r[0].rem \in Nat
  <2>1. 0 \in 0..Len(makers)
    OBVIOUS
  <2> QED
    BY <2>1 DEF Meets, Results
<1> DEFINE C(k) == r[0].rem - r[k].rem = Sum(f, Hits(makers, q, k))
<1>2. C(0)
  <2>1. Hits(makers, q, 0) = {}
    BY DEF Hits
  <2>2. Sum(f, Hits(makers, q, 0)) = 0
    BY <2>1, SumOfNothing
  <2> QED
    BY <1>1, <2>2
<1>3. ASSUME NEW k \in 1..n, C(k - 1) PROVE C(k)
  <2> PICK m, old : m = makers[k] /\ old = Hits(makers, q, k - 1)
    OBVIOUS
  <2>1. /\ q[k] \in Nat /\ r[k].rem = r[k - 1].rem - q[k] /\ r[k - 1].rem \in Nat
    BY WalkStep DEF Results
  <2>2. m \notin UpTo(makers, k - 1) /\ IsFiniteSet(UpTo(makers, k - 1))
    BY UpToGrows
  <2>3. old \subseteq UpTo(makers, k - 1)
    BY DEF Hits, UpTo
  <2>4. m \notin old /\ IsFiniteSet(old)
    BY <2>2, <2>3, FS_Subset
  <2>5. (\A j \in 1..(k - 1) : j \in 1..n /\ j \in 1..k) /\ (\A j \in 1..k : j = k \/ j \in 1..(k - 1))
        /\ k \in 1..k
    BY <1>1
  <2>6. CASE q[k] = 0
    <3>1. Hits(makers, q, k) = old
      BY <2>5, <2>6 DEF Hits
    <3> QED
      BY <1>1, <1>3, <2>1, <2>6, <3>1
  <2>7. CASE q[k] # 0
    <3>1. q[k] > 0
      BY <2>1, <2>7
    <3>2. Hits(makers, q, k) = old \cup {m}
      BY <2>5, <3>1 DEF Hits
    <3>3. f[m] = q[k] /\ f[m] \in Nat /\ \A x \in old : f[x] \in Nat
      <4>1. \A j \in 1..n : q[j] \in Nat /\ f[makers[j]] = q[j]
        BY WalkStep
      <4>2. \A x \in old : \E j \in 1..(k - 1) : x = makers[j]
        BY DEF Hits
      <4> QED
        BY <2>1, <2>5, <4>1, <4>2, SMTT(30)
    <3>4. Sum(f, Hits(makers, q, k)) = f[m] + Sum(f, old) /\ Sum(f, old) \in Nat
      BY <2>4, <3>2, <3>3, SumWith, SumType, SMTT(30)
    <3> QED
      BY <1>1, <1>3, <2>1, <3>3, <3>4
  <2> QED
    BY <2>6, <2>7
<1> HIDE DEF C
<1> DEFINE G == {k \in 0..n : C(k)}
<1>4. 0 \in G /\ \A k \in 1..n : k - 1 \in G => k \in G
  BY <1>1, <1>2, <1>3
<1> HIDE DEF G
<1>5. 0..n \subseteq G
  BY <1>1, <1>4, CountingUp
<1>6. \A k \in 0..n : C(k)
  BY <1>5 DEF G
<1> QED
  BY <1>6 DEF C

\* The orders of the exchange, as the table has them.
AsNumbers == [i \in DOMAIN rows |->
               [side |-> rows[i].side, price |-> PriceOf[rows[i].price].value,
                qty |-> QuantityOf[rows[i].qty].value, rem |-> Scaled(rows[i].rem),
                status |-> rows[i].status]]

LEMMA AsNumbersIs ==
  ASSUME TableInv
  PROVE  /\ DOMAIN AsNumbers = 1..Len(rows) /\ Len(AsNumbers) = Len(rows) /\ Len(rows) \in Nat
         /\ \A i \in 1..Len(rows) :
              /\ AsNumbers[i].side = rows[i].side /\ rows[i].side \in Sides
              /\ AsNumbers[i].price = PriceOf[rows[i].price].value
              /\ AsNumbers[i].price \in Nat
              /\ AsNumbers[i].qty = QuantityOf[rows[i].qty].value
              /\ AsNumbers[i].rem = Scaled(rows[i].rem) /\ AsNumbers[i].rem \in Nat
              /\ AsNumbers[i].status = rows[i].status
<1>1. DOMAIN rows = 1..Len(rows) /\ Len(rows) \in Nat
  BY BookTyped
<1>2. \A i \in DOMAIN rows : RowOk(rows[i])
  BY DEF TableInv
<1>3. \A i \in DOMAIN rows : /\ rows[i].side \in Sides /\ Scaled(rows[i].rem) \in Nat
                             /\ PriceOf[rows[i].price].value \in Nat
  BY <1>2, PriceValue, TextAssumption DEF RowOk, Row, Accepted
<1> QED
  BY <1>1, <1>3 DEF AsNumbers

\* The exchange's notions are the book's, for the order that is being matched.
LEMMA SameMakers ==
  ASSUME TableInv, matching # 0
  PROVE  /\ Abstract!Makers(matching) = Crossed(matching)
         /\ \A m, n \in Crossed(matching) :
              Abstract!Before(n, m) <=> MetBefore(rows[matching].side, n, m)
<1> PICK i, N, len : i = matching /\ N = AsNumbers /\ len = Len(rows)
  OBVIOUS
<1>1. /\ len \in Nat /\ DOMAIN N = 1..len
      /\ \A k \in 1..len : /\ N[k].side = rows[k].side /\ rows[k].side \in Sides
                           /\ N[k].price = PriceOf[rows[k].price].value
                           /\ N[k].price \in Nat
                           /\ N[k].status = rows[k].status
  BY AsNumbersIs
<1>2. i \in 1..len /\ DOMAIN rows = 1..len
  BY <1>1, BookTyped DEF TableInv
<1>3. /\ DOMAIN book = Live \ {i}
      /\ \A m \in DOMAIN book : m \in 1..len /\ book[m].price = N[m].price
  BY <1>1, <1>2, BookTyped
<1>4. \A m : m \in Abstract!Makers(i) <=>
              /\ m \in 1..len /\ N[m].status \in {"open", "partially_filled"}
              /\ N[m].side # N[i].side
              /\ IF N[i].side = "buy" THEN N[m].price <= N[i].price ELSE N[m].price >= N[i].price
  BY <1>1 DEF Abstract!Makers, Abstract!Live, Abstract!Crosses, AsNumbers
<1>5. \A m : m \in Crossed(i) <=>
              /\ m \in DOMAIN book /\ rows[m].side # rows[i].side
              /\ IF rows[i].side = "buy" THEN book[m].price <= N[i].price
                                         ELSE book[m].price >= N[i].price
  BY <1>1, <1>2 DEF Crossed
<1>6. \A m : m \in DOMAIN book <=> m \in 1..len /\ N[m].status \in {"open", "partially_filled"} /\ m # i
  BY <1>1, <1>2, <1>3 DEF Live, Restable
<1>7. Abstract!Makers(i) = Crossed(i)
  <2>1. \A m : m \in Abstract!Makers(i) <=> m \in Crossed(i)
    BY <1>1, <1>2, <1>3, <1>4, <1>5, <1>6
  <2> QED
    BY <2>1
<1>8. ASSUME NEW m \in Crossed(i), NEW n \in Crossed(i)
      PROVE  Abstract!Before(n, m) <=> MetBefore(rows[i].side, n, m)
  <2>1. /\ m \in 1..len /\ n \in 1..len /\ N[n].side # N[i].side
        /\ book[m].price = N[m].price /\ book[n].price = N[n].price
    BY <1>1, <1>2, <1>3, <1>5
  <2>2. N[n].side = IF N[i].side = "buy" THEN "sell" ELSE "buy"
    BY <1>1, <1>2, <2>1 DEF Sides
  <2>3. Abstract!Before(n, m) <=>
          \/ N[n].side = "sell" /\ N[n].price < N[m].price
          \/ N[n].side = "buy" /\ N[n].price > N[m].price
          \/ N[n].price = N[m].price /\ n < m
    BY DEF Abstract!Before, AsNumbers
  <2> QED
    BY <1>1, <1>2, <2>1, <2>2, <2>3 DEF MetBefore
<1> QED
  BY <1>7, <1>8

\* Of the makers, those ahead of one are those that are met before it.
LEMMA SameAheadOnes ==
  ASSUME TableInv, matching # 0, NEW k \in 1..Len(Makers(matching))
  PROVE  {n \in Abstract!Makers(matching) : Abstract!Before(n, Makers(matching)[k])}
           = UpTo(Makers(matching), k - 1)
<1> PICK makers, i, len : makers = Makers(matching) /\ i = matching /\ len = Len(makers)
  OBVIOUS
<1> PICK C : C = Crossed(i)
  OBVIOUS
<1>1. BookType /\ DOMAIN book \in SUBSET Nat /\ IsFiniteSet(DOMAIN book)
  BY BookTyped
<1>2. /\ makers \in Seq(DOMAIN book)
      /\ \A m : m \in C <=> \E j \in 1..len : makers[j] = m
      /\ \A j, h \in 1..len : j < h => MetBefore(rows[i].side, makers[j], makers[h])
  BY <1>1, MakersAre
<1>3. /\ len \in Nat
      /\ \A j \in 1..len : makers[j] \in C /\ makers[j] \in Nat /\ book[makers[j]].price \in Nat
  BY <1>1, <1>2 DEF BookType
<1>4. \A j, h \in 1..len : Abstract!Before(makers[j], makers[h])
                             <=> MetBefore(rows[i].side, makers[j], makers[h])
  BY <1>3, SameMakers
<1>5. ASSUME NEW j \in 1..len PROVE MetBefore(rows[i].side, makers[j], makers[k]) <=> j <= k - 1
  <2>1. CASE j < k
    BY <1>2, <1>3, <2>1
  <2>2. CASE j = k
    BY <1>3, <2>2 DEF MetBefore
  <2>3. CASE j > k
    <3>1. MetBefore(rows[i].side, makers[k], makers[j])
      BY <1>2, <2>3
    <3>2. ~ MetBefore(rows[i].side, makers[j], makers[k])
      BY <1>3, <3>1 DEF MetBefore
    <3> QED
      BY <1>3, <2>3, <3>2
  <2> QED
    BY <1>3, <2>1, <2>2, <2>3
<1>6. {n \in C : Abstract!Before(n, makers[k])} = {makers[j] : j \in 1..(k - 1)}
  <2>1. \A j \in 1..(k - 1) : j \in 1..len /\ j <= k - 1
    BY <1>3
  <2>2. \A j \in 1..len : j <= k - 1 => j \in 1..(k - 1)
    BY <1>3
  <2> QED
    BY <1>2, <1>3, <1>4, <1>5, <2>1, <2>2, SMTT(30)
<1> QED
  BY <1>6, SameMakers DEF UpTo

\* What is ahead of a maker is the same sum.
LEMMA SameAhead ==
  ASSUME TableInv, matching # 0, NEW k \in 1..Len(Makers(matching))
  PROVE  Abstract!AheadOf(matching, Makers(matching)[k]) = Sum(Rems, UpTo(Makers(matching), k - 1))
<1> PICK makers, m, T : /\ makers = Makers(matching) /\ m = makers[k]
                        /\ T = UpTo(makers, k - 1)
  OBVIOUS
<1> DEFINE S == T
           g == CHOOSE h : h = [s \in SUBSET S |->
                  IF s = {} THEN 0
                  ELSE AsNumbers[CHOOSE n \in s : TRUE].rem + h[s \ {CHOOSE n \in s : TRUE}]]
<1>1. S = {n \in Abstract!Makers(matching) : Abstract!Before(n, m)}
  BY SameAheadOnes
<1>2. Abstract!AheadOf(matching, m) = g[S]
  BY <1>1 DEF Abstract!AheadOf, Abstract!MapThenSumSet, Abstract!MapThenFoldSet, AsNumbers
<1> HIDE DEF S
<1>3. IsFiniteSet(S) /\ \A n \in S : Rems[n] \in Nat /\ Rems[n] = AsNumbers[n].rem
  <2>1. /\ BookType /\ DOMAIN book \in SUBSET Nat /\ IsFiniteSet(DOMAIN book)
        /\ DOMAIN rows = 1..Len(rows)
        /\ \A n \in DOMAIN book : n \in DOMAIN rows /\ book[n].rem = Scaled(rows[n].rem)
    BY BookTyped
  <2>2. makers \in Seq(DOMAIN book) /\ Distinct(makers)
    BY <2>1, MakersAre
  <2>3. IsFiniteSet(T) /\ T \in SUBSET (DOMAIN book)
    BY <2>1, <2>2, UpToGrows
  <2>4. \A n \in DOMAIN book : AsNumbers[n].rem = book[n].rem
    BY <2>1, AsNumbersIs
  <2>5. \A n \in DOMAIN book : Rems[n] = book[n].rem /\ Rems[n] \in Nat
    BY <2>1 DEF Rems, BookType
  <2> QED
    BY <2>3, <2>4, <2>5 DEF S
<1>4. PICK h : SumsOver(Rems, h, S)
  BY <1>3, SumsExist
<1>5. \A s \in SUBSET S : s # {} => Rems[CHOOSE n \in s : TRUE] = AsNumbers[CHOOSE n \in s : TRUE].rem
  BY <1>3, OneOf
<1>6. h = [s \in SUBSET S |->
                  IF s = {} THEN 0
                  ELSE AsNumbers[CHOOSE n \in s : TRUE].rem + h[s \ {CHOOSE n \in s : TRUE}]]
  BY <1>4, <1>5 DEF SumsOver, Turn
<1>7. g = [s \in SUBSET S |->
                  IF s = {} THEN 0
                  ELSE AsNumbers[CHOOSE n \in s : TRUE].rem + g[s \ {CHOOSE n \in s : TRUE}]]
  BY <1>6
<1> HIDE DEF g
<1>8. \A s \in SUBSET S : g[s] = Turn(Rems, g, s)
  BY <1>5, <1>7 DEF Turn
<1>9. g[S] = Sum(Rems, S)
  BY <1>3, <1>8, SumOf
<1> QED
  BY <1>2, <1>9 DEF S

\* A fill of the exchange is what the match took.
LEMMA SameFills ==
  ASSUME TableInv, matching # 0
  PROVE  LET fills == MatchResult(matching).fills
         IN /\ \A m \in Crossed(matching) : Abstract!Fill(matching, m) = DeltaOf(fills, m)
            /\ \A m : DeltaOf(fills, m) # 0 => m \in Crossed(matching)
            /\ \A f : f \in ToSet(fills) <=>
                        \E m \in Crossed(matching) :
                          DeltaOf(fills, m) # 0 /\ f = FillOf(m, DeltaOf(fills, m))
<1>20. PICK i, makers, Q, fills, n, C :
        /\ i = matching /\ makers = Makers(i) /\ Q = Scaled(rows[i].rem)
        /\ fills = MatchResult(i).fills /\ n = Len(makers) /\ C = Crossed(i)
  OBVIOUS
<1>1. /\ BookType /\ DOMAIN book \in SUBSET Nat /\ IsFiniteSet(DOMAIN book)
      /\ DOMAIN rows = 1..Len(rows)
      /\ \A m \in DOMAIN book : m \in DOMAIN rows /\ book[m].rem = Scaled(rows[m].rem)
  BY BookTyped
<1>2. makers \in Seq(DOMAIN book) /\ Distinct(makers) /\ Q \in 1..MaxInt64
  BY <1>20, MatchWalk
<1>3. PICK r : Meets(r, makers) /\ r[0].rem = Q /\ r[0].fills = <<>> /\ r[n] = MatchResult(i)
  BY <1>20, MatchWalk
<1>4. PICK q : q = Parts(r, makers)
  OBVIOUS
<1>5. n \in Nat /\ n \in 0..n /\ \A m : m \in C <=> \E k \in 1..n : makers[k] = m
  <2>1. n \in Nat
    BY <1>2, <1>20
  <2> QED
    BY <1>1, <1>20, <2>1, MakersAre
<1>6. /\ \A j \in 1..n : DeltaOf(fills, makers[j]) = q[j]
      /\ \A m : (\A j \in 1..n : makers[j] # m) => DeltaOf(fills, m) = 0
  <2>1. TakesParts(r[n].fills, makers, q, n)
    BY <1>1, <1>2, <1>3, <1>4, <1>5, <1>20, WalkTakes
  <2> QED
    BY <1>3, <1>20, <2>1 DEF TakesParts
<1>7. FillsAre(fills, makers, q, n)
  <2>1. FillsAre(r[n].fills, makers, q, n)
    BY <1>1, <1>2, <1>3, <1>4, <1>5, <1>20, WalkFills
  <2> QED
    BY <1>3, <1>20, <2>1
<1>8. ASSUME NEW k \in 1..n PROVE Abstract!Fill(i, makers[k]) = q[k]
  <2> PICK m, ahead : m = makers[k] /\ ahead = Sum(Rems, UpTo(makers, k - 1))
    OBVIOUS
  <2>1. Abstract!AheadOf(i, m) = ahead
    BY <1>20, SameAhead
  <2>2. LeftAfter(r, makers, k - 1)
    <3>1. k - 1 \in 0..n
      BY <1>5
    <3> QED
      BY <1>1, <1>2, <1>3, <1>20, <3>1, WalkLeft
  <2>3. ahead \in Nat /\ r[k - 1].rem = IF ahead >= Q THEN 0 ELSE Q - ahead
    BY <1>3, <2>2 DEF LeftAfter
  <2>4. q[k] = Part(r[k - 1].rem, m) /\ m \in DOMAIN book
    BY <1>1, <1>2, <1>3, <1>4, <1>20, WalkStep
  <2>5. AsNumbers[i].rem = Q /\ AsNumbers[m].rem = book[m].rem /\ book[m].rem \in Nat /\ Q \in Nat
    <3>1. i \in 1..Len(rows)
      BY <1>1, <1>20 DEF TableInv
    <3> QED
      BY <1>1, <1>2, <1>20, <2>4, <3>1, AsNumbersIs, TextAssumption DEF BookType
  <2>6. Abstract!Fill(i, m) = IF ahead >= Q THEN 0
                              ELSE IF book[m].rem <= Q - ahead THEN book[m].rem ELSE Q - ahead
    <3>1. Abstract!Fill(i, m) = IF Abstract!AheadOf(i, m) >= AsNumbers[i].rem THEN 0
                                ELSE IF AsNumbers[m].rem <= AsNumbers[i].rem - Abstract!AheadOf(i, m)
                                       THEN AsNumbers[m].rem
                                       ELSE AsNumbers[i].rem - Abstract!AheadOf(i, m)
      BY ONLY Zenon DEF Abstract!Fill, AsNumbers
    <3> QED
      BY ONLY <2>1, <2>5, <3>1, SMTT(30)
  <2> QED
    BY <2>3, <2>4, <2>5, <2>6 DEF Part
<1>9. \A m \in C : Abstract!Fill(i, m) = DeltaOf(fills, m)
  BY <1>5, <1>6, <1>8
<1>10. \A m : DeltaOf(fills, m) # 0 => m \in C
  BY <1>5, <1>6
<1>11. \A f : f \in ToSet(fills) <=>
               \E m \in C : DeltaOf(fills, m) # 0 /\ f = FillOf(m, DeltaOf(fills, m))
  BY <1>5, <1>6, <1>7 DEF FillsAre
<1> QED
  BY <1>9, <1>10, <1>11, <1>20

\* What the exchange's match takes of order k.
Owed(k) ==
  LET o      == Len(AsNumbers)
      makers == {m \in Abstract!Makers(o) : Abstract!Fill(o, m) > 0}
  IN  IF k = o THEN Abstract!MapThenSumSet(LAMBDA m : Abstract!Fill(o, m), makers)
      ELSE IF k \in makers THEN Abstract!Fill(o, k)
      ELSE 0

\* Whom it takes something of.
LEMMA SameHits ==
  ASSUME TableInv, matching # 0,
         NEW f, \A m \in Crossed(matching) : f[m] = DeltaOf(MatchResult(matching).fills, m)
  PROVE  LET fills == MatchResult(matching).fills
             hits  == {m \in Abstract!Makers(matching) : Abstract!Fill(matching, m) > 0}
         IN /\ hits = {m \in Crossed(matching) : DeltaOf(fills, m) # 0}
            /\ hits \in SUBSET (DOMAIN book) /\ IsFiniteSet(hits)
            /\ Sum(f, hits) = Scaled(rows[matching].rem) - MatchResult(matching).rem
<1>20. PICK i, makers, Q, result, fills, n, C, hits :
        /\ i = matching /\ makers = Makers(i) /\ Q = Scaled(rows[i].rem)
        /\ result = MatchResult(i) /\ fills = result.fills /\ n = Len(makers) /\ C = Crossed(i)
        /\ hits = {m \in Abstract!Makers(i) : Abstract!Fill(i, m) > 0}
  OBVIOUS
<1>1. BookType /\ DOMAIN book \in SUBSET Nat /\ IsFiniteSet(DOMAIN book)
  BY BookTyped
<1>2. makers \in Seq(DOMAIN book) /\ Distinct(makers)
  BY <1>20, MatchWalk
<1>3. PICK r : Meets(r, makers) /\ r[0].rem = Q /\ r[0].fills = <<>> /\ r[n] = result
  BY <1>20, MatchWalk
<1>4. PICK q : q = Parts(r, makers)
  OBVIOUS
<1>5. n \in Nat /\ n \in 0..n /\ \A m : m \in C <=> \E k \in 1..n : makers[k] = m
  <2>1. n \in Nat
    BY <1>2, <1>20
  <2> QED
    BY <1>1, <1>20, <2>1, MakersAre
<1>6. \A j \in 1..n : DeltaOf(fills, makers[j]) = q[j]
  <2>1. TakesParts(r[n].fills, makers, q, n)
    BY <1>1, <1>2, <1>3, <1>4, <1>5, <1>20, WalkTakes
  <2> QED
    BY <1>3, <1>20, <2>1 DEF TakesParts
<1>7. \A m : DeltaOf(fills, m) \in Nat
  BY <1>20, MatchIs
<1>8. hits = {m \in C : DeltaOf(fills, m) # 0}
  <2>1. Abstract!Makers(i) = C /\ \A m \in C : Abstract!Fill(i, m) = DeltaOf(fills, m)
    BY <1>20, SameMakers, SameFills
  <2>2. hits = {m \in C : Abstract!Fill(i, m) > 0}
    BY <1>20, <2>1
  <2>3. \A m \in C : Abstract!Fill(i, m) > 0 <=> DeltaOf(fills, m) # 0
    BY <1>7, <2>1
  <2> QED
    BY <2>2, <2>3
<1>9. hits \in SUBSET (DOMAIN book) /\ IsFiniteSet(hits)
  <2>1. C \subseteq DOMAIN book
    BY <1>20 DEF Crossed
  <2>2. hits \in SUBSET (DOMAIN book)
    BY <1>8, <2>1
  <2> QED
    BY <1>1, <2>2, FS_Subset
<1>10. hits = Hits(makers, q, n)
  <2>1. \A j \in 1..n : q[j] \in Nat /\ (q[j] > 0 <=> DeltaOf(fills, makers[j]) # 0)
    BY <1>6, <1>7
  <2>2. hits = {makers[j] : j \in {x \in 1..n : q[x] > 0}}
    BY <1>5, <1>8, <2>1
  <2> QED
    BY <2>2 DEF Hits
<1>11. Sum(f, hits) = Q - result.rem
  <2>1. \A j \in 1..n : f[makers[j]] = q[j]
    BY <1>5, <1>6, <1>20
  <2>2. \A k \in 0..Len(makers) : r[0].rem - r[k].rem = Sum(f, Hits(makers, q, k))
    BY <1>1, <1>2, <1>3, <1>4, <1>20, <2>1, WalkTook
  <2>3. r[0].rem - r[n].rem = Sum(f, Hits(makers, q, n))
    BY <1>5, <1>20, <2>2
  <2> QED
    BY <1>3, <1>10, <2>3
<1> QED
  BY <1>8, <1>9, <1>11, <1>20

\* It is what the match took: of the makers each fill, of the taker their sum.
LEMMA SameTaken ==
  ASSUME TableInv, matching # 0
  PROVE  LET result == MatchResult(matching)
         IN /\ Owed(matching) = Scaled(rows[matching].rem) - result.rem
            /\ \A k : k # matching => Owed(k) = DeltaOf(result.fills, k)
<1>20. PICK i, fills, C, S : /\ i = matching /\ fills = MatchResult(i).fills
                             /\ C = Crossed(i)
                             /\ S = {m \in Abstract!Makers(i) : Abstract!Fill(i, m) > 0}
  OBVIOUS
<1> DEFINE g == CHOOSE h : h = [s \in SUBSET S |->
                  IF s = {} THEN 0
                  ELSE Abstract!Fill(i, CHOOSE m \in s : TRUE) + h[s \ {CHOOSE m \in s : TRUE}]]
<1>1. Len(AsNumbers) = i
  BY <1>20, AsNumbersIs DEF TableInv
<1>2. Owed(i) = g[S]
  <2>1. Owed(i) = Abstract!MapThenSumSet(LAMBDA m : Abstract!Fill(i, m),
                    {m \in Abstract!Makers(i) : Abstract!Fill(i, m) > 0})
    BY <1>1 DEF Owed
  <2> QED
    BY <1>20, <2>1 DEF Abstract!MapThenSumSet, Abstract!MapThenFoldSet
<1>3. \A k : k # i => Owed(k) = IF k \in S THEN Abstract!Fill(i, k) ELSE 0
  BY <1>1, <1>20 DEF Owed
<1>21. PICK d : d = [m \in C |-> DeltaOf(fills, m)]
  OBVIOUS
<1>4. /\ \A m \in C : d[m] = DeltaOf(fills, m) /\ d[m] = Abstract!Fill(i, m) /\ d[m] \in Nat
      /\ \A m : DeltaOf(fills, m) # 0 => m \in C
  BY <1>20, <1>21, SameFills, MatchIs
<1>5. S = {m \in C : DeltaOf(fills, m) # 0} /\ IsFiniteSet(S)
  BY <1>4, <1>20, SameHits
<1>7. Sum(d, S) = Scaled(rows[i].rem) - MatchResult(i).rem
  BY <1>4, <1>20, SameHits
<1>8. \A k : k # i => Owed(k) = DeltaOf(fills, k)
  BY <1>3, <1>4, <1>5
<1>9. PICK h : SumsOver(d, h, S)
  BY <1>4, <1>5, SumsExist
<1>10. \A s \in SUBSET S : s # {} => d[CHOOSE m \in s : TRUE] = Abstract!Fill(i, CHOOSE m \in s : TRUE)
  BY <1>4, <1>5, OneOf
<1>11. h = [s \in SUBSET S |->
                  IF s = {} THEN 0
                  ELSE Abstract!Fill(i, CHOOSE m \in s : TRUE) + h[s \ {CHOOSE m \in s : TRUE}]]
  BY <1>9, <1>10 DEF SumsOver, Turn
<1>12. g = [s \in SUBSET S |->
                  IF s = {} THEN 0
                  ELSE Abstract!Fill(i, CHOOSE m \in s : TRUE) + g[s \ {CHOOSE m \in s : TRUE}]]
  BY <1>11
<1> HIDE DEF g
<1>13. \A s \in SUBSET S : g[s] = Turn(d, g, s)
  BY <1>10, <1>12 DEF Turn
<1>14. g[S] = Sum(d, S)
  <2>1. \A x \in S : d[x] \in Nat
    BY <1>4, <1>5
  <2>2. IsFiniteSet(S)
    BY <1>5
  <2> QED
    BY <1>13, <2>1, <2>2, SumOf
<1> QED
  BY <1>2, <1>7, <1>8, <1>14, <1>20

\* What the exchange makes of an order of which something is taken.
LEMMA FilledIs ==
  ASSUME NEW side, NEW price, NEW qty, NEW rem, NEW status, NEW taken, taken # 0,
         NEW o, o = [side |-> side, price |-> price, qty |-> qty, rem |-> rem, status |-> status]
  PROVE  Abstract!Filled(o, taken)
           = [side |-> side, price |-> price, qty |-> qty, rem |-> rem - taken,
              status |-> IF taken = rem THEN "filled" ELSE "partially_filled"]
<1>1. PICK x, y, z : /\ x = rem - taken
                     /\ y = IF rem = taken THEN "filled" ELSE "partially_filled"
                     /\ z = [o EXCEPT !.rem = x, !.status = y]
  OBVIOUS
<1>2. o.rem = rem /\ DOMAIN o = {"side", "price", "qty", "rem", "status"}
  OBVIOUS
<1>3. z = [f \in DOMAIN o |-> IF f = "rem" THEN x ELSE IF f = "status" THEN y ELSE o[f]]
  BY <1>1
<1>4. z.side = side /\ z.price = price /\ z.qty = qty /\ z.rem = x /\ z.status = y
  BY <1>1
<1>5. z = [side |-> side, price |-> price, qty |-> qty, rem |-> x, status |-> y]
  BY <1>2, <1>3, <1>4
<1>6. Abstract!Filled(o, taken) = z
  BY <1>1, <1>2 DEF Abstract!Filled
<1> QED
  BY <1>1, <1>5, <1>6

\* A match is the match of the exchange.
LEMMA MatchIsMatch ==
  ASSUME TableInv, MatchOrder
  PROVE  Abstract!Match
<1>20. PICK i, result, fills, new, N :
        /\ i = matching /\ result = MatchResult(i) /\ fills = result.fills
        /\ new = MatchedRows(i, result) /\ N = AsNumbers
  OBVIOUS
<1>1. /\ matching # 0 /\ rows' = new
      /\ trades' = trades \cup
           {[taker |-> i, maker |-> f.maker, price |-> f.price, qty |-> f.qty] : f \in ToSet(fills)}
  BY <1>20 DEF MatchOrder
<1>2. /\ DOMAIN N = 1..Len(rows) /\ Len(N) = i /\ Len(rows) = i /\ i \in Nat /\ i \in 1..i
      /\ DOMAIN rows = 1..i /\ rows[i].status = "open"
  BY <1>1, <1>20, AsNumbersIs, BookTyped DEF TableInv
<1>3. DOMAIN rows' = 1..i
  BY <1>1, <1>2, <1>20 DEF MatchedRows
<1>4. \A k \in 1..i : Owed(k) = IF k = i THEN Scaled(rows[k].rem) - result.rem ELSE DeltaOf(fills, k)
  BY <1>1, <1>20, SameTaken
<1>5. ASSUME NEW k \in 1..i
      PROVE  [side |-> new[k].side, price |-> PriceOf[new[k].price].value,
              qty |-> QuantityOf[new[k].qty].value, rem |-> Scaled(new[k].rem),
              status |-> new[k].status] = Abstract!Filled(N[k], Owed(k))
  <2> PICK taken, rem : taken = Owed(k) /\ rem = Scaled(rows[k].rem)
    OBVIOUS
  <2>1. /\ taken \in 0..rem /\ rem \in Nat
        /\ Scaled(new[k].rem) = rem - taken
        /\ new[k].side = rows[k].side /\ new[k].price = rows[k].price /\ new[k].qty = rows[k].qty
        /\ new[k].status = IF taken = 0 THEN rows[k].status
                           ELSE IF taken = rem THEN "filled" ELSE "partially_filled"
    <3>1. rem \in Nat
      BY <1>2, <1>20, AsNumbersIs
    <3> QED
      BY <1>1, <1>2, <1>4, <1>20, <3>1, MatchedRow
  <2>2. N[k] = [side |-> rows[k].side, price |-> PriceOf[rows[k].price].value,
                qty |-> QuantityOf[rows[k].qty].value, rem |-> rem, status |-> rows[k].status]
    BY <1>2, <1>20 DEF AsNumbers
  <2>3. CASE taken = 0
    BY <2>1, <2>2, <2>3 DEF Abstract!Filled
  <2>4. CASE taken # 0
    <3>1. PICK a, p, c, st, o :
            /\ a = rows[k].side /\ p = PriceOf[rows[k].price].value
            /\ c = QuantityOf[rows[k].qty].value /\ st = rows[k].status /\ o = N[k]
      OBVIOUS
    <3>2. o = [side |-> a, price |-> p, qty |-> c, rem |-> rem, status |-> st]
      BY ONLY <2>2, <3>1
    <3>3. Abstract!Filled(o, taken)
            = [side |-> a, price |-> p, qty |-> c, rem |-> rem - taken,
               status |-> IF taken = rem THEN "filled" ELSE "partially_filled"]
      BY ONLY <2>4, <3>2, FilledIs, SMTT(30)
    <3> QED
      BY <2>1, <2>4, <3>1, <3>3
  <2> QED
    BY <2>3, <2>4
<1>6. AsNumbers' = [k \in DOMAIN N |-> Abstract!Filled(N[k], Owed(k))]
  <2>1. AsNumbers' = [k \in 1..i |->
               [side |-> new[k].side, price |-> PriceOf[new[k].price].value,
                qty |-> QuantityOf[new[k].qty].value, rem |-> Scaled(new[k].rem),
                status |-> new[k].status]]
    BY <1>1, <1>3 DEF AsNumbers
  <2>2. DOMAIN N = 1..i
    BY <1>2
  <2> QED
    BY <1>5, <2>1, <2>2
<1>7. {[taker |-> i, maker |-> f.maker, price |-> f.price, qty |-> f.qty] : f \in ToSet(fills)}
        = {[taker |-> i, maker |-> m, price |-> N[m].price, qty |-> Abstract!Fill(i, m)] :
             m \in {x \in Abstract!Makers(i) : Abstract!Fill(i, x) > 0}}
  <2> DEFINE C      == Crossed(i)
             old(f) == [taker |-> i, maker |-> f.maker, price |-> f.price, qty |-> f.qty]
             tr(m)  == [taker |-> i, maker |-> m, price |-> N[m].price, qty |-> Abstract!Fill(i, m)]
             hits   == {x \in Abstract!Makers(i) : Abstract!Fill(i, x) > 0}
  <2>1. /\ \A m \in C : Abstract!Fill(i, m) = DeltaOf(fills, m)
        /\ \A f : f \in ToSet(fills) <=>
             \E m \in C : DeltaOf(fills, m) # 0 /\ f = FillOf(m, DeltaOf(fills, m))
    BY <1>1, <1>20, SameFills
  <2>2. hits = {m \in C : DeltaOf(fills, m) # 0}
    <3>1. Abstract!Makers(i) = C
      BY <1>1, <1>20, SameMakers
    <3>2. \A m : DeltaOf(fills, m) \in Nat
      BY <1>1, <1>20, MatchIs
    <3> QED
      BY <2>1, <3>1, <3>2
  <2>3. ASSUME NEW m \in C PROVE old(FillOf(m, DeltaOf(fills, m))) = tr(m)
    <3>1. m \in DOMAIN book
      BY DEF Crossed
    <3>2. m \in DOMAIN rows /\ book[m].price = PriceOf[rows[m].price].value
      BY <3>1, BookTyped
    <3>3. N[m].price = book[m].price
      BY <1>20, <3>2 DEF AsNumbers
    <3>4. Abstract!Fill(i, m) = DeltaOf(fills, m)
      BY <2>1
    <3> QED
      BY <3>3, <3>4 DEF FillOf
  <2> HIDE DEF C, old, tr, hits
  <2>4. {old(f) : f \in ToSet(fills)} = {tr(m) : m \in hits}
    BY <2>1, <2>2, <2>3
  <2> QED
    BY <2>4 DEF old, tr, hits
<1>8. N # <<>> /\ N[i].status = "open"
  <2>1. N[i].status = "open"
    BY <1>2, <1>20 DEF AsNumbers
  <2>2. Len(<<>>) = 0
    OBVIOUS
  <2> QED
    BY <1>2, <2>1, <2>2
<1>9. /\ AsNumbers # <<>> /\ AsNumbers[Len(AsNumbers)].status = "open"
      /\ AsNumbers' = [k \in DOMAIN AsNumbers |-> Abstract!Filled(AsNumbers[k], Owed(k))]
      /\ trades' = trades \cup
           {[taker |-> Len(AsNumbers), maker |-> m, price |-> AsNumbers[m].price,
             qty |-> Abstract!Fill(Len(AsNumbers), m)] :
               m \in {x \in Abstract!Makers(Len(AsNumbers)) : Abstract!Fill(Len(AsNumbers), x) > 0}}
  BY <1>1, <1>2, <1>6, <1>7, <1>8, <1>20
<1> QED
  BY <1>9 DEF Abstract!Match, AsNumbers, Owed

\* An insert is the arrival of an order.
LEMMA CreateIsPlace ==
  ASSUME TableInv, NEW h \in Headers, NEW side \in Sides, NEW price \in PriceTexts,
         NEW qty \in QuantityTexts, CreateOrder(h, side, price, qty)
  PROVE  /\ PriceOf[price].value \in Prices /\ QuantityOf[qty].value \in Quantities
         /\ Abstract!Place(side, PriceOf[price].value, QuantityOf[qty].value)
<1>20. PICK row, i, p, q, new :
        /\ row = [user |-> UserOf(h), side |-> side, price |-> price, qty |-> qty,
                  rem |-> qty, status |-> "open"]
        /\ i = Len(rows) + 1 /\ p = PriceOf[price].value /\ q = QuantityOf[qty].value
        /\ new = [side |-> side, price |-> p, qty |-> q, rem |-> q, status |-> "open"]
  OBVIOUS
<1>1. rows' = Append(rows, row) /\ trades' = trades /\ RowOk(row)
  BY <1>20, RowInserted DEF CreateOrder
<1>2. p \in Prices /\ q \in Quantities /\ Scaled(qty) = q
  <2>1. Accepted(price, qty)
    BY <1>1, <1>20 DEF RowOk
  <2>2. p \in Prices
    BY <1>20, <2>1, PriceValue DEF Accepted
  <2>3. QuantityOf[qty] = ParseQuantityScaled(qty) /\ QuantityOf[qty].err = "none" /\ qty \in Texts
    BY <2>1, ApiAssumption DEF QuantityOf, Accepted
  <2>4. Scaled(qty) \in 1..MaxInt64 /\ QuantityOf[qty] = Number(Scaled(qty))
    BY <2>3, QuantityValue
  <2>5. q = Scaled(qty) /\ q # 0
    BY <1>20, <2>4, Outcomes
  <2>6. q \in Quantities
    BY <1>20, <2>5 DEF Quantities
  <2> QED
    BY <2>2, <2>5, <2>6
<1>3. PICK S : rows \in Seq(S)
  BY DEF TableInv
<1>4. rows \in Seq(S \cup {row}) /\ row \in S \cup {row}
  BY <1>3, SeqMonotonic
<1>5. /\ DOMAIN rows' = 1..i /\ rows'[i] = row /\ i \in Nat \ {0} /\ DOMAIN rows = 1..(i - 1)
      /\ \A k \in 1..(i - 1) : rows'[k] = rows[k]
  BY <1>1, <1>4, <1>20, AppendProperties
<1>6. AsNumbers' = Append(AsNumbers, new)
  <2>20. PICK N, N1 : N = AsNumbers /\ N1 = AsNumbers'
    OBVIOUS
  <2>1. N1 = [k \in 1..i |->
               [side |-> rows'[k].side, price |-> PriceOf[rows'[k].price].value,
                qty |-> QuantityOf[rows'[k].qty].value, rem |-> Scaled(rows'[k].rem),
                status |-> rows'[k].status]]
    BY <1>5, <2>20 DEF AsNumbers
  <2>2. N = [k \in 1..(i - 1) |->
               [side |-> rows[k].side, price |-> PriceOf[rows[k].price].value,
                qty |-> QuantityOf[rows[k].qty].value, rem |-> Scaled(rows[k].rem),
                status |-> rows[k].status]]
    BY <1>5, <2>20 DEF AsNumbers
  <2>3. N1[i] = new
    <3>1. i \in 1..i
      BY <1>5
    <3> QED
      BY <1>2, <1>5, <1>20, <2>1, <3>1
  <2>4. \A k \in 1..(i - 1) : N1[k] = N[k]
    <3>1. \A k \in 1..(i - 1) : k \in 1..i
      BY <1>5
    <3> QED
      BY <1>5, <2>1, <2>2, <3>1
  <2> PICK T : T = {N1[k] : k \in 1..i}
    OBVIOUS
  <2>5. N \in Seq(T) /\ N1 \in Seq(T) /\ new \in T /\ Len(N) = i - 1 /\ Len(N1) = i
    <3>1. /\ \A k \in 1..i : N1[k] \in T
          /\ \A k \in 1..(i - 1) : N[k] \in T
          /\ new \in T
      <4>1. i \in 1..i /\ \A k \in 1..(i - 1) : k \in 1..i
        BY <1>5
      <4> QED
        BY <2>3, <2>4, <4>1
    <3>2. N1 = [k \in 1..i |-> N1[k]] /\ N = [k \in 1..(i - 1) |-> N[k]]
      BY <2>1, <2>2
    <3>3. i \in Nat /\ i - 1 \in Nat
      BY <1>5
    <3> QED
      BY ONLY <3>1, <3>2, <3>3
  <2>6. /\ Append(N, new) \in Seq(T) /\ Len(Append(N, new)) = i
        /\ \A k \in 1..i : Append(N, new)[k] = IF k = i THEN new ELSE N[k]
    <3>1. /\ Append(N, new) \in Seq(T) /\ Len(Append(N, new)) = Len(N) + 1
          /\ \A k \in 1..Len(N) : Append(N, new)[k] = N[k]
          /\ Append(N, new)[Len(N) + 1] = new
      BY ONLY <2>5, AppendProperties
    <3> QED
      BY <1>5, <2>5, <3>1
  <2>7. \A k \in 1..i : N1[k] = Append(N, new)[k]
    BY <1>5, <2>3, <2>4, <2>6
  <2>8. N1 = Append(N, new)
    BY ONLY <2>5, <2>6, <2>7, SeqEqual
  <2> QED
    BY <2>8, <2>20
<1> QED
  BY <1>1, <1>2, <1>6, <1>20 DEF Abstract!Place, AsNumbers

\* A cancel is the exchange's.
LEMMA CancelIsCancel ==
  ASSUME TableInv, NEW h, NEW i \in DOMAIN rows, CancelOrder(h, i)
  PROVE  i \in DOMAIN AsNumbers /\ Abstract!Cancel(i)
<1>20. PICK row : row = [rows[i] EXCEPT !.status = "cancelled"]
  OBVIOUS
<1>1. rows' = [rows EXCEPT ![i] = row] /\ trades' = trades /\ CancelAnswer(h, i) = 200
  BY <1>20 DEF CancelOrder
<1>2. rows[i].status \in Restable
  BY <1>1 DEF CancelAnswer
<1>3. /\ row.side = rows[i].side /\ row.price = rows[i].price /\ row.qty = rows[i].qty
      /\ row.rem = rows[i].rem /\ row.status = "cancelled"
  BY <1>20 DEF TableInv, RowOk, Row
<1>4. DOMAIN rows' = DOMAIN rows /\ rows'[i] = row /\ \A k \in DOMAIN rows \ {i} : rows'[k] = rows[k]
  BY <1>1
<1>5. AsNumbers' = [AsNumbers EXCEPT ![i].status = "cancelled"]
  BY <1>3, <1>4 DEF AsNumbers
<1>6. Abstract!Live(i)
  BY <1>2 DEF Abstract!Live, AsNumbers, Restable
<1> QED
  BY <1>1, <1>5, <1>6 DEF Abstract!Cancel, AsNumbers

\* Read as numbers, the rows and trades are those of the exchange, whatever the texts: no
\* parse, format or rebuild changes who is matched with whom, at which price and for how
\* much (store.go:288, 412; matcher.go:65).
THEOREM ApiImplementsExchange == Spec => ImplementsExchange
<1>1. Init => Abstract!Init
  <2> SUFFICES ASSUME Init PROVE Abstract!Init
    OBVIOUS
  <2>1. rows = <<>> /\ trades = {} /\ AsNumbers = <<>>
    BY DEF Init, AsNumbers
  <2> QED
    BY <2>1 DEF Abstract!Init, AsNumbers
<1>2. ApiInv /\ [Next]_vars => [Abstract!Next]_(Abstract!vars)
  <2> SUFFICES ASSUME ApiInv, [Next]_vars PROVE [Abstract!Next]_(Abstract!vars)
    OBVIOUS
  <2> USE DEF ApiInv
  <2>1. ASSUME NEW h \in Headers, NEW s \in Sides, NEW p \in PriceTexts,
               NEW q \in QuantityTexts, CreateOrder(h, s, p, q)
        PROVE  Abstract!Next
    <3>1. /\ PriceOf[p].value \in Prices /\ QuantityOf[q].value \in Quantities
          /\ Abstract!Place(s, PriceOf[p].value, QuantityOf[q].value)
      BY <2>1, CreateIsPlace
    <3> QED
      BY <3>1 DEF Abstract!Next, Sides
  <2>2. ASSUME MatchOrder PROVE Abstract!Next
    BY <2>2, MatchIsMatch DEF Abstract!Next
  <2>3. ASSUME NEW h \in Headers, NEW i \in DOMAIN rows, CancelOrder(h, i) PROVE Abstract!Next
    <3>1. i \in DOMAIN AsNumbers /\ Abstract!Cancel(i)
      BY <2>3, CancelIsCancel
    <3> QED
      BY <3>1 DEF Abstract!Next, AsNumbers
  <2>4. CASE UNCHANGED vars
    BY <2>4 DEF vars, Abstract!vars
  <2> QED
    BY <2>1, <2>2, <2>3, <2>4 DEF Next
<1> QED
  BY <1>1, <1>2, ApiInvariant, PTL DEF Spec, ImplementsExchange, Abstract!Spec

=============================================================================
