---------------------------- MODULE DataLemmas ----------------------------
(***************************************************************************)
(* What several proofs need of finite sums, folds, sorts and limits.       *)
(*                                                                         *)
(* MapThenSumSet takes an element of the set by CHOOSE, adds its summand   *)
(* and goes on with the rest; that every order of taking them gives the    *)
(* same is shown here by induction over the subsets of the set.  The sums  *)
(* of the models are brought under these lemmas by a lemma of their own    *)
(* each, which expands MapThenSumSet.  FoldLeft is treated alike, with the *)
(* operator it folds told by a function.                                   *)
(***************************************************************************)
EXTENDS Ordering, FiniteSetsExt, FiniteSetTheorems, FunctionTheorems, SequenceTheorems, TLAPS

----------------------------------------------------------------------------
(* Sums *)

\* Induction over the subsets of a finite set, with the claim as a set of subsets.
LEMMA SubsetInduction ==
  ASSUME NEW S, IsFiniteSet(S), NEW G,
         \A s \in SUBSET S : (\A t \in SUBSET s : t # s => t \in G) => s \in G
  PROVE  SUBSET S \subseteq G
<1> DEFINE T == (SUBSET S) \ G
<1> SUFFICES ASSUME T # {} PROVE FALSE
  OBVIOUS
<1>1. IsWellFoundedOn(StrictSubsetOrdering(S), SUBSET S)
  <2>1. FiniteSubsetsOf(S) = SUBSET S
    BY FS_FiniteSubsetsOfFinite
  <2>2. IsWellFoundedOn(StrictSubsetOrdering(S), FiniteSubsetsOf(S))
    BY FS_StrictSubsetOrderingWellFounded
  <2> QED
    BY <2>1, <2>2
<1>2. T \subseteq SUBSET S
  OBVIOUS
<1> HIDE DEF T
<1>3. PICK s \in T : \A t \in T : <<t, s>> \notin StrictSubsetOrdering(S)
  BY <1>1, <1>2, WFMin
<1>4. s \in SUBSET S /\ s \notin G
  BY DEF T
<1>5. PICK t \in SUBSET s : t # s /\ t \notin G
  BY <1>4
<1>6. t \in T
  BY <1>4, <1>5 DEF T
<1>7. <<t, s>> \in StrictSubsetOrdering(S)
  BY <1>4, <1>5 DEF StrictSubsetOrdering
<1> QED
  BY <1>3, <1>6, <1>7

\* What a sum over s is made of: g tells the sums over all the subsets of s.
Turn(f, g, s) == IF s = {} THEN 0 ELSE f[CHOOSE x \in s : TRUE] + g[s \ {CHOOSE x \in s : TRUE}]
SumsOver(f, g, S) == g \in [SUBSET S -> Nat] /\ \A s \in SUBSET S : g[s] = Turn(f, g, s)

\* What CHOOSE takes of a set that has something is of the set.
LEMMA OneOf == ASSUME NEW s, s # {} PROVE (CHOOSE x \in s : TRUE) \in s
OBVIOUS

\* There is one function made by turns.
LEMMA SumsAreUnique ==
  ASSUME NEW S, IsFiniteSet(S), NEW f,
         NEW g, \A s \in SUBSET S : g[s] = Turn(f, g, s),
         NEW h, \A s \in SUBSET S : h[s] = Turn(f, h, s)
  PROVE  \A s \in SUBSET S : g[s] = h[s]
<1> DEFINE G == {s \in SUBSET S : g[s] = h[s]}
<1>1. ASSUME NEW s \in SUBSET S, \A t \in SUBSET s : t # s => t \in G
      PROVE  s \in G
  <2>1. CASE s = {}
    BY <2>1 DEF Turn
  <2>2. CASE s # {}
    <3> PICK x \in s : x = CHOOSE y \in s : TRUE
      BY <2>2, OneOf
    <3>1. s \ {x} \in SUBSET s /\ s \ {x} # s
      OBVIOUS
    <3>2. g[s \ {x}] = h[s \ {x}]
      BY <1>1, <3>1
    <3>3. g[s] = f[x] + g[s \ {x}] /\ h[s] = f[x] + h[s \ {x}]
      BY <2>2 DEF Turn
    <3> QED
      BY <3>2, <3>3
  <2> QED
    BY <2>1, <2>2
<1> HIDE DEF G
<1>2. SUBSET S \subseteq G
  BY <1>1, SubsetInduction
<1> QED
  BY <1>2 DEF G

\* And there is one: over each subset, of the ones over the smaller subsets.
LEMMA SumsExist ==
  ASSUME NEW S, IsFiniteSet(S), NEW f, \A x \in S : f[x] \in Nat
  PROVE  \E g : SumsOver(f, g, S)
<1> DEFINE G == {s \in SUBSET S : \E g : SumsOver(f, g, s)}
<1>1. ASSUME NEW s \in SUBSET S, \A t \in SUBSET s : t # s => t \in G
      PROVE  s \in G
  <2> DEFINE g(t) == CHOOSE h : SumsOver(f, h, t)
             val(t) == IF t = {} THEN 0
                       ELSE f[CHOOSE x \in t : TRUE]
                              + g(t \ {CHOOSE x \in t : TRUE})[t \ {CHOOSE x \in t : TRUE}]
             h == [t \in SUBSET s |-> val(t)]
  <2>1. \A t \in SUBSET s : t # s => SumsOver(f, g(t), t)
    BY <1>1
  <2> HIDE DEF g
  <2>2. ASSUME NEW t \in SUBSET s PROVE val(t) \in Nat
    <3>1. CASE t = {}
      BY <3>1
    <3>2. CASE t # {}
      <4> PICK x \in t : x = CHOOSE y \in t : TRUE
        BY <3>2, OneOf
      <4>1. t \ {x} \in SUBSET s /\ t \ {x} # s
        OBVIOUS
      <4>2. g(t \ {x})[t \ {x}] \in Nat
        BY <2>1, <4>1 DEF SumsOver
      <4> QED
        BY <3>2, <4>2
    <3> QED
      BY <3>1, <3>2
  <2>3. h \in [SUBSET s -> Nat]
    BY <2>2
  <2>4. ASSUME NEW t \in SUBSET s, t # s PROVE val(t) = g(t)[t]
    <3>1. SumsOver(f, g(t), t)
      BY <2>1, <2>4
    <3>2. CASE t = {}
      BY <3>1, <3>2 DEF SumsOver, Turn
    <3>3. CASE t # {}
      <4> PICK x \in t : x = CHOOSE y \in t : TRUE
        BY <3>3, OneOf
      <4>1. t \ {x} \in SUBSET s /\ t \ {x} # s /\ t \ {x} \subseteq t
        OBVIOUS
      <4>2. SumsOver(f, g(t \ {x}), t \ {x})
        BY <2>1, <4>1
      <4>3. IsFiniteSet(t \ {x})
        BY FS_Subset
      <4>4. g(t \ {x})[t \ {x}] = g(t)[t \ {x}]
        <5>1. \A u \in SUBSET (t \ {x}) : g(t \ {x})[u] = Turn(f, g(t \ {x}), u)
          BY <4>2 DEF SumsOver
        <5>2. \A u \in SUBSET (t \ {x}) : g(t)[u] = Turn(f, g(t), u)
          BY <3>1 DEF SumsOver
        <5>3. \A u \in SUBSET (t \ {x}) : g(t \ {x})[u] = g(t)[u]
          BY <4>3, <5>1, <5>2, SumsAreUnique, SMTT(30)
        <5> QED
          BY <5>3
      <4>5. g(t)[t] = f[x] + g(t)[t \ {x}]
        BY <3>1, <3>3 DEF SumsOver, Turn
      <4>6. val(t) = f[x] + g(t \ {x})[t \ {x}]
        BY <3>3
      <4> QED
        BY <4>4, <4>5, <4>6
    <3> QED
      BY <3>2, <3>3
  <2>5. ASSUME NEW t \in SUBSET s PROVE h[t] = Turn(f, h, t)
    <3>1. CASE t = {}
      BY <3>1 DEF Turn
    <3>2. CASE t # {}
      <4> PICK x \in t : x = CHOOSE y \in t : TRUE
        BY <3>2, OneOf
      <4>1. t \ {x} \in SUBSET s /\ t \ {x} # s
        OBVIOUS
      <4>2. val(t) = f[x] + g(t \ {x})[t \ {x}]
        BY <3>2
      <4>3. val(t \ {x}) = g(t \ {x})[t \ {x}]
        BY <2>4, <4>1
      <4> HIDE DEF val
      <4>4. h[t] = val(t) /\ h[t \ {x}] = val(t \ {x})
        BY <4>1
      <4>5. Turn(f, h, t) = f[x] + h[t \ {x}]
        BY <3>2 DEF Turn
      <4> QED
        BY <4>2, <4>3, <4>4, <4>5
    <3> QED
      BY <3>1, <3>2
  <2> HIDE DEF h
  <2> QED
    BY <2>3, <2>5 DEF SumsOver
<1> HIDE DEF G
<1>2. SUBSET S \subseteq G
  BY <1>1, SubsetInduction
<1> QED
  BY <1>2 DEF G

\* The sum of f over the finite set S.
Sum(f, S) == (CHOOSE g : SumsOver(f, g, S))[S]

\* Whatever is made by the same turns is the sum, over S and over its subsets.
LEMMA SumOf ==
  ASSUME NEW S, IsFiniteSet(S), NEW f, \A x \in S : f[x] \in Nat,
         NEW h, \A s \in SUBSET S : h[s] = Turn(f, h, s)
  PROVE  \A s \in SUBSET S : h[s] = Sum(f, s)
<1> SUFFICES ASSUME NEW s \in SUBSET S PROVE h[s] = Sum(f, s)
  OBVIOUS
<1> DEFINE g == CHOOSE g : SumsOver(f, g, s)
<1>1. IsFiniteSet(s)
  BY FS_Subset
<1>2. SumsOver(f, g, s)
  BY <1>1, SumsExist
<1> HIDE DEF g
<1>3. \A t \in SUBSET s : g[t] = Turn(f, g, t)
  BY <1>2 DEF SumsOver
<1>4. \A t \in SUBSET s : h[t] = Turn(f, h, t)
  OBVIOUS
<1>5. \A t \in SUBSET s : g[t] = h[t]
  BY <1>1, <1>3, <1>4, SumsAreUnique
<1> QED
  BY <1>5 DEF Sum, g

\* A sum of numbers is a number.
LEMMA SumType ==
  ASSUME NEW S, IsFiniteSet(S), NEW f, \A x \in S : f[x] \in Nat
  PROVE  Sum(f, S) \in Nat
<1>1. PICK g : SumsOver(f, g, S)
  BY SumsExist
<1>2. \A s \in SUBSET S : g[s] = Turn(f, g, s)
  BY <1>1 DEF SumsOver
<1>3. g[S] = Sum(f, S)
  BY <1>2, SumOf
<1> QED
  BY <1>1, <1>3 DEF SumsOver

\* The empty sum is nothing.
LEMMA SumOfNothing == ASSUME NEW f PROVE Sum(f, {}) = 0
<1>1. IsFiniteSet({})
  BY FS_EmptySet
<1>2. PICK g : SumsOver(f, g, {})
  BY <1>1, SumsExist
<1>3. \A s \in SUBSET {} : g[s] = Turn(f, g, s)
  BY <1>2 DEF SumsOver
<1>4. g[{}] = Sum(f, {})
  BY <1>1, <1>3, SumOf
<1> QED
  BY <1>3, <1>4 DEF Turn

\* Any element may be the one that is added first.
LEMMA SumWithout ==
  ASSUME NEW S, IsFiniteSet(S), NEW f, \A x \in S : f[x] \in Nat, NEW x \in S
  PROVE  Sum(f, S) = f[x] + Sum(f, S \ {x})
<1>1. PICK g : SumsOver(f, g, S)
  BY SumsExist
<1>2. \A s \in SUBSET S : g[s] = Turn(f, g, s) /\ g[s] \in Nat
  BY <1>1 DEF SumsOver
<1>3. \A s \in SUBSET S : g[s] = Sum(f, s)
  BY <1>2, SumOf
<1> DEFINE G == {s \in SUBSET S : \A y \in s : g[s] = f[y] + g[s \ {y}]}
<1>4. ASSUME NEW s \in SUBSET S, \A t \in SUBSET s : t # s => t \in G
      PROVE  s \in G
  <2> SUFFICES ASSUME NEW y \in s PROVE g[s] = f[y] + g[s \ {y}]
    OBVIOUS
  <2> PICK c \in s : c = CHOOSE z \in s : TRUE
    BY OneOf
  <2>1. g[s] = f[c] + g[s \ {c}]
    BY <1>2 DEF Turn
  <2>2. CASE y = c
    BY <2>1, <2>2
  <2>3. CASE y # c
    <3> DEFINE r == s \ {c, y}
    <3>1. s \ {c} \in G /\ s \ {y} \in G
      <4>1. s \ {c} \in SUBSET s /\ s \ {c} # s /\ s \ {y} \in SUBSET s /\ s \ {y} # s
        OBVIOUS
      <4> QED
        BY <1>4, <4>1
    <3>2. y \in s \ {c} /\ c \in s \ {y} /\ (s \ {c}) \ {y} = r /\ (s \ {y}) \ {c} = r
      BY <2>3
    <3>3. g[s \ {c}] = f[y] + g[r] /\ g[s \ {y}] = f[c] + g[r]
      BY <3>1, <3>2
    <3>4. f[c] \in Nat /\ f[y] \in Nat /\ g[r] \in Nat
      BY <1>2
    <3> HIDE DEF r
    <3> QED
      BY <2>1, <3>3, <3>4
  <2> QED
    BY <2>2, <2>3
<1> HIDE DEF G
<1>5. SUBSET S \subseteq G
  BY <1>4, SubsetInduction
<1>6. g[S] = f[x] + g[S \ {x}]
  BY <1>5 DEF G
<1> QED
  BY <1>3, <1>6

\* Sums of the same numbers are the same.
LEMMA SumSame ==
  ASSUME NEW S, IsFiniteSet(S), NEW f, \A x \in S : f[x] \in Nat,
         NEW h, \A x \in S : h[x] = f[x]
  PROVE  Sum(h, S) = Sum(f, S)
<1>1. PICK g : SumsOver(f, g, S)
  BY SumsExist
<1>2. \A s \in SUBSET S : g[s] = Turn(f, g, s)
  BY <1>1 DEF SumsOver
<1>3. \A s \in SUBSET S : Turn(f, g, s) = Turn(h, g, s)
  <2> SUFFICES ASSUME NEW s \in SUBSET S, s # {} PROVE Turn(f, g, s) = Turn(h, g, s)
    BY DEF Turn
  <2> PICK c \in s : c = CHOOSE z \in s : TRUE
    BY OneOf
  <2>1. h[c] = f[c]
    OBVIOUS
  <2> QED
    BY <2>1 DEF Turn
<1>4. g[S] = Sum(f, S)
  BY <1>2, SumOf
<1>5. g[S] = Sum(h, S)
  <2>1. \A x \in S : h[x] \in Nat
    OBVIOUS
  <2>2. \A s \in SUBSET S : g[s] = Turn(h, g, s)
    BY <1>2, <1>3
  <2> QED
    BY <2>1, <2>2, SumOf
<1> QED
  BY <1>4, <1>5

\* The sum over a part is not more than the sum over all.
LEMMA SumOfPart ==
  ASSUME NEW S, IsFiniteSet(S), NEW f, \A x \in S : f[x] \in Nat, NEW T \in SUBSET S
  PROVE  Sum(f, T) <= Sum(f, S)
<1> DEFINE G == {s \in SUBSET S : \A t \in SUBSET s : Sum(f, t) <= Sum(f, s)}
<1>1. \A s \in SUBSET S : IsFiniteSet(s) /\ Sum(f, s) \in Nat
  BY FS_Subset, SumType
<1>2. ASSUME NEW s \in SUBSET S, \A t \in SUBSET s : t # s => t \in G
      PROVE  s \in G
  <2> SUFFICES ASSUME NEW t \in SUBSET s PROVE Sum(f, t) <= Sum(f, s)
    OBVIOUS
  <2>1. CASE t = s
    BY <1>1, <2>1
  <2>2. CASE t # s
    <3>1. PICK x \in s : x \notin t
      BY <2>2
    <3>2. s \ {x} \in G /\ t \in SUBSET (s \ {x})
      BY <1>2, <3>1
    <3>3. Sum(f, t) <= Sum(f, s \ {x})
      BY <3>2
    <3>4. Sum(f, s) = f[x] + Sum(f, s \ {x})
      BY <1>1, SumWithout
    <3>5. Sum(f, t) \in Nat /\ Sum(f, s) \in Nat /\ Sum(f, s \ {x}) \in Nat /\ f[x] \in Nat
      BY <1>1
    <3> QED
      BY <3>3, <3>4, <3>5
  <2> QED
    BY <2>1, <2>2
<1> HIDE DEF G
<1>3. SUBSET S \subseteq G
  BY <1>2, SubsetInduction
<1> QED
  BY <1>3 DEF G

\* One summand changes.
LEMMA SumChanged ==
  ASSUME NEW S, IsFiniteSet(S), NEW f, NEW h, NEW x \in S,
         \A y \in S : f[y] \in Nat /\ h[y] \in Nat,
         \A y \in S \ {x} : h[y] = f[y]
  PROVE  Sum(h, S) + f[x] = Sum(f, S) + h[x]
<1>1. IsFiniteSet(S \ {x})
  BY FS_Subset
<1>2. Sum(f, S) = f[x] + Sum(f, S \ {x}) /\ Sum(h, S) = h[x] + Sum(h, S \ {x})
  BY SumWithout
<1>3. Sum(h, S \ {x}) = Sum(f, S \ {x}) /\ Sum(f, S \ {x}) \in Nat
  BY <1>1, SumSame, SumType
<1> QED
  BY <1>2, <1>3

\* One element more.
LEMMA SumWith ==
  ASSUME NEW S, IsFiniteSet(S), NEW f, NEW x, x \notin S,
         f[x] \in Nat, \A y \in S : f[y] \in Nat
  PROVE  Sum(f, S \cup {x}) = f[x] + Sum(f, S)
<1>1. IsFiniteSet(S \cup {x}) /\ (S \cup {x}) \ {x} = S
  BY FS_AddElement
<1> QED
  BY <1>1, SumWithout

\* What is smaller at every element has the smaller sum.
LEMMA SumLess ==
  ASSUME NEW S, IsFiniteSet(S), NEW f, NEW h,
         \A x \in S : f[x] \in Nat /\ h[x] \in Nat,
         \A x \in S : f[x] <= h[x]
  PROVE  Sum(f, S) <= Sum(h, S)
<1> DEFINE G == {s \in SUBSET S : Sum(f, s) <= Sum(h, s)}
<1>1. \A s \in SUBSET S : IsFiniteSet(s) /\ Sum(f, s) \in Nat /\ Sum(h, s) \in Nat
  <2> SUFFICES ASSUME NEW s \in SUBSET S
               PROVE  IsFiniteSet(s) /\ Sum(f, s) \in Nat /\ Sum(h, s) \in Nat
    OBVIOUS
  <2>1. IsFiniteSet(s) /\ (\A x \in s : f[x] \in Nat) /\ (\A x \in s : h[x] \in Nat)
    BY FS_Subset
  <2> QED
    BY <2>1, SumType
<1>2. ASSUME NEW s \in SUBSET S, \A t \in SUBSET s : t # s => t \in G
      PROVE  s \in G
  <2>1. CASE s = {}
    <3>1. Sum(f, s) = 0 /\ Sum(h, s) = 0
      BY <2>1, SumOfNothing
    <3> QED
      BY <3>1
  <2>2. CASE s # {}
    <3>1. PICK x \in s : TRUE
      BY <2>2
    <3>2. s \ {x} \in G /\ s \ {x} \in SUBSET S
      BY <1>2, <3>1
    <3>3. IsFiniteSet(s) /\ (\A y \in s : f[y] \in Nat) /\ (\A y \in s : h[y] \in Nat)
      BY <1>1
    <3>4. Sum(f, s) = f[x] + Sum(f, s \ {x}) /\ Sum(h, s) = h[x] + Sum(h, s \ {x})
      BY <3>3, SumWithout
    <3>5. /\ Sum(f, s \ {x}) \in Nat /\ Sum(h, s \ {x}) \in Nat /\ f[x] \in Nat /\ h[x] \in Nat
          /\ f[x] <= h[x] /\ Sum(f, s \ {x}) <= Sum(h, s \ {x})
      BY <1>1, <3>2
    <3> QED
      BY <3>4, <3>5
  <2> QED
    BY <2>1, <2>2
<1> HIDE DEF G
<1>3. SUBSET S \subseteq G
  BY <1>2, SubsetInduction
<1> QED
  BY <1>3 DEF G

\* One that adds nothing may stay or go.
LEMMA SumWithoutZero ==
  ASSUME NEW S, IsFiniteSet(S), NEW f, \A y \in S : f[y] \in Nat, NEW x, f[x] = 0
  PROVE  Sum(f, S) = Sum(f, S \ {x})
<1>1. CASE x \in S
  <2>1. Sum(f, S) = f[x] + Sum(f, S \ {x})
    BY <1>1, SumWithout
  <2>2. IsFiniteSet(S \ {x}) /\ \A y \in S \ {x} : f[y] \in Nat
    BY FS_Subset
  <2>3. Sum(f, S \ {x}) \in Nat
    BY <2>2, SumType
  <2> QED
    BY <2>1, <2>3
<1>2. CASE x \notin S
  <2>1. S \ {x} = S
    BY <1>2
  <2> QED
    BY <2>1
<1> QED
  BY <1>1, <1>2

\* Nothing, however often, is nothing.
LEMMA SumOfZeros ==
  ASSUME NEW S, IsFiniteSet(S), NEW f, \A x \in S : f[x] = 0
  PROVE  Sum(f, S) = 0
<1> DEFINE G == {s \in SUBSET S : Sum(f, s) = 0}
<1>1. ASSUME NEW s \in SUBSET S, \A t \in SUBSET s : t # s => t \in G
      PROVE  s \in G
  <2>1. CASE s = {}
    BY <2>1, SumOfNothing
  <2>2. CASE s # {}
    <3>1. PICK x \in s : TRUE
      BY <2>2
    <3>2. IsFiniteSet(s) /\ \A y \in s : f[y] \in Nat
      BY FS_Subset
    <3>3. Sum(f, s) = f[x] + Sum(f, s \ {x})
      BY <3>2, SumWithout
    <3>4. s \ {x} \in SUBSET s /\ s \ {x} # s
      OBVIOUS
    <3>5. Sum(f, s \ {x}) = 0
      BY <1>1, <3>4
    <3>6. f[x] = 0
      OBVIOUS
    <3>7. Sum(f, s) = 0
      BY <3>3, <3>5, <3>6
    <3> QED
      BY <3>7
  <2> QED
    BY <2>1, <2>2
<1> HIDE DEF G
<1>2. SUBSET S \subseteq G
  BY <1>1, SubsetInduction
<1> QED
  BY <1>2 DEF G

----------------------------------------------------------------------------
(* Sorts and limits *)

\* The first of a sequence, at most n of them.
LEMMA FirstOnes ==
  ASSUME NEW S, NEW s \in Seq(S), NEW n \in Nat
  PROVE  /\ First(s, n) \in Seq(S) /\ DOMAIN First(s, n) = 1..Len(First(s, n))
         /\ Len(First(s, n)) = IF Len(s) > n THEN n ELSE Len(s)
         /\ \A i \in DOMAIN First(s, n) : i \in DOMAIN s /\ First(s, n)[i] = s[i]
<1> DEFINE m == IF Len(s) > n THEN n ELSE Len(s)
<1>1. m \in Nat /\ m <= Len(s) /\ Len(s) \in Nat /\ DOMAIN s = 1..Len(s)
  OBVIOUS
<1>2. \A i \in 1..m : s[i] \in S
  BY <1>1
<1>3. First(s, n) = SubSeq(s, 1, m)
  BY DEF First
<1> HIDE DEF m
<1>4. /\ SubSeq(s, 1, m) \in Seq(S)
      /\ Len(SubSeq(s, 1, m)) = IF 1 <= m THEN m - 1 + 1 ELSE 0
      /\ \A i \in 1..(m - 1 + 1) : SubSeq(s, 1, m)[i] = s[1 + i - 1]
  BY <1>1, <1>2, SubSeqProperties
<1>5. Len(First(s, n)) = m /\ First(s, n) \in Seq(S)
  BY <1>1, <1>3, <1>4
<1>6. DOMAIN First(s, n) = 1..m
  BY <1>1, <1>5
<1>7. \A i \in 1..m : First(s, n)[i] = s[i]
  BY <1>1, <1>3, <1>4
<1> QED
  BY <1>1, <1>5, <1>6, <1>7 DEF m

\* R is a strict total order of S.
TotalOrder(R, S) ==
  /\ \A x \in S : <<x, x>> \notin R
  /\ \A x, y, z \in S : <<x, y>> \in R /\ <<y, z>> \in R => <<x, z>> \in R
  /\ \A x, y \in S : x = y \/ <<x, y>> \in R \/ <<y, x>> \in R

\* s lists S, the first by R first.
Lists(s, S, R) ==
  /\ s \in [1..Cardinality(S) -> S]
  /\ \A i, j \in DOMAIN s : i < j => <<s[i], s[j]>> \in R

\* The place of x in S, by R.
Rank(x, S, R) == Cardinality({y \in S : y = x \/ <<y, x>> \in R})

\* The place is a place, and grows along the order.
LEMMA RankGrows ==
  ASSUME NEW S, IsFiniteSet(S), NEW R, TotalOrder(R, S)
  PROVE  /\ \A x \in S : Rank(x, S, R) \in 1..Cardinality(S)
         /\ \A x, y \in S : <<x, y>> \in R => Rank(x, S, R) < Rank(y, S, R)
<1> DEFINE B(x) == {y \in S : y = x \/ <<y, x>> \in R}
<1>1. Cardinality(S) \in Nat
  BY FS_CardinalityType
<1>2. ASSUME NEW x \in S
      PROVE  IsFiniteSet(B(x)) /\ Rank(x, S, R) = Cardinality(B(x)) /\ Rank(x, S, R) \in 1..Cardinality(S)
  <2>1. B(x) \in SUBSET S /\ x \in B(x) /\ Rank(x, S, R) = Cardinality(B(x))
    BY DEF Rank
  <2> HIDE DEF B
  <2>2. IsFiniteSet(B(x)) /\ Cardinality(B(x)) <= Cardinality(S)
    BY <2>1, FS_Subset
  <2>3. Cardinality(B(x)) \in Nat /\ Cardinality(B(x)) # 0
    BY <2>1, <2>2, FS_CardinalityType, FS_EmptySet
  <2> QED
    BY <1>1, <2>1, <2>2, <2>3
<1>3. ASSUME NEW x \in S, NEW y \in S, <<x, y>> \in R
      PROVE  Rank(x, S, R) < Rank(y, S, R)
  <2>1. B(x) \in SUBSET B(y)
    BY <1>3 DEF TotalOrder
  <2>2. y \in B(y) /\ y \notin B(x)
    BY <1>3 DEF TotalOrder
  <2>3. B(x) # B(y)
    BY <2>2
  <2> HIDE DEF B
  <2>4. IsFiniteSet(B(y)) /\ Cardinality(B(x)) <= Cardinality(B(y)) /\ Cardinality(B(x)) # Cardinality(B(y))
    <3>1. IsFiniteSet(B(y))
      BY <1>2
    <3> QED
      BY <2>1, <2>3, <3>1, FS_Subset
  <2>5. Rank(x, S, R) \in Nat /\ Rank(y, S, R) \in Nat
    BY <1>1, <1>2
  <2> QED
    BY <1>2, <2>4, <2>5
<1> QED
  BY <1>2, <1>3

\* There is such a list.
LEMMA ListExists ==
  ASSUME NEW S, IsFiniteSet(S), NEW R, TotalOrder(R, S)
  PROVE  \E s : Lists(s, S, R)
<1> DEFINE N == Cardinality(S)
           f == [x \in S |-> Rank(x, S, R)]
           s == [i \in 1..N |-> CHOOSE x \in S : f[x] = i]
<1>1. N \in Nat
  BY FS_CardinalityType
<1>2. f \in [S -> 1..N] /\ \A x, y \in S : <<x, y>> \in R => f[x] < f[y]
  BY RankGrows
<1>3. IsFiniteSet(1..N) /\ Cardinality(1..N) = N
  <2> HIDE DEF N
  <2> QED
    BY <1>1, FS_Interval
<1> HIDE DEF N, f
<1>4. ASSUME NEW x \in S, NEW y \in S, f[x] = f[y] PROVE x = y
  <2>1. f[x] \in 1..N /\ f[x] \in Int
    BY <1>1, <1>2
  <2>2. ~ (f[x] < f[y]) /\ ~ (f[y] < f[x])
    BY <1>4, <2>1
  <2>3. <<x, y>> \notin R /\ <<y, x>> \notin R
    BY <1>2, <2>2
  <2> QED
    BY <2>3 DEF TotalOrder
<1>5. f \in Injection(S, 1..N)
  BY <1>2, <1>4, Fun_IsInj
<1>6. f \in Surjection(S, 1..N)
  BY <1>3, <1>5, FS_Injection DEF N
<1>7. \A i \in 1..N : \E x \in S : f[x] = i
  BY <1>6 DEF Surjection
<1>8. \A i \in 1..N : s[i] \in S /\ f[s[i]] = i
  BY <1>7
<1>9. s \in [1..N -> S] /\ DOMAIN s = 1..N
  BY <1>8
<1> HIDE DEF s
<1>10. ASSUME NEW i \in 1..N, NEW j \in 1..N, i < j PROVE <<s[i], s[j]>> \in R
  <2>1. s[i] \in S /\ s[j] \in S /\ f[s[i]] = i /\ f[s[j]] = j
    BY <1>8
  <2>2. s[i] # s[j]
    BY <1>1, <1>10, <2>1
  <2>3. <<s[j], s[i]>> \notin R
    <3>1. <<s[j], s[i]>> \in R => j < i
      BY <1>2, <2>1
    <3> QED
      BY <1>1, <1>10, <3>1
  <2> QED
    BY <2>1, <2>2, <2>3 DEF TotalOrder
<1>11. Lists(s, S, R)
  BY <1>9, <1>10 DEF Lists, N
<1> QED
  BY <1>11

\* And it lists all of it.
LEMMA ListsAll ==
  ASSUME NEW S, IsFiniteSet(S), NEW R, TotalOrder(R, S), NEW s, Lists(s, S, R)
  PROVE  \A x \in S : \E i \in DOMAIN s : s[i] = x
<1> DEFINE N == Cardinality(S)
<1>1. N \in Nat /\ s \in [1..N -> S] /\ \A i, j \in 1..N : i < j => <<s[i], s[j]>> \in R
  BY FS_CardinalityType DEF Lists
<1>2. IsFiniteSet(1..N) /\ Cardinality(1..N) = N
  <2> HIDE DEF N
  <2> QED
    BY <1>1, FS_Interval
<1> HIDE DEF N
<1>3. ASSUME NEW i \in 1..N, NEW j \in 1..N, s[i] = s[j] PROVE i = j
  <2>1. s[i] \in S
    BY <1>1
  <2>2. <<s[i], s[i]>> \notin R
    BY <2>1 DEF TotalOrder
  <2>3. ~ (i < j) /\ ~ (j < i)
    BY <1>1, <1>3, <2>2
  <2> QED
    BY <1>1, <2>3
<1>4. s \in Injection(1..N, S)
  BY <1>1, <1>3, Fun_IsInj
<1>5. s \in Surjection(1..N, S)
  BY <1>2, <1>4, FS_Injection DEF N
<1> QED
  BY <1>1, <1>5 DEF Surjection

\* Numbers are ordered, either way.
Above == {x \in Nat \X Nat : x[1] > x[2]}
Below == {x \in Nat \X Nat : x[1] < x[2]}

\* Both ways of ordering numbers are total orders.
LEMMA NumbersAreOrdered ==
  ASSUME NEW S \in SUBSET Nat
  PROVE  /\ TotalOrder(Above, S) /\ TotalOrder(Below, S)
         /\ \A x, y \in S : (<<x, y>> \in Above <=> x > y) /\ (<<x, y>> \in Below <=> x < y)
<1>1. \A x, y \in Nat : (<<x, y>> \in Above <=> x > y) /\ (<<x, y>> \in Below <=> x < y)
  BY DEF Above, Below
<1>2. \A x \in S : x \in Nat
  OBVIOUS
<1> QED
  BY <1>1, <1>2 DEF TotalOrder

\* What a sort gives, the greatest first.
LEMMA SortedDown ==
  ASSUME NEW S \in SUBSET Nat, IsFiniteSet(S) PROVE Lists(InOrderOf(S, >), S, Above)
<1>1. PICK s : Lists(s, S, Above)
  BY ListExists, NumbersAreOrdered
<1>2. s \in [1..Cardinality(S) -> S] /\ \A i, j \in DOMAIN s : i < j => s[i] > s[j]
  BY <1>1, NumbersAreOrdered DEF Lists
<1>3. /\ InOrderOf(S, >) \in [1..Cardinality(S) -> S]
      /\ \A i, j \in DOMAIN InOrderOf(S, >) : i < j => InOrderOf(S, >)[i] > InOrderOf(S, >)[j]
  BY <1>2 DEF InOrderOf
<1> QED
  BY <1>3, NumbersAreOrdered DEF Lists

\* The least first.
LEMMA SortedUp ==
  ASSUME NEW S \in SUBSET Nat, IsFiniteSet(S) PROVE Lists(InOrderOf(S, <), S, Below)
<1>1. PICK s : Lists(s, S, Below)
  BY ListExists, NumbersAreOrdered
<1>2. s \in [1..Cardinality(S) -> S] /\ \A i, j \in DOMAIN s : i < j => s[i] < s[j]
  BY <1>1, NumbersAreOrdered DEF Lists
<1>3. /\ InOrderOf(S, <) \in [1..Cardinality(S) -> S]
      /\ \A i, j \in DOMAIN InOrderOf(S, <) : i < j => InOrderOf(S, <)[i] < InOrderOf(S, <)[j]
  BY <1>2 DEF InOrderOf
<1> QED
  BY <1>3, NumbersAreOrdered DEF Lists

----------------------------------------------------------------------------
(* Folds *)

\* A finite set of numbers that is not empty has a least one.
LEMMA LeastExists ==
  ASSUME NEW S \in SUBSET Nat, IsFiniteSet(S), S # {}
  PROVE  Min(S) \in S /\ \A i \in S : Min(S) <= i
<1> DEFINE G == {s \in SUBSET S : s = {} \/ \E i \in s : \A j \in s : i <= j}
<1>1. ASSUME NEW s \in SUBSET S, \A t \in SUBSET s : t # s => t \in G
      PROVE  s \in G
  <2>1. CASE s = {}
    BY <2>1
  <2>2. ASSUME NEW x \in s PROVE s \in G
    <3>1. s \ {x} \in G
      BY <1>1, <2>2
    <3>2. CASE s \ {x} = {}
      <4>1. \A j \in s : x <= j
        BY <3>2
      <4> QED
        BY <4>1
    <3>3. ASSUME NEW i \in s \ {x}, \A j \in s \ {x} : i <= j PROVE s \in G
      <4>1. CASE i <= x
        BY <3>3, <4>1
      <4>2. CASE ~ (i <= x)
        <5>1. \A j \in s : x <= j
          BY <3>3, <4>2
        <5> QED
          BY <5>1
      <4> QED
        BY <4>1, <4>2
    <3> QED
      BY <3>1, <3>2, <3>3
  <2> QED
    BY <2>1, <2>2
<1>2. SUBSET S \subseteq G
  <2> HIDE DEF G
  <2> QED
    BY <1>1, SubsetInduction
<1>3. \E i \in S : \A j \in S : i <= j
  BY <1>2
<1> QED
  BY <1>3 DEF Min

\* Induction over 0..n, with the claim as a set of numbers.
LEMMA CountingUp ==
  ASSUME NEW n \in Nat, NEW G, 0 \in G, \A k \in 1..n : k - 1 \in G => k \in G
  PROVE  0..n \subseteq G
<1> DEFINE B == {k \in 0..n : k \notin G}
<1> SUFFICES ASSUME B # {} PROVE FALSE
  OBVIOUS
<1>1. IsFiniteSet(0..n)
  BY FS_Interval
<1>2. B \in SUBSET (0..n) /\ B \in SUBSET Nat
  OBVIOUS
<1> HIDE DEF B
<1>a. IsFiniteSet(B)
  BY <1>1, <1>2, FS_Subset
<1>3. PICK k \in B : \A j \in B : k <= j
  BY <1>2, <1>a, LeastExists
<1> USE DEF B
<1>4. k \in 1..n /\ k - 1 \in 0..n /\ k - 1 \notin B
  BY <1>3
<1> QED
  BY <1>3, <1>4

\* The greatest of a set of numbers whose greatest is known.
LEMMA MaxIs ==
  ASSUME NEW S \in SUBSET Nat, NEW x \in S, \A y \in S : y <= x
  PROVE  Max(S) = x
<1>1. x \in S /\ \A y \in S : x >= y
  OBVIOUS
<1>2. Max(S) \in S /\ \A y \in S : Max(S) >= y
  BY <1>1 DEF Max
<1>3. x \in Nat /\ Max(S) \in Nat /\ x >= Max(S) /\ Max(S) >= x
  BY <1>1, <1>2
<1> QED
  BY <1>3

\* A set of numbers up to n has a greatest.
LEMMA GreatestExists ==
  ASSUME NEW n \in Nat, NEW S \in SUBSET (0..n), S # {}
  PROVE  Max(S) \in S /\ \A i \in S : Max(S) >= i
<1> DEFINE B == {n - i : i \in S}
<1>1. IsFiniteSet(0..n)
  BY FS_Interval
<1>2. B \in SUBSET (0..n) /\ B \in SUBSET Nat /\ B # {}
  <2>1. \A i \in S : n - i \in 0..n
    OBVIOUS
  <2>2. B \in SUBSET (0..n) /\ B # {}
    BY <2>1
  <2> HIDE DEF B
  <2> QED
    BY <2>2
<1>3. IsFiniteSet(B)
  BY <1>1, <1>2, FS_Subset
<1> HIDE DEF B
<1>4. Min(B) \in B /\ \A i \in B : Min(B) <= i
  BY <1>2, <1>3, LeastExists
<1>5. PICK x \in S : Min(B) = n - x
  BY <1>4 DEF B
<1>6. \A i \in S : n - x <= n - i
  BY <1>4, <1>5 DEF B
<1>7. \A y \in S : x >= y
  BY <1>6
<1>8. S \in SUBSET Nat /\ \A y \in S : y <= x
  BY <1>7
<1>9. Max(S) = x
  BY <1>8, MaxIs
<1> QED
  BY <1>7, <1>9

\* The last of 1..k, and the rest of it.
LEMMA LastOne ==
  ASSUME NEW k \in Nat \ {0}
  PROVE  Max(1..k) = k /\ (1..k) \ {k} = 1..(k - 1) /\ 1..k # {}
<1>1. 1..k \in SUBSET Nat /\ k \in 1..k /\ \A y \in 1..k : y <= k
  OBVIOUS
<1>2. Max(1..k) = k
  BY <1>1, MaxIs
<1>3. \A i : i \in (1..k) \ {k} <=> i \in 1..(k - 1)
  OBVIOUS
<1> QED
  BY <1>1, <1>2, <1>3

\* What folds F over the elements of s from its least to its greatest.
Folded(F, base, g, s) == IF s = {} THEN base ELSE F[<<Max(s), g[s \ {Max(s)}]>>]

Folds(F, base, g, n, T) ==
  g \in [SUBSET (1..n) -> T] /\ \A s \in SUBSET (1..n) : g[s] = Folded(F, base, g, s)

\* There is a fold, over all subsets of the indices.
LEMMA FoldExists ==
  ASSUME NEW n \in Nat, NEW T, NEW base \in T, NEW F \in [(1..n) \X T -> T]
  PROVE  \E g : Folds(F, base, g, n, T)
<1> DEFINE P(k) == \E g \in [SUBSET (1..k) -> T] :
                     \A s \in SUBSET (1..k) : g[s] = Folded(F, base, g, s)
<1>1. P(0)
  <2> DEFINE g == [s \in SUBSET (1..0) |-> base]
  <2>1. 1..0 = {}
    OBVIOUS
  <2>2. g \in [SUBSET (1..0) -> T] /\ \A s \in SUBSET (1..0) : s = {} /\ g[s] = base
    BY <2>1
  <2> HIDE DEF g
  <2> QED
    BY <2>2 DEF Folded
<1>2. ASSUME NEW k \in 1..n, P(k - 1) PROVE P(k)
  <2> PICK g \in [SUBSET (1..(k - 1)) -> T] :
             \A s \in SUBSET (1..(k - 1)) : g[s] = Folded(F, base, g, s)
    BY <1>2
  <2> DEFINE h == [s \in SUBSET (1..k) |-> IF k \in s THEN F[<<k, g[s \ {k}]>>] ELSE g[s]]
  <2>1. k \in Nat \ {0} /\ k - 1 \in Nat
    OBVIOUS
  <2>2. ASSUME NEW s \in SUBSET (1..k)
        PROVE  /\ s \ {k} \in SUBSET (1..(k - 1))
               /\ k \notin s => s \in SUBSET (1..(k - 1))
    BY <2>1
  <2>3. \A s \in SUBSET (1..k) : h[s] = IF k \in s THEN F[<<k, g[s \ {k}]>>] ELSE g[s]
    OBVIOUS
  <2>4. h \in [SUBSET (1..k) -> T]
    <3>1. ASSUME NEW s \in SUBSET (1..k)
          PROVE  (IF k \in s THEN F[<<k, g[s \ {k}]>>] ELSE g[s]) \in T
      <4>1. CASE k \in s
        <5>1. g[s \ {k}] \in T
          BY <2>2
        <5>2. <<k, g[s \ {k}]>> \in (1..n) \X T
          BY <5>1
        <5> QED
          BY <4>1, <5>2
      <4>2. CASE k \notin s
        BY <2>2, <4>2
      <4> QED
        BY <4>1, <4>2
    <3> QED
      BY <3>1
  <2> HIDE DEF h
  <2>5. ASSUME NEW s \in SUBSET (1..k) PROVE h[s] = Folded(F, base, h, s)
    <3>1. CASE k \in s
      <4>1. Max(s) = k
        <5>1. s \in SUBSET Nat /\ \A y \in s : y <= k
          BY <2>1
        <5> QED
          BY <3>1, <5>1, MaxIs
      <4>2. s # {} /\ s \ {k} \in SUBSET (1..k) /\ k \notin s \ {k}
        BY <3>1
      <4>3. h[s \ {k}] = g[s \ {k}]
        BY <2>3, <4>2
      <4>4. h[s] = F[<<k, g[s \ {k}]>>]
        BY <2>3, <3>1
      <4> QED
        BY <4>1, <4>2, <4>3, <4>4 DEF Folded
    <3>2. CASE k \notin s
      <4>1. s \in SUBSET (1..(k - 1)) /\ h[s] = g[s]
        BY <2>2, <2>3, <3>2
      <4>2. CASE s = {}
        BY <4>1, <4>2 DEF Folded
      <4>3. CASE s # {}
        <5> PICK r : r = s \ {Max(s)}
          OBVIOUS
        <5>1. r \in SUBSET (1..k) /\ k \notin r
          BY <3>2
        <5>2. h[r] = g[r]
          BY <2>3, <5>1
        <5>3. g[s] = F[<<Max(s), g[r]>>]
          BY <4>1, <4>3 DEF Folded
        <5> QED
          BY <4>1, <4>3, <5>2, <5>3 DEF Folded
      <4> QED
        BY <4>2, <4>3
    <3> QED
      BY <3>1, <3>2
  <2> QED
    BY <2>4, <2>5
<1> HIDE DEF P
<1> DEFINE G == {k \in 0..n : P(k)}
<1>3. 0 \in G /\ \A k \in 1..n : k - 1 \in G => k \in G
  BY <1>1, <1>2
<1> HIDE DEF G
<1>4. 0..n \subseteq G
  BY <1>3, CountingUp
<1>5. P(n)
  BY <1>4 DEF G
<1> QED
  BY <1>5 DEF P, Folds

\* What is folded over the first k, step by step.
LEMMA FoldSteps ==
  ASSUME NEW n \in Nat, NEW F, NEW base, NEW g,
         \A s \in SUBSET (1..n) : g[s] = Folded(F, base, g, s)
  PROVE  /\ g[1..0] = base
         /\ \A k \in 1..n : g[1..k] = F[<<k, g[1..(k - 1)]>>]
<1>1. g[1..0] = base
  <2>1. 1..0 = {} /\ 1..0 \in SUBSET (1..n)
    OBVIOUS
  <2> QED
    BY <2>1 DEF Folded
<1>2. ASSUME NEW k \in 1..n PROVE g[1..k] = F[<<k, g[1..(k - 1)]>>]
  <2>1. Max(1..k) = k /\ (1..k) \ {k} = 1..(k - 1) /\ 1..k # {} /\ 1..k \in SUBSET (1..n)
    BY LastOne
  <2> QED
    BY <2>1 DEF Folded
<1> QED
  BY <1>1, <1>2

----------------------------------------------------------------------------
(* Division *)

\* Quotient and remainder.
LEMMA DivisionIs ==
  ASSUME NEW n \in Nat, NEW p \in Nat, p > 0, NEW q \in Nat, NEW r \in Nat, r < p,
         n = p * q + r
  PROVE  n \div p = q /\ n % p = r
OBVIOUS

\* There are a quotient and a remainder, and they make up the number.
LEMMA Division ==
  ASSUME NEW n \in Nat, NEW p \in Nat, p > 0
  PROVE  /\ n \div p \in Nat /\ n % p \in Nat /\ n % p < p
         /\ n = p * (n \div p) + (n % p)
<1> DEFINE G == {k \in 0..n : \E q, r \in Nat : k = p * q + r /\ r < p}
<1>1. 0 \in G
  <2>1. 0 = p * 0 + 0 /\ 0 < p
    OBVIOUS
  <2> QED
    BY <2>1
<1>2. ASSUME NEW k \in 1..n, k - 1 \in G PROVE k \in G
  <2> PICK q \in Nat, r \in Nat : k - 1 = p * q + r /\ r < p
    BY <1>2
  <2>1. CASE r + 1 < p
    <3>1. k = p * q + (r + 1)
      OBVIOUS
    <3> QED
      BY <2>1, <3>1
  <2>2. CASE r + 1 = p
    <3>1. k = p * (q + 1) + 0 /\ q + 1 \in Nat /\ 0 < p
      BY <2>2
    <3> QED
      BY <3>1
  <2> QED
    BY <2>1, <2>2
<1> HIDE DEF G
<1>3. 0..n \subseteq G
  BY <1>1, <1>2, CountingUp
<1>4. PICK q \in Nat, r \in Nat : n = p * q + r /\ r < p
  BY <1>3 DEF G
<1>5. n \div p = q /\ n % p = r
  BY <1>4, DivisionIs
<1> QED
  BY <1>4, <1>5

=============================================================================
