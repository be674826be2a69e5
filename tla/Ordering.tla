------------------------------ MODULE Ordering ------------------------------
(***************************************************************************)
(* Sorting and limits, as both services apply them to what they answer and *)
(* order-service to what it matches.                                       *)
(***************************************************************************)
EXTENDS Naturals, Sequences, FiniteSets

\* The first n of s, or all of it.
First(s, n) == SubSeq(s, 1, IF Len(s) > n THEN n ELSE Len(s))

\* sort.Slice or ORDER BY over what is there once.
InOrderOf(S, Before(_, _)) ==
  CHOOSE s \in [1..Cardinality(S) -> S] : \A i, j \in DOMAIN s : i < j => Before(s[i], s[j])

=============================================================================
