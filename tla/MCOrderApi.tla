----------------------------- MODULE MCOrderApi -----------------------------
(***************************************************************************)
(* Instances of OrderApi for TLC: the texts that requests carry, and what  *)
(* the two services make of all short texts.                               *)
(***************************************************************************)
EXTENDS OrderApi

Padded(t)    == [t EXCEPT !.padded = TRUE]
Signed(s, t) == [t EXCEPT !.sign = s]

One  == Text(<<1>>, FALSE, <<>>)
Half == Text(<<0>>, TRUE, <<5>>)

\* "1", " 1 ", "02"; and "", "1.5", "-1", "0", "9999" that are refused.
MCPriceTexts ==
  {One, Padded(One), Text(<<0, 2>>, FALSE, <<>>)}
    \cup {EmptyText, Text(<<1>>, TRUE, <<5>>), Signed("-", One), Text(<<0>>, FALSE, <<>>),
          Text(<<9, 9, 9, 9>>, FALSE, <<>>)}

\* "0.85", "9.90"; and "", "+0.5", ".5", "5.", "0.005", "0.0", "99" that are refused.
MCQuantityTexts ==
  {Text(<<0>>, TRUE, <<8, 5>>), Text(<<9>>, TRUE, <<9, 0>>)}
    \cup {EmptyText, Signed("+", Half), Text(<<>>, TRUE, <<5>>), Text(<<5>>, TRUE, <<>>),
          Text(<<0>>, TRUE, <<0, 0, 5>>), Text(<<0>>, TRUE, <<0>>),
          Text(<<9, 9>>, FALSE, <<>>)}

\* "", "0", "+2", "9", "-1"
MCParamTexts ==
  {EmptyText, Text(<<0>>, FALSE, <<>>), Signed("+", Text(<<2>>, FALSE, <<>>)),
   Text(<<9>>, FALSE, <<>>), Signed("-", One)}

\* Users are there to be told apart only.
UserSymmetry == Permutations(Users)

\* Bound: one price text only when several users have orders.  Who owns an order decides
\* what is listed and answered, its price what is matched and shown, and neither the other.
FewTexts ==
  \/ \A i, j \in DOMAIN rows : rows[i].user = rows[j].user
  \/ \A i \in DOMAIN rows : rows[i].price = One

=============================================================================
