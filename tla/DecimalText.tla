---------------------------- MODULE DecimalText ----------------------------
(***************************************************************************)
(* The decimal texts in which prices and quantities travel - in requests,  *)
(* in rows, in events, in answers - and how order-service (numeric.go) and *)
(* marketdata-service (readmodel.go) read and write them.  The two have    *)
(* parsers of their own, which do not accept the same texts.               *)
(*                                                                         *)
(* A text is a sign, digits, a point and more digits, each of which may be *)
(* missing, with or without space around; anything else is left out:       *)
(* order-service, which writes what the other one reads, refuses it all.   *)
(***************************************************************************)
EXTENDS Integers, SequencesExt

CONSTANTS
  Decimals,  (* maxQuantityDecimals                                        *)
  MaxInt64   (* math.MaxInt64                                              *)

ASSUME TextAssumption ==
  /\ Decimals \in Nat
  /\ MaxInt64 \in Nat

Digits == 0..9

Texts == [padded : BOOLEAN, sign : {"", "+", "-"}, whole : Seq(Digits),
          point : BOOLEAN, frac : Seq(Digits)]

\* The text with digits whole before the point, and frac after it if it has one.
Text(whole, point, frac) ==
  [padded |-> FALSE, sign |-> "", whole |-> whole, point |-> point, frac |-> frac]

EmptyText == Text(<<>>, FALSE, <<>>)

----------------------------------------------------------------------------
(* Digits and numbers *)

\* What an addition that is not checked leaves of n.
Wrapped(n) == ((n + MaxInt64 + 1) % (2 * (MaxInt64 + 1))) - MaxInt64 - 1

\* The number that a sequence of digits stands for; no digits stand for 0.
ValueOf(digits) == FoldLeft(LAMBDA n, d : 10 * n + d, 0, digits)

Zeros(k) == [i \in 1..k |-> 0]

\* 10 ^ k, written out as QuantityScale is.
PowerOfTen(k) == ValueOf(<<1>> \o Zeros(k))

\* The k last digits of n, with leading zeros.
DigitsOf(n, k) == [i \in 1..k |-> (n \div PowerOfTen(k - i)) % 10]

Length(n) ==
  CHOOSE k \in 1..(n + 1) : n < PowerOfTen(k) /\ (k = 1 \/ n >= PowerOfTen(k - 1))

\* FormatInt of n >= 0.
FormatInt(n) == DigitsOf(n, Length(n))

\* A parser's outcome.
Number(n)  == [err |-> "none", value |-> n]
Failure(e) == [err |-> e, value |-> 0]

\* ParseInt of a sign and digits.
ParseInt(sign, digits) ==
  LET n        == ValueOf(digits)
      greatest == IF sign = "-" THEN MaxInt64 + 1 ELSE MaxInt64
  IN IF digits = <<>> \/ n > greatest THEN Failure("format")
     ELSE Number(IF sign = "-" THEN -n ELSE n)

----------------------------------------------------------------------------
(* order-service *)

\* Surrounding space is trimmed, a point refused.
ParsePriceKRWMinor(t) ==
  LET n == ParseInt(t.sign, t.whole)
  IN IF t.point THEN Failure("format")
     ELSE IF n.err = "none" /\ n.value <= 0 THEN Failure("nonPositive") ELSE n

FormatPriceKRWMinor(n) == Text(FormatInt(n), FALSE, <<>>)

\* The number of scaled units in a text with at most Decimals digits behind the point.
Scaled(t) == ValueOf(t.whole \o t.frac \o Zeros(Decimals - Len(t.frac)))

\* Trimmed as well; digits only, at least one on either side of a point.
ParseQuantityScaled(t) ==
  IF \/ t.sign # ""
     \/ t.whole = <<>>
     \/ t.point /\ t.frac = <<>>
     \/ Len(t.frac) > Decimals
    THEN Failure("format")
  ELSE IF Scaled(t) > MaxInt64 THEN Failure("overflow")
  ELSE IF Scaled(t) = 0 THEN Failure("nonPositive")
  ELSE Number(Scaled(t))

TrimRight(digits) ==
  SubSeq(digits, 1, SelectLastInSeq(digits, LAMBDA d : d # 0))

\* Mutant of FormatFrac: the digits are not padded to the left.
FormatFracUnpadded(n) == TrimRight(FormatInt(n))

\* The digits behind the point.
FormatFrac(n) == TrimRight(DigitsOf(n, Decimals))

FormatQuantityScaled(n) ==
  LET whole == FormatInt(n \div PowerOfTen(Decimals))
      rest  == n % PowerOfTen(Decimals)
  IN IF rest = 0 THEN Text(whole, FALSE, <<>>) ELSE Text(whole, TRUE, FormatFrac(rest))

\* A result below zero is refused.
SafeSubInt64(a, b) == IF b < 0 \/ a < b THEN Failure("underflow") ELSE Number(a - b)

----------------------------------------------------------------------------
(* marketdata-service *)

\* Not trimmed; nothing below zero.
ParsePrice(t) ==
  LET n == ParseInt(t.sign, t.whole)
  IN IF t.padded \/ t.point \/ n.err # "none" \/ n.value < 0 THEN Failure("format") ELSE n

\* Mutant of ParseQuantity: one digit less is allowed behind the point.
ParseQuantityShort(t) ==
  IF Len(t.frac) >= Decimals THEN Failure("format") ELSE Number(Scaled(t))

\* Trimmed; digits may miss before the point, behind it, or altogether, a sign may
\* be there, and 0 is as good as any.
ParseQuantity(t) ==
  IF \/ t = [EmptyText EXCEPT !.padded = t.padded]
     \/ Len(t.frac) > Decimals
     \/ Scaled(t) > MaxInt64
     \/ t.sign = "-" /\ Scaled(t) > 0
    THEN Failure("format")
  ELSE Number(Scaled(t))

\* formatPrice and formatQuantity write what order-service writes, negative numbers
\* aside, which nothing here has to write.
FormatPrice(n)    == FormatPriceKRWMinor(n)
FormatQuantity(n) == FormatQuantityScaled(n)

\* A query parameter: Atoi of it, or the default when it is missing or empty.
ParseBoundedPositiveInt(raw, default, max) ==
  LET n == IF raw = EmptyText THEN Number(default) ELSE ParseInt(raw.sign, raw.whole)
  IN IF raw.padded \/ raw.point \/ n.err # "none" \/ n.value <= 0 \/ n.value > max
       THEN Failure("format")
     ELSE n

=============================================================================
