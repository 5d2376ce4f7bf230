---------------------------------- MODULE Scan ----------------------------------
(***************************************************************************)
(* What the readers of literals share: a text is a sequence of characters, *)
(* read from the left, and division is C's.                                *)
(***************************************************************************)
EXTENDS Integers, Sequences

Error == [type |-> "ERROR"]

Digit == {"0", "1", "2", "3", "4", "5", "6", "7", "8", "9"}

At(s, p, chars) == p <= Len(s) /\ s[p] \in chars

\* Where the characters end that begin at p
RunEnd(s, p, chars) ==
  CHOOSE q \in p..Len(s) + 1 : ~At(s, q, chars) /\ \A k \in p..q - 1 : At(s, k, chars)

Quotient(a, b) == IF a >= 0 THEN a \div b ELSE -((-a) \div b)
===============================================================================
