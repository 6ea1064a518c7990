----------------------------- MODULE Arithmetic -----------------------------
(***************************************************************************)
(* The binary operators (BinaryOperatorKind in include/yac/AST/AST.h) and  *)
(* what they compute, for the source, the IR and the machine alike.        *)
(***************************************************************************)
EXTENDS Integers

Relations == {"<", ">", "<=", ">="}
Equalities == {"==", "!="}
BitOperators == {"&", "|", "^", "<<", ">>"}
BinaryOperators == {"+", "-", "*", "/", "%"} \cup Relations \cup Equalities \cup BitOperators

Undefined == 1000    \* of a variable that was not assigned; no result is as large

\* Division truncates; nothing is said of a division by zero.
Quotient(v, w) ==
  LET abs(n) == IF n < 0 THEN 0 - n ELSE n
  IN IF w = 0 THEN Undefined
     ELSE (abs(v) \div abs(w)) * (IF (v < 0) = (w < 0) THEN 1 ELSE 0 - 1)

\* Integers as bits, in two's complement.  Bound: none needs more than Width.
Width == 12
Bit(n, i) == (n \div 2^i) % 2
Weight(i) == IF i = Width - 1 THEN 0 - 2^i ELSE 2^i

\* The integer that has the bits i with Has(Bit(v, i), Bit(w, i)).
BitByBit(Has(_, _), v, w) ==
  LET Low[n \in 0..Width] ==
        IF n = 0 THEN 0
        ELSE Low[n - 1] + (IF Has(Bit(v, n - 1), Bit(w, n - 1)) THEN Weight(n - 1) ELSE 0)
  IN Low[Width]

Truth(v) == IF v = 0 THEN 0 ELSE 1
Negated(v) == IF v = Undefined THEN Undefined ELSE 1 - Truth(v)
Applied(op, v, w) ==
  IF Undefined \in {v, w} THEN Undefined
  ELSE CASE op = "+" -> v + w
         [] op = "-" -> v - w
         [] op = "*" -> v * w
         [] op = "/" -> Quotient(v, w)
         [] op = "%" -> IF w = 0 THEN Undefined ELSE v - w * Quotient(v, w)
         [] op = "&" -> BitByBit(LAMBDA x, y : x = 1 /\ y = 1, v, w)
         [] op = "|" -> BitByBit(LAMBDA x, y : x = 1 \/ y = 1, v, w)
         [] op = "^" -> BitByBit(LAMBDA x, y : x # y, v, w)
         [] op = "<" -> IF v < w THEN 1 ELSE 0
         [] op = ">" -> IF v > w THEN 1 ELSE 0
         [] op = "<=" -> IF v <= w THEN 1 ELSE 0
         [] op = ">=" -> IF v >= w THEN 1 ELSE 0
         [] op = "==" -> IF v = w THEN 1 ELSE 0
         [] op = "!=" -> IF v = w THEN 0 ELSE 1
=============================================================================
