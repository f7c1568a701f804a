-------------------------------- MODULE Words --------------------------------
(***************************************************************************)
(* Machine integers as the arith and LLVM dialects define them: a word of  *)
(* w bits is a number in 0 .. 2^w - 1, read as signed or as unsigned by    *)
(* each operation.                                                         *)
(***************************************************************************)
EXTENDS Integers

Word(w) == 0..(2^w - 1)
Wrap(w, n) == n % 2^w
AsSigned(w, x) == IF x < 2^(w - 1) THEN x ELSE x - 2^w
SignedRange(w) == -(2^(w - 1))..(2^(w - 1) - 1)
AllOnes(w) == 2^w - 1

(* trunci and extui leave the number as it is modulo the target width.     *)
SignExtend(w, wide, x) == Wrap(wide, AsSigned(w, x))

Bit(x, k) == (x \div 2^k) % 2
Bitwise(w, op, x, y) ==
  CHOOSE z \in Word(w) :
    \A k \in 0..(w - 1) :
      Bit(z, k) = CASE op = "and" -> Bit(x, k) * Bit(y, k)
                    [] op = "or"  -> IF Bit(x, k) + Bit(y, k) > 0 THEN 1 ELSE 0
                    [] op = "xor" -> (Bit(x, k) + Bit(y, k)) % 2

(* Division towards zero, by a divisor that is not zero.                   *)
Abs(a) == IF a < 0 THEN -a ELSE a
Quotient(a, b) ==
  IF (a < 0) = (b < 0) THEN Abs(a) \div Abs(b) ELSE -(Abs(a) \div Abs(b))

Arith(op, a, b) ==
  CASE op = "+" -> a + b
    [] op = "-" -> a - b
    [] op = "*" -> a * b
    [] op = "/" -> Quotient(a, b)
=============================================================================
