----------------------------- MODULE ScalarWords ------------------------------
(***************************************************************************)
(* What LowerToLLVM selects for operators without a check, on the machine  *)
(* words of a type.  A root type r has a width and a modulus, which is 0   *)
(* when it is not modular.                                                 *)
(***************************************************************************)
EXTENDS Words

Width(r) == r.width
Modular(r) == r.modulus # 0

(* isUnsignedOrderQualType: modular types, and enumerations without a      *)
(* negative representation.                                                *)
UnsignedOrder(r) == Modular(r) \/ (r.kind = "enum" /\ r.lo >= 0)
Read(r, x) == IF UnsignedOrder(r) THEN x ELSE AsSigned(Width(r), x)

Plain(w, op, x, y) ==
  IF op \in {"and", "or", "xor"} THEN Bitwise(w, op, x, y)
  ELSE Wrap(w, Arith(op, x, y))

MinWord(w) == 2^(w - 1)

FullWidthModulus(r) == r.modulus = 2^Width(r)
PowerOfTwoModulus(r) == \E k \in 0..Width(r) : r.modulus = 2^k

(* A value below 2m is reduced by one conditional subtraction.             *)
ReduceOnce(w, m, x) == IF x >= m THEN Wrap(w, x - m) ELSE x

(* A modulus below the machine range: mask a power of two, else compute in *)
(* twice the width and reduce.                                             *)
Reduced(r, op, x, y) ==
  LET w == Width(r)
      ww == 2 * w
      m == r.modulus
  IN  CASE op \in {"+", "-", "*"} /\ PowerOfTwoModulus(r) ->
             Bitwise(w, "and", Plain(w, op, x, y), m - 1)
        [] op \in {"or", "xor"} /\ ~PowerOfTwoModulus(r) ->
             ReduceOnce(w, m, Plain(w, op, x, y))
        [] op = "*" /\ ~PowerOfTwoModulus(r) ->
             Wrap(w, Plain(ww, "*", x, y) % m)
        [] op = "+" /\ ~PowerOfTwoModulus(r) ->
             Wrap(w, ReduceOnce(ww, m, Plain(ww, "+", x, y)))
        [] op = "-" /\ ~PowerOfTwoModulus(r) ->
             Wrap(w, ReduceOnce(ww, m, Plain(ww, "-", Plain(ww, "+", x, m), y)))
        [] OTHER -> Plain(w, op, x, y)

(* An operator that carries no check.                                      *)
Unchecked(r, op, x, y) ==
  IF Modular(r) /\ ~FullWidthModulus(r)
    THEN Reduced(r, op, x, y)
    ELSE Plain(Width(r), op, x, y)

Predicate(op, a, b) ==
  CASE op = "=" -> a = b
    [] op = "/=" -> a # b
    [] op = "<" -> a < b
    [] op = "<=" -> a <= b
    [] op = ">" -> a > b
    [] op = ">=" -> a >= b
=============================================================================
