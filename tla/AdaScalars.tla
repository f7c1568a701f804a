----------------------------- MODULE AdaScalars ------------------------------
(***************************************************************************)
(* What Ada promises of scalar expressions (RM 3.5.4, 4.5, 4.6, 11.5): the *)
(* exact value of each operator, modulo the modulus for a modular type, or *)
(* the check that fails.  A run evaluates one operator after the other on  *)
(* the value of the last one.                                              *)
(***************************************************************************)
EXTENDS ScalarTypes

VARIABLES
  type,     \* the type of the last value
  value,    \* the last value
  expr,     \* the operator applied to it
  raised,   \* the check that failed, or "no"
  selected  \* the component the last index names, from 0

vars == <<type, value, expr, raised, selected>>

-----------------------------------------------------------------------------
(* Expressions with the last value as their left operand.                  *)
Idle == [kind |-> "idle"]

Exprs(t) ==
  [kind : {"binary"}, op : BinaryOps(t.root), right : Base(t.root)] \cup
  [kind : {"compare"}, op : CompareOps, right : Base(t.root)] \cup
  [kind : {"unary"}, op : UnaryOps(t.root)] \cup
  [kind : {"convert"}, target : Targets(t)] \cup
  [kind : {"index"}, array : Indexable(t)]

Value(v) == [raised |-> "no", value |-> v]
Fails(check) == [raised |-> check]

(* A signed result must lie in the base range; a modular one wraps.        *)
InBase(r, v) ==
  IF r.kind = "signed" /\ v \notin Base(r) THEN Fails("overflow")
  ELSE IF r.kind = "modular" THEN Value(v % r.modulus) ELSE Value(v)

Binary(r, op, a, b) ==
  IF op \in {"and", "or", "xor"} THEN InBase(r, Bitwise(r.width, op, a, b))
  ELSE IF op = "/" /\ b = 0 THEN Fails("divide by zero")
  ELSE InBase(r, Arith(op, a, b))

Unary(r, op, a) ==
  CASE op = "+" -> Value(a)
    [] op = "-" -> InBase(r, -a)
    [] op = "abs" -> InBase(r, Abs(a))
    [] op = "not" -> Value(r.hi - a)

Holds(op, a, b) ==
  CASE op = "=" -> a = b
    [] op = "/=" -> a # b
    [] op = "<" -> a < b
    [] op = "<=" -> a <= b
    [] op = ">" -> a > b
    [] op = ">=" -> a >= b

Convert(t, a) == IF a \in Values(t) THEN Value(a) ELSE Fails("range")

-----------------------------------------------------------------------------
Init ==
  /\ type \in Types
  /\ value \in Values(type)
  /\ expr = Idle
  /\ raised = "no"
  /\ selected = 0

(* A new value: an object or a literal.                                    *)
Fetch ==
  /\ expr = Idle
  /\ type' \in Types
  /\ value' \in Values(type')
  /\ raised' = "no"
  /\ UNCHANGED <<expr, selected>>

Choose ==
  /\ expr = Idle
  /\ raised = "no"
  /\ expr' \in Exprs(type)
  /\ UNCHANGED <<type, value, raised, selected>>

Yield(outcome, t) ==
  /\ raised' = outcome.raised
  /\ IF outcome.raised = "no"
       THEN type' = t /\ value' = outcome.value
       ELSE UNCHANGED <<type, value>>
  /\ expr' = Idle
  /\ UNCHANGED selected

Compute ==
  /\ expr.kind = "binary"
  /\ Yield(Binary(type.root, expr.op, value, expr.right), Root(type))

ComputeUnary ==
  /\ expr.kind = "unary"
  /\ Yield(Unary(type.root, expr.op, value), Root(type))

Compare ==
  /\ expr.kind = "compare"
  /\ Yield(Value(IF Holds(expr.op, value, expr.right) THEN 1 ELSE 0), Boolean)

ConvertTo ==
  /\ expr.kind = "convert"
  /\ Yield(Convert(expr.target, value), expr.target)

Index ==
  /\ expr.kind = "index"
  /\ IF value \in expr.array.lo..expr.array.hi
       THEN raised' = "no" /\ selected' = value - expr.array.lo
       ELSE raised' = "index" /\ UNCHANGED selected
  /\ expr' = Idle
  /\ UNCHANGED <<type, value>>

Next ==
  Fetch \/ Choose \/ Compute \/ ComputeUnary \/ Compare \/ ConvertTo \/ Index

Spec == Init /\ [][Next]_vars
=============================================================================
