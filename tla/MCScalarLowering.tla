-------------------------- MODULE MCScalarLowering ---------------------------
(***************************************************************************)
(* Instances of ScalarLowering: types of two, three and four bits, each    *)
(* with its subtypes, so that every pair of widths and signs meets in a    *)
(* conversion and every operand in an operator.                            *)
(***************************************************************************)
EXTENDS ScalarLowering, MCScalarTypes

MCArrays ==
  {[root |-> Medium, lo |-> 1, hi |-> 3], [root |-> Medium, lo |-> -4, hi |-> 3],
   [root |-> Medium, lo |-> 2, hi |-> 1], [root |-> Long, lo |-> -8, hi |-> 1],
   [root |-> Mod4, lo |-> 2, hi |-> 3], [root |-> Mod5, lo |-> 1, hi |-> 3]}

(* A signed type declared with a range below its machine range, as         *)
(* `type Small is range -100 .. 100` is, and a subtype of the same range.  *)
Small == SignedRoot("small", -2, 2)
NarrowTypes ==
  {MCBoolean, RootType(Small), Sub(Small, "static", -2, 2), RootType(Medium)}
NarrowArrays == {}
=============================================================================
