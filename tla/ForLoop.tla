------------------------------- MODULE ForLoop --------------------------------
(***************************************************************************)
(* A run of the blocks mlirGenForLoop emits for a discrete range:          *)
(*   entry -> init -> body -> step -> body ... -> merge                    *)
(* on the machine words LowerToLLVM gives its operators.  The parameter is *)
(* the body's block argument; the step carries no check.                   *)
(***************************************************************************)
EXTENDS ScalarTypes, ScalarWords

VARIABLES
  paramType,    \* the type of the parameter
  lo, hi,       \* the bounds, as words
  isReverse,
  block,        \* the block being run
  param,        \* the block argument of the body
  exited        \* whether the body branched out of the loop

loopVars == <<paramType, lo, hi, isReverse, block, param, exited>>

Loop == UNCHANGED <<paramType, lo, hi, isReverse>>

Cmp(op, x, y) == Predicate(op, Read(paramType.root, x), Read(paramType.root, y))

Iterable == {t \in Types : t.root.kind # "enum"}

Words(t) == {Wrap(Width(t.root), v) : v \in Values(t)}

LoopInit ==
  /\ paramType \in Iterable
  /\ lo \in Words(paramType) /\ hi \in Words(paramType)
  /\ isReverse \in BOOLEAN
  /\ block = "entry"
  /\ param = 0
  /\ exited = FALSE

(* Mutant: an empty range is not told apart.                               *)
MutantGuard ==
  /\ block = "entry"
  /\ block' = "init"
  /\ UNCHANGED <<param, exited>> /\ Loop

(* The bounds are evaluated; an empty range goes to the merge.             *)
Guard ==
  /\ block = "entry"
  /\ block' = IF Cmp("<=", lo, hi) THEN "init" ELSE "merge"
  /\ UNCHANGED <<param, exited>> /\ Loop

Start ==
  /\ block = "init"
  /\ param' = IF isReverse THEN hi ELSE lo
  /\ block' = "body"
  /\ UNCHANGED exited /\ Loop

(* Mutants: the loop ends once the parameter is past the last value; the   *)
(* test ignores the direction.                                             *)
MutantAtLast == Cmp("<", hi, param)
MutantAtLastForward == Cmp("=", param, hi)

AtLast == Cmp("=", param, IF isReverse THEN lo ELSE hi)

(* The end of the body: the test before the step.                          *)
EndBody ==
  /\ block = "body"
  /\ block' = IF AtLast THEN "merge" ELSE "step"
  /\ UNCHANGED <<param, exited>> /\ Loop

(* The body leaves the loop.                                               *)
LeaveBody ==
  /\ block = "body"
  /\ block' = "merge"
  /\ exited' = TRUE
  /\ UNCHANGED param /\ Loop

Step ==
  /\ block = "step"
  /\ param' = Unchecked(paramType.root, IF isReverse THEN "-" ELSE "+", param, 1)
  /\ block' = "body"
  /\ UNCHANGED exited /\ Loop

LoopNext == Guard \/ Start \/ EndBody \/ LeaveBody \/ Step

LoopSpec == LoopInit /\ [][LoopNext]_loopVars

(* The processor goes on, and each execution of the body ends.             *)
FairSpec == LoopSpec /\ WF_loopVars(LoopNext)

-----------------------------------------------------------------------------
(* The parameter stays a word that stands for a value of its subtype: the  *)
(* unchecked step never leaves it, at the ends of the machine range too.   *)
LoopTypeOK ==
  /\ paramType \in Iterable
  /\ lo \in Words(paramType) /\ hi \in Words(paramType)
  /\ block \in {"entry", "init", "body", "step", "merge"}
  /\ exited \in BOOLEAN
  /\ param \in IF block = "body" THEN Words(paramType) ELSE Word(Width(paramType.root))

(* The body runs once for each value of the range, in order or in reverse, *)
(* whatever the bounds: none is left out and none comes twice.             *)
Value(x) == Read(paramType.root, x)

Remaining ==
  IF block \in {"entry", "init"} THEN Value(lo)..Value(hi)
  ELSE IF Value(lo) > Value(hi) THEN {}
  ELSE IF isReverse THEN Value(lo)..(Value(param) - 1)
  ELSE (Value(param) + 1)..Value(hi)

Phase ==
  CASE block \in {"entry", "init", "step"} -> "between"
    [] block = "body" -> "body"
    [] block = "merge" -> IF exited THEN "left" ELSE "done"

Ada == INSTANCE AdaFor WITH
         low <- Value(lo), high <- Value(hi), reversed <- isReverse,
         param <- Value(param), remaining <- Remaining, phase <- Phase

ImplementsAdaFor == Ada!Spec

(* The loop ends: "the final value is tested before stepping, so the step  *)
(* cannot overflow" and go round the machine range for ever.               *)
Terminates == <>(block = "merge")
=============================================================================
