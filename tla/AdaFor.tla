-------------------------------- MODULE AdaFor --------------------------------
(***************************************************************************)
(* Ada's for loop over a discrete range (RM 5.5(9)): the body is executed  *)
(* once for each value of the range, in order or in reverse, unless it     *)
(* leaves the loop.  Numbers, not machine words.                           *)
(***************************************************************************)
EXTENDS Integers

VARIABLES
  low, high, reversed,  \* the range, evaluated once
  remaining,            \* the values the parameter has not taken yet
  param,                \* its value, in an iteration
  phase                 \* "between" iterations, in the "body", "done", "left"

vars == <<low, high, reversed, remaining, param, phase>>

Bounds == UNCHANGED <<low, high, reversed>>

Init ==
  /\ low \in Int /\ high \in Int
  /\ reversed \in BOOLEAN
  /\ remaining = low..high
  /\ param = 0
  /\ phase = "between"

IsNext(v) == \A u \in remaining : IF reversed THEN u <= v ELSE v <= u

Iterate ==
  /\ phase = "between"
  /\ \E v \in remaining : IsNext(v) /\ param' = v /\ remaining' = remaining \ {v}
  /\ phase' = "body"
  /\ Bounds

(* The body reaches its end.                                               *)
Continue ==
  /\ phase = "body"
  /\ phase' = IF remaining = {} THEN "done" ELSE "between"
  /\ UNCHANGED <<remaining, param>> /\ Bounds

(* It leaves the loop by an exit, a goto or a return.                      *)
Exit ==
  /\ phase = "body"
  /\ phase' = "left"
  /\ UNCHANGED <<remaining, param>> /\ Bounds

NoIteration ==
  /\ phase = "between"
  /\ remaining = {}
  /\ phase' = "done"
  /\ UNCHANGED <<remaining, param>> /\ Bounds

Next == Iterate \/ Continue \/ Exit \/ NoIteration

Spec == Init /\ [][Next]_vars
=============================================================================
