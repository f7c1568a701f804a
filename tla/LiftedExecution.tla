--------------------------- MODULE LiftedExecution ----------------------------
(***************************************************************************)
(* A run of a converted module.  Each activation of a subprogram holds its *)
(* own objects, and for each lifted parameter the activation whose object  *)
(* the argument designates.  `display` is what Ada's scope rules say: for  *)
(* each enclosing subprogram, the activation an up-level name refers to.   *)
(* Passing the captured values must reach the same objects.                *)
(***************************************************************************)
EXTENDS ClosureConversion

CONSTANT MaxDepth  \* bound on the activations alive at once

VARIABLE stack  \* activations: [subp, env, display]

runVars == <<vars, stack>>

(* The activation a reference designates for code running in activation d. *)
Denotes(d, r) ==
  LET a == stack[d]
      lifted == captures[a.subp]
  IN  IF prog.owner[r.value] = a.subp
        THEN d
        ELSE a.env[CHOOSE k \in 1..Len(lifted) : lifted[k].value = r.value]

RunInit == Init /\ stack = <<>>

Convert == Next /\ UNCHANGED stack

(* The environment calls a library-level subprogram. *)
Start ==
  /\ pc = "done"
  /\ stack = <<>>
  /\ \E s \in Subps :
       /\ ~IsNested(s)
       /\ stack' = <<[subp |-> s, env |-> <<>>, display |-> [t \in {s} |-> 1]]>>
  /\ UNCHANGED vars

(* A call: the callee's parameters take what the arguments designate.      *)
Execute ==
  /\ pc = "done"
  /\ Len(stack) \in 1..(MaxDepth - 1)
  /\ \E c \in prog.calls :
       LET d == Len(stack)
           callee == prog.callee[c]
       IN  /\ prog.caller[c] = stack[d].subp
           /\ stack' =
                Append(stack,
                  [subp |-> callee,
                   env |-> [k \in 1..Len(args[c]) |-> Denotes(d, args[c][k])],
                   display |-> [t \in prog.enclosing[callee] |->
                                  IF t = callee THEN d + 1
                                  ELSE stack[d].display[t]]])
  /\ UNCHANGED vars

Leave ==
  /\ stack # <<>>
  /\ stack' = SubSeq(stack, 1, Len(stack) - 1)
  /\ UNCHANGED vars

RunNext == Convert \/ Start \/ Execute \/ Leave

RunSpec == RunInit /\ [][RunNext]_runVars

-----------------------------------------------------------------------------
(* In every activation, however many of the same subprogram are alive,     *)
(* every reference of the body reaches the object Ada's scope rules name.  *)
UpLevelCorrect ==
  \A d \in 1..Len(stack) :
    \A r \in refs[stack[d].subp] :
      Denotes(d, r) = stack[d].display[prog.owner[r.value]]
=============================================================================
