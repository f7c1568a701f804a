------------------------------- MODULE AdaCall -------------------------------
(***************************************************************************)
(* What an ada.call promises (Ada RM 6.4.1, by-copy formals): the actuals  *)
(* are evaluated in the order of the associations, each designator once;   *)
(* the body works on formal objects of its own; a body that returns has    *)
(* its writable formals assigned back in the order of the associations,    *)
(* each after a check against the subtype of its actual.  A failed check   *)
(* or an exception stops the call where it is.                             *)
(***************************************************************************)
EXTENDS CallProfile

VARIABLES
  call,      \* the call being executed
  phase,     \* "evaluate", "body", "copyback", "done" or "raised"
  pos,       \* the association being evaluated or copied back
  store,     \* the value of every object of the caller
  target,    \* the object each writable actual designates, once evaluated
  formal,    \* the value of each formal, once it has one
  result     \* the value of a function that has returned

vars == <<call, phase, pos, store, target, formal, result>>

Init ==
  /\ call \in Calls
  /\ phase = "evaluate"
  /\ pos = 1
  /\ store \in [Object -> Base]
  /\ target = NoFormals(call)
  /\ formal = NoFormals(call)
  /\ result = None

Raise ==
  /\ phase' = "raised"
  /\ formal' = NoFormals(call)
  /\ result' = None
  /\ UNCHANGED <<call, pos, target>>

EvaluateIn(i, v) ==
  /\ call.mode[i] = "in"
  /\ IF v \in call.subtype[i]
       THEN /\ formal' = [formal EXCEPT ![i] = v]
            /\ pos' = pos + 1
            /\ UNCHANGED <<call, phase, target, result>>
       ELSE Raise

EvaluateWritable(i, o) ==
  /\ i \in Writable(call)
  /\ IF call.mode[i] = "in_out" /\ store'[o] \notin call.subtype[i]
       THEN Raise
       ELSE /\ target' = [target EXCEPT ![i] = o]
            /\ formal' = IF i \in NeedsInput(call)
                           THEN [formal EXCEPT ![i] = store'[o]]
                           ELSE formal
            /\ pos' = pos + 1
            /\ UNCHANGED <<call, phase, result>>

Evaluate ==
  /\ phase = "evaluate"
  /\ pos \in Formals(call)
  /\ store' \in SideEffect(store)
  /\ \/ \E v \in Base : EvaluateIn(call.order[pos], v)
     \/ \E o \in Object : EvaluateWritable(call.order[pos], o)
     \/ Raise

(* The body starts; formals without an input hold anything. *)
Enter ==
  /\ phase = "evaluate"
  /\ pos = call.n + 1
  /\ \E g \in [Uninitialized(call) -> Base] :
       formal' = [i \in Formals(call) |->
                    IF i \in Uninitialized(call) THEN g[i] ELSE formal[i]]
  /\ phase' = "body"
  /\ UNCHANGED <<call, pos, store, target, result>>

AssignFormal ==
  /\ phase = "body"
  /\ \E i \in Writable(call) : \E v \in call.subtype[i] :
       formal' = [formal EXCEPT ![i] = v]
  /\ UNCHANGED <<call, phase, pos, store, target, result>>

(* An up-level assignment to an object of an enclosing subprogram. *)
AssignUpLevel ==
  /\ phase = "body"
  /\ \E x \in 1..Len(call.captures) : \E v \in Subtype[call.captures[x]] :
       store' = [store EXCEPT ![call.captures[x]] = v]
  /\ UNCHANGED <<call, phase, pos, target, formal, result>>

BodyRaises ==
  /\ phase = "body"
  /\ store' = store
  /\ Raise

Return ==
  /\ phase = "body"
  /\ phase' = "copyback"
  /\ pos' = 1
  /\ IF call.isFunction THEN result' \in Base ELSE result' = None
  /\ UNCHANGED <<call, store, target, formal>>

(* An `in` association has nothing to give back. *)
Pass(i) ==
  /\ i \notin Writable(call)
  /\ pos' = pos + 1
  /\ UNCHANGED <<call, phase, store, target, formal, result>>

Assign(i) ==
  /\ i \in Writable(call)
  /\ IF formal[i] \in Subtype[target[i]]
       THEN /\ store' = [store EXCEPT ![target[i]] = formal[i]]
            /\ pos' = pos + 1
            /\ UNCHANGED <<call, phase, target, formal, result>>
       ELSE store' = store /\ Raise

CopyBack ==
  /\ phase = "copyback"
  /\ pos \in Formals(call)
  /\ Pass(call.order[pos]) \/ Assign(call.order[pos])

Finish ==
  /\ phase = "copyback"
  /\ pos = call.n + 1
  /\ phase' = "done"
  /\ formal' = NoFormals(call)
  /\ UNCHANGED <<call, pos, store, target, result>>

Next ==
  \/ Evaluate \/ Enter
  \/ AssignFormal \/ AssignUpLevel \/ BodyRaises \/ Return
  \/ CopyBack \/ Finish

Spec == Init /\ [][Next]_vars
=============================================================================
