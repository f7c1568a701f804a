----------------------------- MODULE CallLowering ----------------------------
(***************************************************************************)
(* One execution of a call as the compiler emits it.  MLIRGen lays out the *)
(* evaluation of the actuals and the ada.call (mlirGenCallExpr);           *)
(* LowerAdaCalls turns subprogram and call into the value ABI: a vector of *)
(* inputs in formal order followed by the captures, local objects in the   *)
(* callee, a vector of results (the function result, then one value per    *)
(* writable formal in formal order), and copy-back stores in association   *)
(* order.  All the lists are dense: a position in one is found by counting *)
(* the formals that take part, and every index the passes compute is       *)
(* computed here the same way.                                             *)
(***************************************************************************)
EXTENDS CallProfile, DenseLists

VARIABLES
  call,      \* the call being executed
  pc,        \* where its lowered code is
  pos,       \* the association being evaluated or copied back
  store,     \* the value of every object of the caller
  args,      \* per formal: the value, or the object designated
  snapshots, \* per formal: the value saved for a writable formal's input
  ranges,    \* per formal: the range descriptor of a dynamic actual subtype
  inputs,    \* operands of the func.call
  locals,    \* the callee's object of each writable formal
  results,   \* results of the func.call
  returned   \* history: the store when the func.call returned

vars == <<call, pc, pos, store, args, snapshots, ranges, inputs, locals,
          results, returned>>

(* "raised": an exception before or in the body; "partial": a copy-back    *)
(* check failed.                                                           *)
Pcs == {"evaluate", "call", "body", "copyback", "done", "raised", "partial"}

-----------------------------------------------------------------------------
(* mapSignature: where a formal stands among the inputs and the results,   *)
(* and where the captures start.                                           *)
InputIndex(c, i) == Rank(NeedsInput(c), i)
FirstCapture(c) == Cardinality(NeedsInput(c)) + 1
(* Mutant: the function result is not counted.                             *)
MutantResultIndex(c, i) == Rank(Writable(c), i)
ResultIndex(c, i) == (IF c.isFunction THEN 1 ELSE 0) + Rank(Writable(c), i)

(* The ada.call: initial_values with ada.initial_formals, copyback_ranges  *)
(* with ada.range_formals, and ada.actual_order, left out when the         *)
(* associations are sorted; copy-back then follows formal order.           *)
InitialFormals == Writable(call) \cap NeedsInput(call)
InitialValues == Dense(InitialFormals, snapshots)
RangeFormals == {i \in Formals(call) : ranges[i] # None}
CopybackRanges == Dense(RangeFormals, ranges)
Sorted(order, n) == \A p, q \in 1..n : p < q => order[p] <= order[q]
(* Mutant: the order of the associations is ignored.                       *)
MutantCopyBackOrder == [p \in 1..call.n |-> p]
CopyBackOrder ==
  IF Sorted(call.order, call.n) THEN [p \in 1..call.n |-> p] ELSE call.order

-----------------------------------------------------------------------------
Init ==
  /\ call \in Calls
  /\ pc = "evaluate"
  /\ pos = 1
  /\ store \in [Object -> Base]
  /\ args = NoFormals(call)
  /\ snapshots = NoFormals(call)
  /\ ranges = NoFormals(call)
  /\ inputs = <<>>
  /\ locals = NoFormals(call)
  /\ results = <<>>
  /\ returned = store

Stop(where) ==
  /\ pc' = where
  /\ UNCHANGED <<call, pos, args, snapshots, ranges, inputs, locals, results,
                 returned>>

(* Evaluation of an `in` actual: its value, converted to the subtype of    *)
(* the formal.                                                             *)
EvaluateIn(i, v) ==
  /\ i \notin Writable(call)
  /\ IF v \in call.subtype[i]
       THEN /\ args' = [args EXCEPT ![i] = v]
            /\ pos' = pos + 1
            /\ UNCHANGED <<call, pc, snapshots, ranges, inputs, locals,
                           results, returned>>
       ELSE Stop("raised")

(* Evaluation of a writable actual: the object once and for all, the       *)
(* snapshot its formal needs (checked for `in out`, the bare base value    *)
(* for an `out` with a Default_Value), the descriptor of a dynamic subtype.*)
EvaluateWritable(i, o) ==
  /\ i \in Writable(call)
  /\ IF call.mode[i] = "in_out" /\ store'[o] \notin call.subtype[i]
       THEN Stop("raised")
       ELSE /\ args' = [args EXCEPT ![i] = o]
            /\ snapshots' = IF i \in NeedsInput(call)
                              THEN [snapshots EXCEPT ![i] = store'[o]]
                              ELSE snapshots
            /\ ranges' = IF o \in Dynamic
                           THEN [ranges EXCEPT ![i] = Subtype[o]]
                           ELSE ranges
            /\ pos' = pos + 1
            /\ UNCHANGED <<call, pc, inputs, locals, results, returned>>

Evaluate ==
  /\ pc = "evaluate"
  /\ pos \in 1..call.n
  /\ store' \in SideEffect(store)
  /\ \/ \E v \in Base : EvaluateIn(call.order[pos], v)
     \/ \E o \in Object : EvaluateWritable(call.order[pos], o)
     \/ Stop("raised")

(* lowerCaller: gather the operands of the func.call.                      *)
(* Mutant: a writable actual is passed by reference.                       *)
MutantCallOperand(i) == args[i]
CallOperand(i) ==
  IF call.mode[i] = "in"
    THEN args[i] ELSE InitialValues[Rank(InitialFormals, i)]

Call ==
  /\ pc = "evaluate"
  /\ pos = call.n + 1
  /\ inputs' = Dense(NeedsInput(call),
                     [i \in NeedsInput(call) |-> CallOperand(i)])
               \o call.captures
  /\ pc' = "call"
  /\ UNCHANGED <<call, pos, store, args, snapshots, ranges, locals, results,
                 returned>>

(* lowerCallee: an object per writable formal, initialized from its input. *)
Enter ==
  /\ pc = "call"
  /\ \E g \in [Uninitialized(call) -> Base] :
       locals' = [i \in Formals(call) |->
                    IF i \notin Writable(call) THEN None
                    ELSE IF i \in NeedsInput(call)
                           THEN inputs[InputIndex(call, i)] ELSE g[i]]
  /\ pc' = "body"
  /\ UNCHANGED <<call, pos, store, args, snapshots, ranges, inputs, results,
                 returned>>

AssignFormal ==
  /\ pc = "body"
  /\ \E i \in Writable(call) : \E v \in call.subtype[i] :
       locals' = [locals EXCEPT ![i] = v]
  /\ UNCHANGED <<call, pc, pos, store, args, snapshots, ranges, inputs,
                 results, returned>>

(* The body reaches an object of an enclosing subprogram through the       *)
(* capture argument that carries its reference.                            *)
AssignUpLevel ==
  /\ pc = "body"
  /\ \E x \in FirstCapture(call)..Len(inputs) : \E v \in Subtype[inputs[x]] :
       store' = [store EXCEPT ![inputs[x]] = v]
  /\ UNCHANGED <<call, pc, pos, args, snapshots, ranges, inputs, locals,
                 results, returned>>

BodyRaises ==
  /\ pc = "body"
  /\ store' = store
  /\ Stop("raised")

(* Each return reads the objects, after the operands it already had.       *)
FunctionResults == IF call.isFunction THEN {<<v>> : v \in Base} ELSE {<<>>}

Return ==
  /\ pc = "body"
  /\ \E r \in FunctionResults :
       results' = r \o Dense(Writable(call), locals)
  /\ pc' = "copyback"
  /\ pos' = 1
  /\ returned' = store
  /\ UNCHANGED <<call, store, args, snapshots, ranges, inputs, locals>>

(* Copy-back of one association, in ada.actual_order: convert to the       *)
(* subtype of the actual (its descriptor when it is dynamic), then write.  *)
Output(i) == results[ResultIndex(call, i)]

(* Mutant: the check is against the subtype of the formal.                 *)
MutantConstraint(i) == call.subtype[i]
Constraint(i) ==
  IF i \in RangeFormals
    THEN CopybackRanges[Rank(RangeFormals, i)] ELSE Subtype[args[i]]

Pass(i) ==
  /\ i \notin Writable(call)
  /\ pos' = pos + 1
  /\ UNCHANGED <<call, pc, store, args, snapshots, ranges, inputs, locals,
                 results, returned>>

CopyOut(i) ==
  /\ i \in Writable(call)
  /\ IF Output(i) \in Constraint(i)
       THEN /\ store' = [store EXCEPT ![args[i]] = Output(i)]
            /\ pos' = pos + 1
            /\ UNCHANGED <<call, pc, args, snapshots, ranges, inputs, locals,
                           results, returned>>
       ELSE store' = store /\ Stop("partial")

CopyBack ==
  /\ pc = "copyback"
  /\ pos \in 1..call.n
  /\ Pass(CopyBackOrder[pos]) \/ CopyOut(CopyBackOrder[pos])

Finish ==
  /\ pc = "copyback"
  /\ pos = call.n + 1
  /\ store' = store
  /\ Stop("done")

Next ==
  \/ Evaluate \/ Call \/ Enter
  \/ AssignFormal \/ AssignUpLevel \/ BodyRaises \/ Return
  \/ CopyBack \/ Finish

Spec == Init /\ [][Next]_vars

-----------------------------------------------------------------------------
(* Properties *)

(* Every variable has the type its declaration says. *)
TypeOK ==
  /\ call \in Calls
  /\ pc \in Pcs
  /\ pos \in 1..(call.n + 1)
  /\ store \in [Object -> Base]
  /\ args \in [Formals(call) -> Base \cup Object \cup {None}]
  /\ snapshots \in [Formals(call) -> Base \cup {None}]
  /\ ranges \in [Formals(call) -> (SUBSET Base) \cup {None}]
  /\ inputs \in Seq(Base \cup Object)
  /\ locals \in [Formals(call) -> Base \cup {None}]
  /\ results \in Seq(Base)
  /\ returned \in [Object -> Base]

(* The copy-back that has happened so far, and nothing else, separates the *)
(* store from the one the callee left: an object no association before pos *)
(* designates is as the callee left it, any other holds the value of the   *)
(* last association that designates it.  So an aliased actual ends up with *)
(* the value of the last association, and a failed check leaves the        *)
(* assignments before it done and those after it undone.                   *)
Copied(p, o) ==
  call.order[p] \in Writable(call) /\ args[call.order[p]] = o

CopyBackPrefix ==
  pc \in {"copyback", "done", "partial"} =>
    \A o \in Object :
      \/ /\ store[o] = returned[o]
         /\ \A p \in 1..(pos - 1) : ~Copied(p, o)
      \/ \E p \in 1..(pos - 1) :
           /\ Copied(p, o)
           /\ store[o] = Output(call.order[p])
           /\ \A q \in (p + 1)..(pos - 1) : ~Copied(q, o)

(* After a call that completes every writable actual is valid, whatever    *)
(* the callee left in its formals.                                         *)
CompletedActualsValid ==
  pc = "done" => \A i \in Writable(call) : store[args[i]] \in Subtype[args[i]]

(* What makes the properties above inductive.  The slots of the formals    *)
(* already evaluated are filled; the operands of the call are the list of  *)
(* their values and then the captures; while the body runs every writable  *)
(* formal has an object; the results are the function result and the list  *)
(* of those objects' values; a range descriptor is that of the subtype of  *)
(* the object the actual designates; and every assignment back so far left *)
(* a valid actual.                                                         *)
Filled(i) ==
  IF i \in Writable(call)
    THEN args[i] \in Object /\ (i \in NeedsInput(call) => snapshots[i] \in Base)
    ELSE args[i] \in Base

Called == {"call", "body", "copyback", "done", "partial"}
Returned == {"copyback", "done", "partial"}

SlotsFilled ==
  /\ pc = "evaluate" =>
       /\ \A p \in 1..(pos - 1) : Filled(call.order[p])
       /\ \A p \in pos..call.n : ranges[call.order[p]] = None
  /\ pc \in Called => \A i \in Formals(call) : Filled(i)

RangesMatch ==
  \A i \in Formals(call) :
    ranges[i] # None =>
      i \in Writable(call) /\ args[i] \in Object /\ ranges[i] = Subtype[args[i]]

InputsMatch ==
  pc \in Called =>
    inputs = Dense(NeedsInput(call),
                   [i \in NeedsInput(call) |-> CallOperand(i)])
             \o call.captures

LocalsFilled ==
  pc \in {"body"} \cup Returned =>
    \A i \in Writable(call) : locals[i] \in Base

ResultsMatch ==
  pc \in Returned =>
    \E r \in FunctionResults : results = r \o Dense(Writable(call), locals)

AssignedActualsValid ==
  /\ pc = "done" => pos = call.n + 1
  /\ pc \in Returned =>
       \A p \in 1..(pos - 1) :
         LET i == call.order[p]
         IN  i \in Writable(call) => store[args[i]] \in Subtype[args[i]]

DataInv ==
  /\ TypeOK /\ SlotsFilled /\ RangesMatch /\ InputsMatch /\ LocalsFilled
  /\ ResultsMatch

CallInv == DataInv /\ AssignedActualsValid /\ CopyBackPrefix

(* The lowered call does what ada.call promises.  The formals live in args *)
(* and snapshots while the actuals are evaluated, in the inputs and local  *)
(* objects while the body runs and in the results during copy-back.        *)
PhaseBar ==
  CASE pc = "call" -> "evaluate" [] pc = "partial" -> "raised" [] OTHER -> pc

TargetBar ==
  [i \in Formals(call) |-> IF i \in Writable(call) THEN args[i] ELSE None]

FormalBar ==
  [i \in Formals(call) |->
     CASE pc \in {"evaluate", "call"} ->
            IF i \in Writable(call) THEN snapshots[i] ELSE args[i]
       [] pc \in {"body", "copyback"} ->
            IF i \notin Writable(call) THEN inputs[InputIndex(call, i)]
            ELSE IF pc = "body" THEN locals[i] ELSE Output(i)
       [] OTHER -> None]

ResultBar ==
  IF pc \in {"copyback", "done"} /\ call.isFunction THEN results[1] ELSE None

AbstractCall ==
  INSTANCE AdaCall WITH phase <- PhaseBar, target <- TargetBar,
                        formal <- FormalBar, result <- ResultBar

ImplementsAdaCall == AbstractCall!Spec
=============================================================================
