------------------------------ MODULE Objects ------------------------------
(***************************************************************************)
(* The operations on Ada objects (include/ada/Ops.td) in three blocks: the *)
(* entry block 1, a block 2 executed when a condition holds, and the block *)
(* 3 where both paths join.  A list of operations carries the block of     *)
(* each.  `Outcome` is what executing the list shows to the outside: the   *)
(* reference against which the rewritings of ObjectOptimization are        *)
(* checked.                                                                *)
(*                                                                         *)
(* x is an object the entry block declares; e1 and e2 are references to    *)
(* elements of an array that outlives the blocks, possibly the same one.   *)
(* All hold values of one subtype, Nominal, of one base type; both are     *)
(* represented by the same machine type.                                   *)
(***************************************************************************)
EXTENDS Naturals, Sequences, FiniteSets, SequencesExt

CONSTANTS MaxMachine,   \* the greatest value of the machine type
          Nominal,      \* the values of the constrained subtype
          Unset,        \* what elements hold at first, a value of the base type
          Junk,         \* what storage never written may hold
          MaxOps,       \* operations beside the declaration of x, and
          MaxSpread     \* as many when some are outside the entry block

Machine == 0 .. MaxMachine

ASSUME ValuesAssumption ==
  /\ {MaxMachine, MaxOps, MaxSpread} \subseteq Nat /\ MaxSpread <= MaxOps
  /\ Nominal \subseteq Machine /\ Cardinality(Nominal) > 1
  /\ Unset \in Machine \ Nominal
  /\ Junk \subseteq Machine /\ Junk # {}

Refs == {"x", "e1", "e2"}

(* The name of an operation is the name of its result.  A literal of the    *)
(* subtype is its own name; lowering gives each operation a second one.     *)
Fresh == MaxMachine + 1
JoinId == Fresh + MaxOps + 1
LoweredId(id) == id + MaxOps + 2
Ids == 0 .. LoweredId(Fresh + MaxOps)
NoValue == LoweredId(Fresh + MaxOps) + 1

(* One operation.  `ref` is the reference it works on, `refs` those a call  *)
(* receives, `val` its operand and `alt` the operand of a join on the path  *)
(* that skips block 2; `type` is the type of its result.                    *)
None == "none"
Operation(op, id, blk) ==
  [op |-> op, id |-> id, blk |-> blk, ref |-> None, refs |-> {},
   val |-> NoValue, alt |-> NoValue, type |-> "nominal"]

(* Operations mlir::isMemoryEffectFree and mlir::isPure accept.  A run-time *)
(* check counts as an effect, declared by checkEffects for operators and    *)
(* left unknown for range and index checks; it is not speculatable either.  *)
MemoryEffectFree(o) == o.op \in {"constant", "requalify", "join"}
Pure(o) == MemoryEffectFree(o)

Operands(o) == {o.val, o.alt} \ {NoValue}
UsesOf(ops, id) == {i \in DOMAIN ops : id \in Operands(ops[i])}
UsersOf(ops, ref) ==
  {i \in DOMAIN ops : ops[i].op # "object" /\ (ops[i].ref = ref \/ ref \in ops[i].refs)}
DefinerOf(ops, v) == {i \in DOMAIN ops : ops[i].id = v}
TypeOf(ops, v) ==
  IF v \in Machine THEN "nominal" ELSE ops[CHOOSE i \in DefinerOf(ops, v) : TRUE].type

---------------------------------------------------------------------------
(* Execution.  An environment fixes what the blocks cannot know: what       *)
(* storage never written holds, whether the elements are one, and the       *)
(* condition: env.junk, env.alias and env.cond.                             *)
Cell(env, ref) == IF ref = "e2" /\ env.alias THEN "e1" ELSE ref
Shared == {"e1", "e2"}

Start(env) ==
  [mem |-> [c \in Refs |-> IF c = "x" THEN env.junk ELSE Unset],
   val |-> [v \in Ids |-> v], done |-> {}, trace |-> <<>>, raised |-> FALSE]

Give(s, o, v) == [s EXCEPT !.val[o.id] = v, !.done = @ \cup {o.id}]

(* A call sees the elements and the objects it receives, and leaves another *)
(* value of the subtype in each.                                            *)
Called(s, env, o) ==
  LET seen == {Cell(env, r) : r \in o.refs \cup Shared} IN
  [s EXCEPT !.trace = Append(@, [c \in seen |-> s.mem[c]]),
            !.mem = [c \in Refs |->
                       IF c \in seen THEN CHOOSE n \in Nominal \ {@[c]} : TRUE ELSE @[c]]]

Execute(env, s, o) ==
  IF s.raised \/ (o.blk = 2 /\ ~env.cond) THEN s
  ELSE CASE o.op \in {"object", "alloca"} ->
              IF o.val = NoValue THEN s ELSE [s EXCEPT !.mem["x"] = s.val[o.val]]
         [] o.op \in {"read", "load"} -> Give(s, o, s.mem[Cell(env, o.ref)])
         [] o.op \in {"write", "store"} ->
              [s EXCEPT !.mem[Cell(env, o.ref)] = s.val[o.val]]
         [] o.op \in {"constant", "requalify"} -> Give(s, o, s.val[o.val])
         [] o.op = "join" -> Give(s, o, s.val[IF env.cond THEN o.val ELSE o.alt])
         [] o.op = "check" ->
              IF s.val[o.val] \in Nominal THEN Give(s, o, s.val[o.val])
                                           ELSE [s EXCEPT !.raised = TRUE]
         [] o.op = "call" -> Called(s, env, o)

After(ops, env) ==  \* the state after each of the operations
  LET s[n \in 0 .. Len(ops)] ==
        IF n = 0 THEN Start(env) ELSE Execute(env, s[n - 1], ops[n])
  IN  s
Executed(ops, env) == After(ops, env)[Len(ops)]

(* What a caller or handler can tell: the calls and what each saw, whether  *)
(* a check failed, and what the elements hold in the end.                   *)
Outcome(ops, env) ==
  LET s == Executed(ops, env) IN
  [trace |-> s.trace, raised |-> s.raised,
   shared |-> [c \in {Cell(env, r) : r \in Shared} |-> s.mem[c]]]
=============================================================================
