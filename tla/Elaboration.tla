------------------------------ MODULE Elaboration ------------------------------
(***************************************************************************)
(* A run of the module Declarations emits.  Each activation keeps the      *)
(* value of every operation of its region: an object's is its content, a   *)
(* descriptor's its two bounds.  Operations run in the order of the        *)
(* region; a step runs those that stand before the next item's.  Checks    *)
(* are what the conversions lower to, up-level values reach the activation *)
(* the lifted parameters designate (ClosureConversion, LiftedExecution).   *)
(***************************************************************************)
EXTENDS Declarations

CONSTANT MaxDepth  \* bound on the activations alive at once

VARIABLES
  frames,  \* activations: [subp, item, next, up, regs], the package first
  outcome  \* "running" or "raised"

vars == <<emission, frames, outcome>>

Bottom ==
  [subp |-> Package, item |-> Len(prog[Package].items) + 1, next |-> 1,
   up |-> <<1>>, regs |-> <<>>]

Reg(fr, d, v) == fr[fr[d].up[v.region]].regs[v.id]
Set(fr, d, v, x) == [fr EXCEPT ![fr[d].up[v.region]].regs = (v.id :> x) @@ @]

(* The range a conversion checks: that of the descriptor it carries, or    *)
(* the static one of its type; a root or a renaming has none to check.     *)
Checked(fr, d, op) ==
  LET type == ir.types[op.type]
  IN  IF Len(op.args) = 2 THEN Reg(fr, d, op.args[2])
      ELSE IF type.base # "" /\ type.info # NoBounds
        THEN <<type.info[1][1], type.info[2][1]>>
      ELSE <<0, MaxValue>>

Run(r, d, op) ==
  LET arg(n) == Reg(r.fr, d, op.args[n])
      self == SsaValue(r.fr[d].subp, op.id, "", FALSE)
      yields(fr, x) == [fr |-> Set(fr, d, self, x), ok |-> TRUE]
      next == (arg(1) + 1) % (MaxValue + 1)
      taken == \A n \in DOMAIN op.under :
                 (r.fr[d].regs[op.under[n].test] # 0) = op.under[n].outcome
  IN  IF ~r.ok \/ ~taken THEN r
      ELSE CASE op.kind \in {"constant", "result"} -> yields(r.fr, op.data)
             [] op.kind = "read" -> yields(r.fr, arg(1))
             [] op.kind = "update" -> yields(Set(r.fr, d, op.args[1], next), next)
             [] op.kind = "convert" ->
                  LET range == Checked(r.fr, d, op)
                  IN  [yields(r.fr, arg(1)) EXCEPT
                         !.ok = range[1] <= arg(1) /\ arg(1) <= range[2]]
             [] op.kind = "test" -> yields(r.fr, arg(1))
             [] op.kind = "if" -> yields(r.fr, IF arg(1) # 0 THEN arg(2) ELSE arg(3))
             [] op.kind = "range" -> yields(r.fr, <<arg(1), arg(2)>>)
             [] op.kind = "attr" -> yields(r.fr, arg(1)[op.data])
             [] op.kind = "object" ->
                  yields(r.fr, IF op.args = <<>> THEN Unset ELSE arg(1))
             [] op.kind = "write" -> [fr |-> Set(r.fr, d, op.args[2], arg(1)), ok |-> TRUE]
             [] OTHER -> r

Activation(fr, d, s, args) ==
  [subp |-> s, item |-> 1, next |-> 1,
   up |-> [t \in Enclosing(prog, s) |->
             IF t = s THEN Len(fr) + 1 ELSE fr[d].up[t]],
   regs |-> [id \in {-f : f \in DOMAIN args} |-> args[-id]]]

-----------------------------------------------------------------------------
RunInit == Init /\ frames = <<Bottom>> /\ outcome = "running"

Translate == Next /\ UNCHANGED <<frames, outcome>>

StaticRange(t) ==
  IF ir.types[t].info = NoBounds THEN <<0, MaxValue>>
  ELSE <<ir.types[t].info[1][1], ir.types[t].info[2][1]>>

(* The environment calls a subprogram of the package.                      *)
Start ==
  /\ pc = "emitted" /\ Len(frames) = 1 /\ outcome = "running"
  /\ \E s \in Exported(prog) :
       \E args \in [DOMAIN prog[s].formals -> Value \cup {Unset}] :
         /\ \A f \in DOMAIN args :
              LET formal == prog[s].formals[f]
                  range == StaticRange(formal.mark)
              IN  IF formal.mode = "out" THEN args[f] = Unset
                  ELSE range[1] <= args[f] /\ args[f] <= range[2]
         /\ frames' = Append(frames, Activation(frames, 1, s, args))
  /\ UNCHANGED <<emission, outcome>>

(* The operations of the region that stand before the next item's; if the  *)
(* last one is a call, the callee's activation.                            *)
Execute ==
  /\ Len(frames) \in 2..MaxDepth
  /\ LET d == Len(frames)
         f == frames[d]
         code == ir.code[f.subp]
         ready == {k \in f.next..Len(code) :
                     \A j \in f.next..k : code[j].item <= f.item}
         ops == SubSeq(code, f.next, f.next + Cardinality(ready) - 1)
         r == FoldLeft(LAMBDA q, op : Run(q, d, op), [fr |-> frames, ok |-> TRUE], ops)
         moved == [r.fr EXCEPT ![d].item = @ + 1, ![d].next = @ + Len(ops)]
         last == ops[Len(ops)]
     IN  /\ f.item \in 1..Len(prog[f.subp].items)
         /\ IF ~r.ok
              THEN frames' = <<Bottom>> /\ outcome' = "raised"
              ELSE /\ frames' = IF ops # <<>> /\ last.kind = "call"
                                  THEN Append(moved,
                                         Activation(moved, d, last.data,
                                           [n \in DOMAIN last.args |->
                                              Reg(moved, d, last.args[n])]))
                                  ELSE moved
                   /\ UNCHANGED outcome
  /\ UNCHANGED emission

Return ==
  /\ Len(frames) > 1
  /\ LET f == frames[Len(frames)] IN f.item = Len(prog[f.subp].items) + 1
  /\ frames' = Front(frames)
  /\ UNCHANGED <<emission, outcome>>

RunNext == Translate \/ Start \/ Execute \/ Return

RunSpec == RunInit /\ [][RunNext]_vars

-----------------------------------------------------------------------------
(* The objects and the constrained types an activation has declared.       *)
DeclaredIn(f) == DeclaredBefore(prog, f.subp, f.item)
Objects(f) ==
  {e \in DeclaredIn(f) : IsFormal(prog, e) \/ DeclaringItem(prog, e).kind = "object"}
Ranged(f) ==
  {e \in DeclaredIn(f) : ~IsFormal(prog, e) /\ DeclaringItem(prog, e).bounds # NoBounds
                         /\ DeclaringItem(prog, e).kind \in {"subtype", "object"}}

RangeIn(d, e) ==
  LET t == IF DeclaringItem(prog, e).kind = "object" THEN Anonymous(e) ELSE e
  IN  IF Dynamic(ir, t) THEN Reg(frames, d, ir.ranges[t]) ELSE StaticRange(t)

Activations ==
  [d \in 1..Len(frames) |->
     [subp |-> frames[d].subp, at |-> frames[d].item, up |-> frames[d].up,
      holds |-> IF d = 1 THEN <<>>
                ELSE [e \in Objects(frames[d]) |-> Reg(frames, d, ir.denotes[e])],
      bounds |-> IF d = 1 THEN PackageRanges(prog)
                 ELSE [e \in Ranged(frames[d]) |-> RangeIn(d, e)]]]

Ada == INSTANCE AdaElaboration WITH stack <- Activations

(* Bounds are evaluated once, where the subtype is declared, and every     *)
(* object holds what Ada's elaboration gives it, in every activation.      *)
ImplementsAdaElaboration == Ada!Spec

(* Whatever has a value has one of its nominal subtype.                    *)
SubtypeHeld ==
  \A d \in 2..Len(frames) : \A e \in Objects(frames[d]) :
    LET v == Activations[d].holds[e]
        range == Ada!ObjectRange(Activations, d, e)
    IN  v = Unset \/ (range[1] <= v /\ v <= range[2])
=============================================================================
