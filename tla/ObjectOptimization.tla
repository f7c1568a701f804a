------------------------ MODULE ObjectOptimization ------------------------
(***************************************************************************)
(* What becomes of reads and writes of objects between their emission and  *)
(* the machine: the type MLIRGen reads an object with, the                 *)
(* canonicalisations of mlir/Dialect.cpp (a read takes an earlier write's  *)
(* value; a write overwritten, or that puts back what was read, is         *)
(* erased; requalifications collapse), promotion of the object to values,  *)
(* and the lowering of what is left to storage                             *)
(* (mlir/LowerAdaReferences.cpp).                                          *)
(*                                                                         *)
(* The rewritings apply in any order and any number, which covers -O0, the *)
(* pipelines of -O1 and the reading back of --emit=mlir.                   *)
(***************************************************************************)
EXTENDS Objects

CONSTANT Kinds       \* the declared types x may have: see Default and Promotable

(* The values of the base type, as far as its form tells: all, or a range,  *)
(* or the representations of the literals, where they are known.            *)
BaseValues(k) ==
  CASE k.form = "int" -> k.lo .. k.hi
    [] k.form = "enum" /\ k.values # <<>> -> ToSet(k.values)
    [] OTHER -> Machine

ASSUME KindsAssumption ==
  \A k \in Kinds :
    /\ k.form \in {"int", "dynamic", "enum", "float", "missing", "array"}
    /\ k.form = "int" => {k.lo, k.hi} \subseteq Machine
    /\ k.form = "enum" => k.values \in Seq(Machine)
    /\ Nominal \cup {Unset} \subseteq BaseValues(k)

Unknown == [form |-> "unknown"]

VARIABLES ops,       \* the operations, in order, with their blocks
          orig,      \* those that were emitted
          blk,       \* the block operations are emitted in
          kind,      \* the type of x, once a pass has looked it up
          phase      \* "emit", "optimise", "lowered" or "failed"

vars == <<ops, orig, blk, kind, phase>>

NewId == Fresh + Len(ops)

(* The literal the n-th operation uses: they alternate, to bound the lists. *)
Literal(n) == SetToSeq(Nominal)[1 + (n % Cardinality(Nominal))]

---------------------------------------------------------------------------
(* Emission.                                                               *)

Declare(init) ==
  [Operation("object", Fresh, 1) EXCEPT !.ref = "x", !.val = init]

Init ==
  /\ \E init \in {NoValue, Literal(0)} : ops = <<Declare(init)>>
  /\ orig = ops /\ blk = 1 /\ kind = Unknown /\ phase = "emit"

(* The values an operation emitted here may use: those of its own block and *)
(* of the entry block.                                                      *)
Visible(type) ==
  {ops[i].id : i \in {j \in DOMAIN ops : /\ ops[j].op \in {"read", "check"}
                                         /\ ops[j].type = type
                                         /\ ops[j].blk \in {1, blk}}}

Emit(o) ==
  /\ phase = "emit" /\ Len(ops) <= IF blk = 1 THEN MaxOps ELSE MaxSpread
  /\ ops' = Append(ops, o) /\ orig' = ops'
  /\ UNCHANGED <<blk, kind, phase>>

(* MLIRGen's readObject: the nominal type when the object has an            *)
(* initialiser, or when this block already writes it or hands it to a call. *)
ReadType(ref) ==
  IF \/ \E i \in DOMAIN ops : ops[i].op = "object" /\ ops[i].ref = ref /\ ops[i].val # NoValue
     \/ \E i \in UsersOf(ops, ref) : ops[i].blk = blk /\ ops[i].op \in {"write", "call"}
  THEN "nominal" ELSE "base"

EmitRead(ref) ==
  Emit([Operation("read", NewId, blk) EXCEPT !.ref = ref, !.type = ReadType(ref)])

EmitWrite(ref, v) ==
  Emit([Operation("write", NewId, blk) EXCEPT !.ref = ref, !.val = v])

EmitCheck(v) == Emit([Operation("check", NewId, blk) EXCEPT !.val = v])

(* A call; refs are its writable actuals.                                   *)
EmitCall(refs) == Emit([Operation("call", NewId, blk) EXCEPT !.refs = refs])

NextBlock ==
  /\ phase = "emit" /\ blk < 3
  /\ blk' = blk + 1
  /\ UNCHANGED <<ops, orig, kind, phase>>

Finish ==
  /\ phase = "emit" /\ blk = 3
  /\ phase' = "optimise"
  /\ UNCHANGED <<ops, orig, blk, kind>>

---------------------------------------------------------------------------
(* Helpers of the rewritings.                                              *)

(* `requalify`: no operation when the type is the one asked for already.    *)
(* Of the requalifications in ids, those that change nothing give way to    *)
(* their operand.                                                           *)
Settle(acc, old, ids) ==
  LET o == [old EXCEPT !.val = acc.for[@], !.alt = acc.for[@]] IN
  IF o.op = "requalify" /\ o.id \in ids /\ TypeOf(acc.list, o.val) = o.type
  THEN [acc EXCEPT !.for[o.id] = o.val]
  ELSE [acc EXCEPT !.list = Append(@, o)]

Settled(list, ids) ==
  LET acc[n \in 0 .. Len(list)] ==
        IF n = 0 THEN [list |-> <<>>, for |-> [v \in Ids \cup {NoValue} |-> v]]
        ELSE Settle(acc[n - 1], list[n], ids)
  IN  acc

Requalified(list, ids) == Settled(list, ids)[Len(list)].list

Requalify(o, v, type) ==
  [Operation("requalify", o.id, o.blk) EXCEPT !.val = v, !.type = type]

SameBlock(i, j) == ops[i].blk = ops[j].blk
Between(i, j) == {ops[k] : k \in (i + 1) .. (j - 1)}

Rewrite(list) ==
  /\ phase = "optimise"
  /\ ops' = list
  /\ UNCHANGED <<orig, blk, phase>>

---------------------------------------------------------------------------
(* Canonicalisation.                                                       *)

(* ForwardObjectWrite: walking back from the read, the first write decides; *)
(* anything else with an effect ends the search.                            *)
ForwardedFrom(i) ==
  {j \in 1 .. (i - 1) : /\ ops[j].op = "write" /\ SameBlock(i, j)
                        /\ ops[j].ref = ops[i].ref
                        /\ \A o \in Between(j, i) : MemoryEffectFree(o)}

ForwardObjectWrite(i) ==
  /\ ops[i].op = "read"
  /\ \E j \in ForwardedFrom(i) :
       Rewrite(Requalified([ops EXCEPT ![i] = Requalify(@, ops[j].val, @.type)],
                           {ops[i].id}))
  /\ UNCHANGED kind

(* Mutant: a check between the two writes does not matter.                  *)
MutantOverwritten(i) ==
  \E j \in (i + 1) .. Len(ops) : /\ ops[j].op = "write" /\ SameBlock(i, j)
                                 /\ ops[j].ref = ops[i].ref
                                 /\ \A o \in Between(i, j) : Pure(o) \/ o.op = "check"

(* SimplifyObjectWrite, first half: a later write in the block, with        *)
(* nothing between that has an effect or may raise.                         *)
Overwritten(i) ==
  \E j \in (i + 1) .. Len(ops) : /\ ops[j].op = "write" /\ SameBlock(i, j)
                                 /\ ops[j].ref = ops[i].ref
                                 /\ \A o \in Between(i, j) : Pure(o)

(* Second half: the value written was read from the same reference in the   *)
(* block, with no effect between.                                           *)
Restores(i) ==
  \E j \in DefinerOf(ops, ops[i].val) :
    /\ ops[j].op = "read" /\ ops[j].ref = ops[i].ref /\ SameBlock(i, j)
    /\ \A o \in Between(j, i) : MemoryEffectFree(o)

SimplifyObjectWrite(i) ==
  /\ ops[i].op = "write"
  /\ Overwritten(i) \/ Restores(i)
  /\ Rewrite(RemoveAt(ops, i))
  /\ UNCHANGED kind

(* RequalifyOp::fold.                                                       *)
FoldRequalify(i) ==
  /\ ops[i].op = "requalify" /\ TypeOf(ops, ops[i].val) = ops[i].type
  /\ Rewrite(Requalified(ops, {ops[i].id}))
  /\ UNCHANGED kind

CollapseRequalifyChain(i) ==
  /\ ops[i].op = "requalify"
  /\ \E j \in DefinerOf(ops, ops[i].val) :
       /\ ops[j].op = "requalify"
       /\ Rewrite([ops EXCEPT ![i].val = ops[j].val])
  /\ UNCHANGED kind

(* The canonicaliser drops an unused operation whose only effects are       *)
(* reading and allocating; a check is none of these.                        *)
TriviallyDead(i) ==
  /\ UsesOf(ops, ops[i].id) = {}
  /\ \/ MemoryEffectFree(ops[i]) \/ ops[i].op = "read"
     \/ ops[i].op = "object" /\ UsersOf(ops, "x") = {}

EraseDead(i) == TriviallyDead(i) /\ Rewrite(RemoveAt(ops, i)) /\ UNCHANGED kind

---------------------------------------------------------------------------
(* Promotion.                                                              *)

(* The type of x is one of Kinds; which, is settled when a pass looks.      *)
KindChoice == IF kind = Unknown THEN Kinds ELSE {kind}

(* ObjectOp::getPromotableSlots, and canUsesBeRemoved of each user: an      *)
(* entry block, a scalar, a base type that resolves, reads and writes only. *)
Promotable(k) ==
  /\ k.entry /\ k.form \notin {"missing", "array"}
  /\ \A i \in UsersOf(ops, "x") : ops[i].op \in {"read", "write"}

(* Mutant: whatever the type, zero.                                         *)
MutantDefault(k) == 0

(* createDefaultObjectValue: zero unless the base type is known not to have *)
(* it, then the lower bound or the first literal.                           *)
Default(k) ==
  CASE k.form = "int" /\ 0 \notin k.lo .. k.hi -> k.lo
    [] k.form = "enum" /\ k.values # <<>> /\ ~Contains(k.values, 0) -> Head(k.values)
    [] OTHER -> 0

(* The value of x where operation i stands, by the name of the operation    *)
(* that defines it once promoted: the last write of the block, or what      *)
(* enters it.  The declaration's name is the initial or the default value.  *)
LastWrite(i, b) ==
  {j \in 1 .. (i - 1) : /\ ops[j].op = "write" /\ ops[j].ref = "x" /\ ops[j].blk = b
                        /\ \A l \in (j + 1) .. (i - 1) :
                             ~(ops[l].op = "write" /\ ops[l].ref = "x" /\ ops[l].blk = b)}

WriteIn(b) == \E j \in DOMAIN ops : ops[j].op = "write" /\ ops[j].ref = "x" /\ ops[j].blk = b

LeavingEntry ==
  LET w == LastWrite(Len(ops) + 1, 1) IN
  IF w = {} THEN Fresh ELSE ops[CHOOSE j \in w : TRUE].id
LeavingBranch == ops[CHOOSE j \in LastWrite(Len(ops) + 1, 2) : TRUE].id

Entering(b) ==
  CASE b = 1 -> Fresh
    [] b = 2 -> LeavingEntry
    [] b = 3 -> IF WriteIn(2) THEN JoinId ELSE LeavingEntry

ReachingDefinition(i) ==
  LET w == LastWrite(i, ops[i].blk) IN
  IF w = {} THEN Entering(ops[i].blk) ELSE ops[CHOOSE j \in w : TRUE].id

(* Mutant: the default value is created in the block executed on a condition. *)
MutantPromotedOp(i, k) ==
  LET o == ops[i] IN
  CASE o.op = "object" ->
         [Operation("constant", o.id, 2) EXCEPT !.val = Default(k), !.type = "base"]
    [] o.op = "write" /\ o.ref = "x" -> Requalify(o, o.val, "base")
    [] o.op = "read" /\ o.ref = "x" -> Requalify(o, ReachingDefinition(i), o.type)
    [] OTHER -> o

(* getDefaultValue, getStored and removeBlockingUses: everything is         *)
(* requalified to the base type, and reads back to their own.               *)
PromotedOp(i, k) ==
  LET o == ops[i] IN
  CASE o.op = "object" ->
         IF o.val # NoValue THEN Requalify(o, o.val, "base")
         ELSE [Operation("constant", o.id, 1) EXCEPT !.val = Default(k), !.type = "base"]
    [] o.op = "write" /\ o.ref = "x" -> Requalify(o, o.val, "base")
    [] o.op = "read" /\ o.ref = "x" -> Requalify(o, ReachingDefinition(i), o.type)
    [] OTHER -> o

Join ==
  [Operation("join", JoinId, 3) EXCEPT
     !.val = LeavingBranch, !.alt = LeavingEntry, !.type = "base"]

StartOfJoin ==
  CHOOSE n \in 1 .. Len(ops) + 1 : \A i \in DOMAIN ops : ops[i].blk < 3 <=> i < n

Promoted(k) ==
  LET each == [i \in DOMAIN ops |-> PromotedOp(i, k)]
  IN Requalified(IF WriteIn(2) THEN InsertAt(each, StartOfJoin, Join) ELSE each,
                 {ops[i].id : i \in {j \in DOMAIN ops : ops[j].op \in {"object", "read", "write"}}})

Promote ==
  /\ \E i \in DOMAIN ops : ops[i].op = "object"
  /\ \E k \in KindChoice : /\ Promotable(k)
                           /\ kind' = k
                           /\ Rewrite(Promoted(k))

---------------------------------------------------------------------------
(* Lowering to storage of the base type.                                   *)

(* Mutant: a value is stored with the type it is written with.              *)
MutantLoweredOp(o) ==
  LET helper == [o EXCEPT !.id = LoweredId(@)] IN
  CASE o.op = "object" -> <<[Operation("alloca", o.id, o.blk) EXCEPT !.ref = "x", !.val = o.val]>>
    [] o.op = "read" ->
         <<[Operation("load", helper.id, o.blk) EXCEPT !.ref = o.ref, !.type = "base"],
           Requalify(o, helper.id, o.type)>>
    [] o.op = "write" ->
         <<[Operation("store", o.id, o.blk) EXCEPT !.ref = o.ref, !.val = o.val]>>
    [] OTHER -> <<o>>

LoweredOp(o) ==
  LET helper == [o EXCEPT !.id = LoweredId(@)] IN
  CASE o.op = "object" ->
         <<[Operation("alloca", o.id, o.blk) EXCEPT !.ref = "x", !.type = "base"]>> \o
         (IF o.val = NoValue THEN <<>>
          ELSE <<Requalify(helper, o.val, "base"),
                 [Operation("store", o.id, o.blk) EXCEPT !.ref = "x", !.val = helper.id]>>)
    [] o.op = "read" ->
         <<[Operation("load", helper.id, o.blk) EXCEPT !.ref = o.ref, !.type = "base"],
           Requalify(o, helper.id, o.type)>>
    [] o.op = "write" ->
         <<Requalify(helper, o.val, "base"),
           [Operation("store", o.id, o.blk) EXCEPT !.ref = o.ref, !.val = helper.id]>>
    [] OTHER -> <<o>>

Lowered ==
  Requalified(FlattenSeq([i \in DOMAIN ops |-> LoweredOp(ops[i])]),
              UNION {{ops[i].id, LoweredId(ops[i].id)} :
                       i \in {j \in DOMAIN ops : ops[j].op \in {"object", "read", "write"}}})

(* The pass fails on an object whose base type does not resolve.            *)
LowerReferences ==
  /\ phase = "optimise"
  /\ \E k \in KindChoice :
       IF k.form = "missing" /\ \E i \in DOMAIN ops : ops[i].op = "object"
       THEN phase' = "failed" /\ ops' = ops
       ELSE phase' = "lowered" /\ ops' = Lowered
  /\ UNCHANGED <<orig, blk, kind>>

---------------------------------------------------------------------------
Emission ==
  \/ \E ref \in Refs \ {"e2"} : EmitRead(ref)      \* e1 and e2 are alike
  \/ \E ref \in Refs, v \in {Literal(Len(ops))} \cup Visible("nominal") : EmitWrite(ref, v)
  \/ \E v \in Visible("base") : EmitCheck(v)
  \/ \E refs \in {{}, {"x"}} : EmitCall(refs)
  \/ NextBlock
  \/ Finish

Optimisation ==
  \/ \E i \in DOMAIN ops : ForwardObjectWrite(i)
  \/ \E i \in DOMAIN ops : SimplifyObjectWrite(i)
  \/ \E i \in DOMAIN ops : FoldRequalify(i)
  \/ \E i \in DOMAIN ops : CollapseRequalifyChain(i)
  \/ \E i \in DOMAIN ops : EraseDead(i)
  \/ Promote
  \/ LowerReferences

Next == Emission \/ Optimisation
Spec == Init /\ [][Next]_vars

---------------------------------------------------------------------------
Kinded == {"constant", "requalify", "join", "check", "read", "load"}

(* Every list is made of operations with names and operands in range.      *)
TypeOK ==
  /\ phase \in {"emit", "optimise", "lowered", "failed"}
  /\ blk \in 1 .. 3 /\ kind \in Kinds \cup {Unknown}
  /\ \A i \in DOMAIN ops :
       /\ ops[i].id \in Ids /\ Operands(ops[i]) \subseteq Ids
       /\ ops[i].type \in {"nominal", "base"} /\ ops[i].blk \in 1 .. 3
       /\ i > 1 => ops[i - 1].blk <= ops[i].blk

(* The verifiers accept every list: an operand is defined before its use,  *)
(* in the block or the entry block (a join takes block 2's too); writes    *)
(* take the nominal type, storage and what passes block boundaries the     *)
(* base type; lowering leaves no object, read or write.                    *)
DefinedFor(v, i, blocks) ==
  \/ v \in Machine
  \/ \E j \in DefinerOf(ops, v) : j < i /\ ops[j].blk \in blocks /\ ops[j].op \in Kinded

IRValid ==
  \A i \in DOMAIN ops :
    LET o == ops[i] IN
    /\ o.val # NoValue => DefinedFor(o.val, i, IF o.op = "join" THEN {1, 2} ELSE {1, o.blk})
    /\ o.op = "join" => DefinedFor(o.alt, i, {1})
    /\ o.op = "join" => \A v \in Operands(o) : TypeOf(ops, v) = "base"
    /\ o.op = "write" => TypeOf(ops, o.val) = "nominal"
    /\ o.op = "store" => TypeOf(ops, o.val) = "base"
    /\ phase = "lowered" => o.op \notin {"object", "read", "write"}

(* Environments that differ only in what the blocks do not depend on show  *)
(* the same; one of each is enough.                                        *)
Telling ==
  [junk : IF orig[1].val = NoValue THEN Junk ELSE {CHOOSE n \in Junk : TRUE},
   alias : IF \E i \in DOMAIN orig : orig[i].ref = "e2" THEN BOOLEAN ELSE {FALSE},
   cond : IF \E i \in DOMAIN orig : orig[i].blk = 2 THEN BOOLEAN ELSE {FALSE}]

(* Whatever the rewritings made of the blocks, in any environment they     *)
(* show what the blocks as emitted show: the same calls seeing the same    *)
(* values, the same check failing, the same elements in the end.  Only     *)
(* what an object never written holds may differ, as if storage had held   *)
(* something else.                                                         *)
OutcomesKept ==
  phase # "emit" /\ ops # orig =>
    \A env \in Telling :
      \E junk \in Machine :
        Outcome(ops, env) = Outcome(orig, [env EXCEPT !.junk = junk])

(* A value of the constrained subtype lies in it, whatever storage held:   *)
(* readObject asserts the subtype only of initialised objects, and no      *)
(* rewriting gives an unchecked value the subtype.  Once x is promoted, a  *)
(* value of the base type also lies in the base type's range, even where   *)
(* the source reads x before writing it: checks that rely on the range of  *)
(* an operand's type are left out.                                         *)
ValuesHeld ==
  phase # "emit" =>
    \A env \in Telling :
      LET s == Executed(ops, env) IN
      \A i \in {j \in DOMAIN ops : ops[j].op \in Kinded /\ ops[j].id \in s.done} :
        s.val[ops[i].id] \in (IF ops[i].type = "nominal" THEN Nominal ELSE BaseValues(kind))
=========================================================================
