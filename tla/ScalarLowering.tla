--------------------------- MODULE ScalarLowering ----------------------------
(***************************************************************************)
(* The machine code the compiler emits for scalar expressions: MLIRGen     *)
(* decides the checks an operator carries, LowerAdaConversions and         *)
(* LowerAdaIndexing place the range checks and the representation changes, *)
(* LowerToLLVM selects the machine operations.  What an operation computes *)
(* is the set of outcomes it can have: one, or any word where LLVM leaves  *)
(* the result undefined.                                                   *)
(***************************************************************************)
EXTENDS ScalarTypes, ScalarWords

CONSTANT AddressWidth  \* the least width of a storage offset

ASSUME AddressWidthAssumption == AddressWidth \in Nat

VARIABLES
  type,     \* the Ada type of the last value
  word,     \* its machine value
  def,      \* "constant", "folded" (evalConstInt succeeds) or "other"
  expr,     \* the operator applied to it
  raised,   \* the check whose raise block was entered, or "no"
  selected  \* the offset of the last index

vars == <<type, word, def, expr, raised, selected>>

Idle == [kind |-> "idle"]

Operands(r) == {Wrap(Width(r), b) : b \in Base(r)}

(* MLIRGen refuses a division by a constant zero.                          *)
Binaries(r) ==
  {e \in [kind : {"binary"}, op : BinaryOps(r), right : Operands(r),
          constant : BOOLEAN] :
     ~(e.op = "/" /\ e.constant /\ e.right = 0)}

Exprs(t) ==
  Binaries(t.root) \cup
  [kind : {"compare"}, op : CompareOps, right : Operands(t.root)] \cup
  [kind : {"unary"}, op : UnaryOps(t.root)] \cup
  [kind : {"convert"}, target : Targets(t)] \cup
  [kind : {"index"}, array : Indexable(t)]

Computes(x) == [raised |-> "no", word |-> x]
Raises(check) == [raised |-> check]

-----------------------------------------------------------------------------
(* The checks an operator carries (emitBinOp, mlirGenUnOp). *)

OverflowCheck(r, op) == r.kind = "signed" /\ op \in {"+", "-", "*", "abs"}

(* A constant divisor is known not to be zero, and only -1 can overflow.   *)
DivisionCheck(r, e) ==
  ~(e.constant /\ (Modular(r) \/ e.right # AllOnes(Width(r))))

(* evalConstInt: a checked operator on constants whose value fits; unary   *)
(* plus is its operand.                                                    *)
ConstantLeft == def \in {"constant", "folded"}
FoldsBinary(r, e) ==
  /\ ConstantLeft /\ e.constant
  /\ OverflowCheck(r, e.op)
  /\ Arith(e.op, AsSigned(Width(r), word), AsSigned(Width(r), e.right))
       \in SignedRange(Width(r))

FoldsUnary(r, e) ==
  /\ ConstantLeft
  /\ \/ e.op = "+"
     \/ /\ OverflowCheck(r, e.op)
        /\ \/ e.op = "abs" /\ AsSigned(Width(r), word) >= 0
           \/ -AsSigned(Width(r), word) \in SignedRange(Width(r))

-----------------------------------------------------------------------------
(* LowerToLLVM: arithmetic *)

(* The llvm.*.with.overflow intrinsics, their flag tested.                 *)
Checked(w, op, x, y) ==
  LET exact == Arith(op, AsSigned(w, x), AsSigned(w, y))
  IN  IF exact \in SignedRange(w) THEN Computes(Wrap(w, exact))
      ELSE Raises("overflow")

DivideSigned(w, x, y) ==
  IF y = 0 \/ (x = MinWord(w) /\ y = AllOnes(w))
    THEN {Computes(z) : z \in Word(w)}
    ELSE {Computes(Wrap(w, Quotient(AsSigned(w, x), AsSigned(w, y))))}
DivideUnsigned(w, x, y) ==
  IF y = 0 THEN {Computes(z) : z \in Word(w)} ELSE {Computes(x \div y)}

Divide(r, e) ==
  LET w == Width(r)
  IN  IF DivisionCheck(r, e) /\ e.right = 0 THEN {Raises("divide by zero")}
      ELSE IF DivisionCheck(r, e) /\ ~Modular(r)
              /\ word = MinWord(w) /\ e.right = AllOnes(w)
             THEN {Raises("overflow")}
      ELSE IF Modular(r) THEN DivideUnsigned(w, word, e.right)
           ELSE DivideSigned(w, word, e.right)

Binary(r, e) ==
  IF e.op = "/" THEN Divide(r, e)
  ELSE IF OverflowCheck(r, e.op) /\ ~FoldsBinary(r, e)
         THEN {Checked(Width(r), e.op, word, e.right)}
  ELSE {Computes(Unchecked(r, e.op, word, e.right))}

(* `abs` selects between the operand and its checked negation.             *)
Negated(r, e) ==
  IF OverflowCheck(r, e.op) /\ ~FoldsUnary(r, e)
    THEN Checked(Width(r), "-", 0, word)
  ELSE IF Modular(r) /\ ~FullWidthModulus(r)
    THEN Computes(IF word = 0 THEN 0 ELSE r.modulus - word)
  ELSE Computes(Plain(Width(r), "-", 0, word))

Unary(r, e) ==
  CASE e.op = "+" -> Computes(word)
    [] e.op = "-" -> Negated(r, e)
    [] e.op = "abs" ->
         IF Modular(r) THEN Computes(word)
         ELSE IF Negated(r, e).raised # "no" THEN Negated(r, e)
         ELSE IF AsSigned(Width(r), word) < 0 THEN Negated(r, e)
         ELSE Computes(word)
    [] e.op = "not" ->
         IF Modular(r)
           THEN Computes(Wrap(Width(r), Wrap(Width(r), r.modulus) - 1 - word))
           ELSE Computes(Bitwise(Width(r), "xor", word, 1))

(* Signed or unsigned predicates, by the order of the operand type.        *)
CompareWords(r, op, x, y) ==
  Computes(IF Predicate(op, Read(r, x), Read(r, y)) THEN 1 ELSE 0)

-----------------------------------------------------------------------------
(* LowerAdaConversions *)

(* Mutant: the upper bound is not compared.                                *)
MutantWithin(lo, hi, l, h) == lo \in l..h
Within(lo, hi, l, h) == lo \in l..h /\ hi \in l..h

(* knownWithin: the constant, or the static range of the type.             *)
KnownWithin(lo, hi) ==
  IF def = "constant"
    THEN (IF Modular(type.root) THEN word ELSE AsSigned(Width(type.root), word))
           \in lo..hi
    ELSE type.own # "dynamic" /\ Within(type.lo, type.hi, lo, hi)

(* clampTo: lo..hi restricted to what a source of root r represents, or a  *)
(* range no value lies in.                                                 *)
(* Mutant: an empty restriction is not told apart.                         *)
MutantClamp(r, lo, hi) ==
  LET min == IF Modular(r) THEN 0 ELSE -MinWord(Width(r))
      max == IF Modular(r) THEN AllOnes(Width(r)) ELSE MinWord(Width(r)) - 1
  IN  <<IF lo < min THEN min ELSE lo, IF hi > max THEN max ELSE hi>>
Clamp(r, lo, hi) ==
  LET min == IF Modular(r) THEN 0 ELSE -MinWord(Width(r))
      max == IF Modular(r) THEN AllOnes(Width(r)) ELSE MinWord(Width(r)) - 1
      l == IF lo < min THEN min ELSE lo
      h == IF hi > max THEN max ELSE hi
  IN  IF l > h THEN <<max, min>> ELSE <<l, h>>

(* A range check compares words of root r with a descriptor of words.      *)
InDescriptor(r, x, range) ==
  LET w == Width(r)
      lo == Wrap(w, range[1])
      hi == Wrap(w, range[2])
  IN  IF Modular(r) THEN lo <= x /\ x <= hi
      ELSE /\ AsSigned(w, lo) <= AsSigned(w, x)
           /\ AsSigned(w, x) <= AsSigned(w, hi)

(* Mutant: a narrower target keeps the word.                               *)
MutantChangeRepresentation(source, target, x) ==
  IF Width(target) > Width(source) /\ ~Modular(source)
    THEN SignExtend(Width(source), Width(target), x) ELSE x
ChangeRepresentation(source, target, x) ==
  IF Width(target) > Width(source) /\ ~Modular(source)
    THEN SignExtend(Width(source), Width(target), x)
    ELSE Wrap(Width(target), x)

(* Between subtypes of one base: a check where the target has a range of   *)
(* its own and the value is not known to lie in it.                        *)
ConvertSame(target) ==
  IF \/ target.own = "none"
     \/ target.own = "static" /\ KnownWithin(target.lo, target.hi)
     \/ InDescriptor(target.root, word, <<target.lo, target.hi>>)
    THEN Computes(word) ELSE Raises("range")

(* The range checked statically: for a dynamic target that of its base.    *)
Required(target) ==
  IF target.own = "dynamic" THEN Root(target) ELSE target

(* Widening preserves every value, but a negative one into a modular type. *)
Preserving(source, target) ==
  /\ Width(target) > Width(source)
  /\ Modular(source) \/ ~Modular(target)

(* To another base: a check in the source representation, the change of    *)
(* representation, a check in the target's.                                *)
ConvertChange(target) ==
  LET source == type.root
      required == Required(target)
      check == ~KnownWithin(required.lo, required.hi)
      preserving == Preserving(source, target.root)
      changed == ChangeRepresentation(source, target.root, word)
  IN  IF /\ check /\ ~preserving
         /\ ~InDescriptor(source, word, Clamp(source, required.lo, required.hi))
        THEN Raises("range")
      ELSE IF /\ target.own = "dynamic" \/ (check /\ preserving)
              /\ ~InDescriptor(target.root, changed, <<target.lo, target.hi>>)
        THEN Raises("range")
      ELSE Computes(changed)

Convert(target) ==
  IF target = type THEN Computes(word)
  ELSE IF target.root = type.root THEN ConvertSame(target)
  ELSE ConvertChange(target)

-----------------------------------------------------------------------------
(* LowerAdaIndexing: the check is left out where the index is known to lie *)
(* in the bounds; the offset is computed in a width that holds it as the   *)
(* signed number the address computation reads.                            *)
WideIndex(r) ==
  IF AddressWidth > Width(r) THEN AddressWidth ELSE Width(r) + 1

Offset(a) ==
  LET r == a.root
      wide == WideIndex(r)
      index == IF UnsignedOrder(r) THEN word ELSE SignExtend(Width(r), wide, word)
  IN  AsSigned(wide, Wrap(wide, index - Wrap(wide, a.lo)))

IndexPasses(a) ==
  KnownWithin(a.lo, a.hi) \/ InDescriptor(a.root, word, <<a.lo, a.hi>>)

-----------------------------------------------------------------------------
Literal(t) == {"other"} \cup (IF t.own = "none" THEN {"constant"} ELSE {})

Init ==
  /\ type \in Types
  /\ \E v \in Values(type) : word = Wrap(Width(type.root), v)
  /\ def \in Literal(type)
  /\ expr = Idle
  /\ raised = "no"
  /\ selected = 0

(* A new value: an object, or a literal, which has the root type.          *)
Fetch ==
  /\ expr = Idle
  /\ type' \in Types
  /\ \E v \in Values(type') : word' = Wrap(Width(type'.root), v)
  /\ def' \in Literal(type')
  /\ raised' = "no"
  /\ UNCHANGED <<expr, selected>>

Choose ==
  /\ expr = Idle
  /\ raised = "no"
  /\ expr' \in Exprs(type)
  /\ UNCHANGED <<type, word, def, raised, selected>>

Yield(outcome, t, d) ==
  /\ raised' = outcome.raised
  /\ IF outcome.raised = "no"
       THEN type' = t /\ word' = outcome.word /\ def' = d
       ELSE UNCHANGED <<type, word, def>>
  /\ expr' = Idle
  /\ UNCHANGED selected

Compute ==
  /\ expr.kind = "binary"
  /\ \E o \in Binary(type.root, expr) :
       Yield(o, Root(type), IF FoldsBinary(type.root, expr) THEN "folded" ELSE "other")

ComputeUnary ==
  /\ expr.kind = "unary"
  /\ Yield(Unary(type.root, expr), Root(type),
           IF FoldsUnary(type.root, expr) THEN "folded" ELSE "other")

Compare ==
  /\ expr.kind = "compare"
  /\ Yield(CompareWords(type.root, expr.op, word, expr.right), Boolean, "other")

ConvertTo ==
  /\ expr.kind = "convert"
  /\ Yield(Convert(expr.target), expr.target,
           IF expr.target = type THEN def ELSE "other")

Index ==
  /\ expr.kind = "index"
  /\ IF IndexPasses(expr.array)
       THEN raised' = "no" /\ selected' = Offset(expr.array)
       ELSE raised' = "index" /\ UNCHANGED selected
  /\ expr' = Idle
  /\ UNCHANGED <<type, word, def>>

Next ==
  Fetch \/ Choose \/ Compute \/ ComputeUnary \/ Compare \/ ConvertTo \/ Index

Spec == Init /\ [][Next]_vars

-----------------------------------------------------------------------------
(* Properties *)

(* Every value is a word of its type's machine width, also after a         *)
(* conversion to a narrower type.                                          *)
TypeOK ==
  /\ type \in Types
  /\ word \in Word(Width(type.root))
  /\ def \in {"constant", "folded", "other"}
  /\ expr = Idle \/ expr \in Exprs(type)
  /\ raised \in {"no", "overflow", "divide by zero", "range", "index"}
  /\ selected \in Nat

(* Every signed type fills its machine range, as the predefined ones do.   *)
(* (Of a type declared with a narrower range the next property fails.)     *)
FullRanges ==
  \A t \in Types : t.root.kind = "signed" => Values(Root(t)) = Base(t.root)

(* RequalifyOp: a value takes the identity of a constrained subtype only   *)
(* when it satisfies its constraint.                                       *)
SubtypeEstablished ==
  type.own # "none" => Read(type.root, word) \in Values(type)

(* The lowered code computes what Ada promises: the exact value of every   *)
(* operator and conversion, and the check that fails when one does.        *)
ExprBar ==
  CASE expr.kind = "binary" ->
         [kind |-> "binary", op |-> expr.op, right |-> Read(type.root, expr.right)]
    [] expr.kind = "compare" ->
         [kind |-> "compare", op |-> expr.op, right |-> Read(type.root, expr.right)]
    [] OTHER -> expr

Scalars == INSTANCE AdaScalars WITH value <- Read(type.root, word), expr <- ExprBar

ImplementsAdaScalars == Scalars!Spec
=============================================================================
