----------------------------- MODULE ScalarTypes -----------------------------
(***************************************************************************)
(* The scalar types of a program, as ada.type carries them, and the        *)
(* operators MLIRGen accepts for each kind of type.                        *)
(***************************************************************************)
EXTENDS Words, FiniteSets

Sets == INSTANCE FiniteSetsExt

CONSTANTS
  MachineWidths,  \* the widths an integer type may have: 8, 16, ... 128
  Types,    \* the scalar types and subtypes of the program
  Boolean,  \* the type of a comparison
  Arrays    \* the array types: the index type and the index range

(* A root type has a kind, a machine width, a modulus (0 when it is not    *)
(* modular) and a declared range.  A type is a root itself ("none"), or a  *)
(* subtype of it with a static or a dynamic range of its own.              *)
Kinds == {"signed", "modular", "enum"}

Base(r) ==
  CASE r.kind = "signed" -> SignedRange(r.width)
    [] r.kind = "modular" -> 0..(r.modulus - 1)
    [] r.kind = "enum" -> r.lo..r.hi

(* The width of a root, in bits: that of the least machine integer for a   *)
(* signed or a modular type, as narrow as its codes allow for an           *)
(* enumeration.                                                            *)
SignificantBits(n) == Sets!Min({w \in 1..(Abs(n) + 2) : n \in SignedRange(w)})
CeilLog2(m) == Sets!Min({k \in 0..m : 2^k >= m})
Least(need) == Sets!Min({w \in MachineWidths : w >= need})

IntegerWidth(lo, hi) == Least(Sets!Max({SignificantBits(lo), SignificantBits(hi)}))

(* No modulus is refused: one beyond the widest word gets that word.       *)
ModularWidth(m) ==
  IF CeilLog2(m) <= Sets!Max(MachineWidths) THEN Least(CeilLog2(m)) ELSE Sets!Max(MachineWidths)

EnumWidth(codes) ==
  IF codes \subseteq {0, 1} THEN 1
  ELSE Sets!Max({SignificantBits(n) : n \in codes \union {0}})

SignedRoot(name, lo, hi) ==
  [name |-> name, kind |-> "signed", width |-> IntegerWidth(lo, hi),
   modulus |-> 0, lo |-> lo, hi |-> hi]
ModularRoot(name, m) ==
  [name |-> name, kind |-> "modular", width |-> ModularWidth(m),
   modulus |-> m, lo |-> 0, hi |-> m - 1]
EnumRoot(name, codes) ==
  [name |-> name, kind |-> "enum", width |-> EnumWidth(codes),
   modulus |-> 0, lo |-> Sets!Min(codes), hi |-> Sets!Max(codes)]

WellFormedRoot(r) ==
  /\ r.kind \in Kinds
  /\ r.width \in Nat \ {0}
  /\ r.kind = "signed" =>
       r.modulus = 0 /\ r.lo \in SignedRange(r.width) /\ r.hi \in SignedRange(r.width)
  /\ r.kind = "modular" =>
       r.modulus \in 1..(2^r.width) /\ r.lo = 0 /\ r.hi = r.modulus - 1
  /\ r.kind = "enum" =>
       /\ r.modulus = 0 /\ r.lo \in Int /\ r.hi \in Int /\ r.lo <= r.hi
       /\ r.lo..r.hi \subseteq IF r.lo >= 0 THEN Word(r.width) ELSE SignedRange(r.width)

WellFormedType(t) ==
  /\ WellFormedRoot(t.root)
  /\ t.own \in {"none", "static", "dynamic"}
  /\ t.lo \in Base(t.root) /\ t.hi \in Base(t.root)
  /\ t.own = "none" => t.lo = t.root.lo /\ t.hi = t.root.hi
  /\ t.root.kind = "enum" => t.own = "none"

Values(t) == t.lo..t.hi
Root(t) == [root |-> t.root, own |-> "none", lo |-> t.root.lo, hi |-> t.root.hi]

ASSUME MachineWidthsAssumption ==
  MachineWidths # {} /\ MachineWidths \subseteq Nat \ {0} /\ IsFiniteSet(MachineWidths)
(* The root of every type of the program is one of its types.              *)
ASSUME TypesAssumption == \A t \in Types : WellFormedType(t) /\ Root(t) \in Types
ASSUME BooleanAssumption ==
  /\ Boolean \in Types /\ Boolean.own = "none"
  /\ Boolean.root.kind = "enum" /\ Boolean.root.width = 1
  /\ Boolean.root.lo = 0 /\ Boolean.root.hi = 1
ASSUME ArraysAssumption ==
  \A a \in Arrays : /\ WellFormedRoot(a.root) /\ a.root.kind # "enum"
                    /\ a.lo \in Base(a.root) /\ a.hi \in Base(a.root)

(* The operators of a type, and where its values can be converted to.     *)
BinaryOps(r) ==
  CASE r.kind = "signed" -> {"+", "-", "*", "/"}
    [] r.kind = "modular" -> {"+", "-", "*", "/", "and", "or", "xor"}
    [] r.kind = "enum" -> IF r = Boolean.root THEN {"and", "or", "xor"} ELSE {}
UnaryOps(r) ==
  CASE r.kind = "signed" -> {"+", "-", "abs"}
    [] r.kind = "modular" -> {"+", "-", "abs", "not"}
    [] r.kind = "enum" -> IF r = Boolean.root THEN {"not"} ELSE {}
CompareOps == {"=", "/=", "<", "<=", ">", ">="}

Targets(t) == {u \in Types : t.root.kind # "enum" /\ u.root.kind # "enum"}
Indexable(t) == {a \in Arrays : a.root = t.root}
=============================================================================
