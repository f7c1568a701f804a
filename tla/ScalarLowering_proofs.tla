------------------------ MODULE ScalarLowering_proofs -------------------------
(***************************************************************************)
(* Proof that the machine operations selected for scalar operators,        *)
(* conversions and indexing compute Ada's exact result or raise Ada's      *)
(* check, for types of any width, any modulus and any range; and that the  *)
(* blocks of a for loop, with a step that carries no check, run Ada's loop *)
(* over numbers, whatever the bounds.                                      *)
(***************************************************************************)
EXTENDS ScalarLowering, ForLoop, Words_proofs

-----------------------------------------------------------------------------
(* The words of a type *)

LEMMA RootFacts ==
  ASSUME NEW r, WellFormedRoot(r)
  PROVE  /\ Width(r) \in Nat \ {0} /\ r.kind \in Kinds
         /\ Base(r) \subseteq Int
         /\ r.kind = "modular" =>
              /\ r.modulus \in 1..(2^Width(r)) /\ r.modulus \in Nat \ {0}
              /\ Base(r) = 0..(r.modulus - 1) /\ Base(r) \subseteq Word(Width(r))
              /\ Modular(r) /\ UnsignedOrder(r)
         /\ r.kind = "signed" =>
              /\ Base(r) = SignedRange(Width(r)) /\ ~Modular(r) /\ ~UnsignedOrder(r)
         /\ r.kind = "enum" =>
              /\ Base(r) = r.lo..r.hi /\ ~Modular(r)
              /\ r.lo \in Int /\ r.hi \in Int /\ r.lo <= r.hi
         /\ IF UnsignedOrder(r) THEN Base(r) \subseteq Word(Width(r))
            ELSE Base(r) \subseteq SignedRange(Width(r))
<1> DEFINE w == Width(r)
<1>1. w \in Nat \ {0} /\ w \in Nat /\ r.kind \in Kinds
  BY DEF WellFormedRoot, Width
<1>2. 2^w \in Nat \ {0} /\ 2^(w - 1) \in Nat \ {0}
  BY <1>1, Subsets, HalfPower
<1>3. CASE r.kind = "modular"
  <2>1. r.modulus \in 1..(2^w) /\ Base(r) = 0..(r.modulus - 1)
    BY <1>3 DEF WellFormedRoot, Base, Width
  <2>2. r.modulus \in Nat \ {0} /\ Base(r) \subseteq Word(w) /\ Base(r) \subseteq Int
    BY <1>2, <2>1 DEF Word
  <2>3. Modular(r) /\ UnsignedOrder(r)
    BY <2>2 DEF Modular, UnsignedOrder
  <2>4. QED
    BY <1>1, <1>3, <2>1, <2>2, <2>3
<1>4. CASE r.kind = "signed"
  <2>1. r.modulus = 0 /\ Base(r) = SignedRange(w)
    BY <1>4 DEF WellFormedRoot, Base, Width
  <2>2. ~Modular(r) /\ ~UnsignedOrder(r)
    BY <1>4, <2>1 DEF Modular, UnsignedOrder
  <2>3. SignedRange(w) \subseteq Int
    BY <1>2 DEF SignedRange
  <2>4. QED
    BY <1>1, <1>4, <2>1, <2>2, <2>3
<1>5. CASE r.kind = "enum"
  <2>1. /\ r.modulus = 0 /\ Base(r) = r.lo..r.hi
        /\ r.lo \in Int /\ r.hi \in Int /\ r.lo <= r.hi
        /\ r.lo..r.hi \subseteq IF r.lo >= 0 THEN Word(w) ELSE SignedRange(w)
    BY <1>5 DEF WellFormedRoot, Base, Width
  <2>2. ~Modular(r) /\ (UnsignedOrder(r) <=> r.lo >= 0)
    BY <1>5, <2>1 DEF Modular, UnsignedOrder
  <2>3. Base(r) \subseteq Int
    BY <2>1
  <2>4. QED
    BY <1>1, <1>5, <2>1, <2>2, <2>3
<1>6. QED
  BY <1>1, <1>3, <1>4, <1>5 DEF Kinds

(* A value reads back from its word.                                       *)
LEMMA ReadValue ==
  ASSUME NEW r, WellFormedRoot(r), NEW v \in Base(r)
  PROVE  /\ v \in Int
         /\ Wrap(Width(r), v) \in Word(Width(r))
         /\ Read(r, Wrap(Width(r), v)) = v
         /\ UnsignedOrder(r) => Wrap(Width(r), v) = v
         /\ ~UnsignedOrder(r) => /\ v \in SignedRange(Width(r))
                                 /\ AsSigned(Width(r), Wrap(Width(r), v)) = v
<1> DEFINE w == Width(r)
<1>1. w \in Nat \ {0} /\ w \in Nat /\ v \in Int
  BY RootFacts
<1>2. Wrap(w, v) \in Word(w)
  BY <1>1, WrapWord
<1>3. CASE UnsignedOrder(r)
  <2>1. v \in Word(w)
    BY <1>3, RootFacts
  <2>2. Wrap(w, v) = v
    BY <1>1, <2>1, WrapSame
  <2>3. QED
    BY <1>1, <1>2, <1>3, <2>2 DEF Read
<1>4. CASE ~UnsignedOrder(r)
  <2>1. v \in SignedRange(w)
    BY <1>4, RootFacts
  <2>2. AsSigned(w, Wrap(w, v)) = v
    BY <1>1, <2>1, ReadSigned
  <2>3. QED
    BY <1>1, <1>2, <1>4, <2>1, <2>2 DEF Read
<1>5. QED
  BY <1>3, <1>4

(* A word of a type is the word of a value of it, one and only.            *)
LEMMA OperandValue ==
  ASSUME NEW r, WellFormedRoot(r), NEW x \in Operands(r)
  PROVE  Read(r, x) \in Base(r) /\ x = Wrap(Width(r), Read(r, x))
<1>1. PICK v \in Base(r) : x = Wrap(Width(r), v)
  BY DEF Operands
<1>2. QED
  BY <1>1, ReadValue

(* The types and arrays of a program.                                      *)
LEMMA TypeFacts ==
  ASSUME NEW t \in Types
  PROVE  /\ WellFormedRoot(t.root)
         /\ t.own \in {"none", "static", "dynamic"}
         /\ t.lo \in Base(t.root) /\ t.hi \in Base(t.root)
         /\ t.lo \in Int /\ t.hi \in Int
         /\ Root(t) \in Types /\ Root(t).root = t.root /\ Root(t).own = "none"
         /\ t.root.kind = "enum" => t.own = "none"
         /\ t.own = "none" => Values(t) = Values(Root(t))
<1>1. WellFormedType(t) /\ Root(t) \in Types
  BY TypesAssumption
<1>2. /\ WellFormedRoot(t.root) /\ t.own \in {"none", "static", "dynamic"}
      /\ t.lo \in Base(t.root) /\ t.hi \in Base(t.root)
      /\ t.own = "none" => t.lo = t.root.lo /\ t.hi = t.root.hi
      /\ t.root.kind = "enum" => t.own = "none"
  BY <1>1 DEF WellFormedType
<1>3. t.lo \in Int /\ t.hi \in Int
  BY <1>2, RootFacts
<1>4. Root(t).root = t.root /\ Root(t).own = "none"
  BY DEF Root
<1>5. t.own = "none" => Values(t) = Values(Root(t))
  BY <1>2 DEF Values, Root
<1>6. QED
  BY <1>1, <1>2, <1>3, <1>4, <1>5

(* The values of a type lie in its base range, those of a root are it.     *)
LEMMA ValuesInBase ==
  ASSUME FullRanges, NEW t \in Types
  PROVE  /\ Values(t) \subseteq Base(t.root)
         /\ t.own = "none" => Values(t) = Base(t.root)
<1> DEFINE r == t.root
<1>1. WellFormedRoot(r) /\ t.lo \in Base(r) /\ t.hi \in Base(r) /\ t.lo \in Int /\ t.hi \in Int
  BY TypeFacts
<1>2. r.kind \in Kinds /\ Width(r) \in Nat \ {0}
  BY <1>1, RootFacts
<1>3. Values(t) \subseteq Base(r)
  <2>1. \E a, b \in Int : Base(r) = a..b
    <3>1. CASE r.kind = "signed"
      <4>1. 2^(Width(r) - 1) \in Nat
        BY <1>2, HalfPower
      <4>2. QED
        BY <1>1, <3>1, <4>1, RootFacts DEF SignedRange
    <3>2. CASE r.kind = "modular"
      BY <1>1, <3>2, RootFacts
    <3>3. CASE r.kind = "enum"
      BY <1>1, <3>3, RootFacts
    <3>4. QED
      BY <1>2, <3>1, <3>2, <3>3 DEF Kinds
  <2>2. QED
    BY <1>1, <2>1 DEF Values
<1>4. Values(Root(t)) = r.lo..r.hi
  BY DEF Values, Root
<1>5. Values(Root(t)) = Base(r)
  <2>1. CASE r.kind = "signed"
    BY <2>1 DEF FullRanges
  <2>2. CASE r.kind = "modular"
    BY <1>1, <1>4, <2>2 DEF WellFormedRoot, Base
  <2>3. CASE r.kind = "enum"
    BY <1>4, <2>3 DEF Base
  <2>4. QED
    BY <1>2, <2>1, <2>2, <2>3 DEF Kinds
<1>6. QED
  BY <1>3, <1>5, TypeFacts

-----------------------------------------------------------------------------
(* Arithmetic without a check *)

(* The abstract specification means the same by its types and words.       *)
LEMMA AdaSame ==
  /\ \A r : Scalars!Base(r) = Base(r)
  /\ \A w, op, x, y : Scalars!Bitwise(w, op, x, y) = Bitwise(w, op, x, y)
  /\ \A op, a, b : Scalars!Arith(op, a, b) = Arith(op, a, b)
  /\ \A a : Scalars!Abs(a) = Abs(a)
  /\ \A t : Scalars!Values(t) = Values(t) /\ Scalars!Root(t) = Root(t)
  /\ \A r : Scalars!BinaryOps(r) = BinaryOps(r) /\ Scalars!UnaryOps(r) = UnaryOps(r)
  /\ Scalars!CompareOps = CompareOps
  /\ \A t : Scalars!Targets(t) = Targets(t) /\ Scalars!Indexable(t) = Indexable(t)
<1>1. \A r : Scalars!Base(r) = Base(r)
  BY DEF Scalars!Base, Scalars!SignedRange, Base, SignedRange
<1>2. \A w, op, x, y : Scalars!Bitwise(w, op, x, y) = Bitwise(w, op, x, y)
  BY DEF Scalars!Bitwise, Scalars!Word, Scalars!Bit, Bitwise, Word, Bit
<1>3. \A op, a, b : Scalars!Arith(op, a, b) = Arith(op, a, b)
  BY DEF Scalars!Arith, Scalars!Quotient, Scalars!Abs, Arith, Quotient, Abs
<1>4. \A a : Scalars!Abs(a) = Abs(a)
  BY DEF Scalars!Abs, Abs
<1>5. \A t : Scalars!Values(t) = Values(t) /\ Scalars!Root(t) = Root(t)
  BY DEF Scalars!Values, Scalars!Root, Values, Root
<1>6. \A r : Scalars!BinaryOps(r) = BinaryOps(r) /\ Scalars!UnaryOps(r) = UnaryOps(r)
  BY DEF Scalars!BinaryOps, Scalars!UnaryOps, BinaryOps, UnaryOps
<1>7. Scalars!CompareOps = CompareOps
  BY DEF Scalars!CompareOps, CompareOps
<1>8. \A t : Scalars!Targets(t) = Targets(t) /\ Scalars!Indexable(t) = Indexable(t)
  BY DEF Scalars!Targets, Scalars!Indexable, Targets, Indexable
<1>9. QED
  BY <1>1, <1>2, <1>3, <1>4, <1>5, <1>6, <1>7, <1>8

LEMMA PlainExact ==
  ASSUME NEW w \in Nat, NEW op \in {"+", "-", "*"}, NEW a \in Int, NEW b \in Int
  PROVE  /\ Plain(w, op, Wrap(w, a), Wrap(w, b)) = Wrap(w, Arith(op, a, b))
         /\ Plain(w, op, a, b) = Wrap(w, Arith(op, a, b))
         /\ Arith(op, a, b) \in Int
<1>1. op \notin {"and", "or", "xor"}
  OBVIOUS
<1>2. \A x, y : Plain(w, op, x, y) = Wrap(w, Arith(op, x, y))
  BY <1>1 DEF Plain
<1>3. Arith(op, a, b) \in Int
  BY DEF Arith
<1>4. QED
  BY <1>2, <1>3, WrapArith

(* What one subtraction or addition of the modulus does.                   *)
LEMMA ModOnce ==
  ASSUME NEW m \in Nat \ {0}
  PROVE  /\ \A n \in 0..(m - 1) : n % m = n
         /\ \A n \in m..(2 * m - 1) : n % m = n - m /\ n - m \in 0..(m - 1)
         /\ \A n \in (-m)..(-1) : n % m = n + m /\ n + m \in 0..(m - 1)
<1>1. \A q \in Int : \A r \in 0..(m - 1) : (m * q + r) % m = r
  OBVIOUS
<1>2. ASSUME NEW n \in 0..(m - 1)
      PROVE  n % m = n
  <2>1. n = m * 0 + n
    OBVIOUS
  <2>2. QED
    BY <1>1, <2>1
<1>3. ASSUME NEW n \in m..(2 * m - 1)
      PROVE  n % m = n - m /\ n - m \in 0..(m - 1)
  <2>1. PICK r \in 0..(m - 1) : n = m * 1 + r /\ r = n - m
    <3>1. n - m \in 0..(m - 1) /\ n = m * 1 + (n - m)
      OBVIOUS
    <3>2. QED
      BY <3>1
  <2>2. n % m = r
    BY <1>1, <2>1
  <2>3. QED
    BY <2>1, <2>2
<1>4. ASSUME NEW n \in (-m)..(-1)
      PROVE  n % m = n + m /\ n + m \in 0..(m - 1)
  <2>1. PICK r \in 0..(m - 1) : n = m * (-1) + r /\ r = n + m
    <3>1. n + m \in 0..(m - 1) /\ n = m * (-1) + (n + m)
      OBVIOUS
    <3>2. QED
      BY <3>1
  <2>2. n % m = r
    BY <1>1, <2>1
  <2>3. QED
    BY <2>1, <2>2
<1>5. QED
  BY <1>2, <1>3, <1>4

(* The word a modular operator should leave.                               *)
ModularResult(r, op, a, b) ==
  (IF op \in BitOps THEN Bitwise(Width(r), op, a, b) ELSE Arith(op, a, b)) % r.modulus

(* A modulus that is a power of two: the bits in front are masked, or      *)
(* there are none.                                                         *)
LEMMA PowerModulus ==
  ASSUME NEW r, WellFormedRoot(r), r.kind = "modular", PowerOfTwoModulus(r),
         NEW op \in {"+", "-", "*"} \cup BitOps, NEW a \in Base(r), NEW b \in Base(r)
  PROVE  Reduced(r, op, a, b) = ModularResult(r, op, a, b)
<1> DEFINE w == Width(r)
           m == r.modulus
<1>1. w \in Nat \ {0} /\ w \in Nat /\ m \in Nat \ {0} /\ a \in 0..(m - 1) /\ b \in 0..(m - 1)
  BY RootFacts
<1>2. PICK k \in 0..w : m = 2^k
  BY DEF PowerOfTwoModulus
<1>3. k \in Nat /\ k <= w
  BY <1>1
<1>4. CASE op \in BitOps
  <2>1. Reduced(r, op, a, b) = Plain(w, op, a, b)
    BY <1>4 DEF Reduced, BitOps
  <2>2. Plain(w, op, a, b) = Bitwise(w, op, a, b)
    BY <1>4 DEF Plain, BitOps
  <2>3. a \in Word(k) /\ b \in Word(k)
    BY <1>1, <1>2 DEF Word
  <2>4. PICK z : z = Bitwise(w, op, a, b)
    OBVIOUS
  <2>5. z \in 0..(m - 1)
    BY <1>1, <1>2, <1>4, <2>3, <2>4, BitwiseBelow DEF Word
  <2>6. z % m = z
    BY <1>1, <2>5, ModOnce
  <2>7. QED
    BY <1>4, <2>1, <2>2, <2>4, <2>6 DEF ModularResult
<1>5. CASE op \in {"+", "-", "*"}
  <2>1. Reduced(r, op, a, b) = Bitwise(w, "and", Plain(w, op, a, b), m - 1)
    BY <1>5 DEF Reduced
  <2>2. PICK n \in Int : n = Arith(op, a, b)
    BY <1>1, <1>5, PlainExact
  <2>3. Plain(w, op, a, b) = Wrap(w, n)
    BY <1>1, <1>5, <2>2, PlainExact
  <2>4. Wrap(w, n) \in Word(w)
    BY <1>1, WrapWord
  <2>5. Bitwise(w, "and", Wrap(w, n), m - 1) = Wrap(k, Wrap(w, n))
    BY <1>1, <1>2, <2>4, MaskMod DEF Wrap
  <2>6. Wrap(k, Wrap(w, n)) = Wrap(k, n)
    BY <1>1, <1>3, WrapWrap
  <2>7. Reduced(r, op, a, b) = n % m
    BY <1>2, <2>1, <2>3, <2>5, <2>6 DEF Wrap
  <2>8. op \notin BitOps
    BY <1>5 DEF BitOps
  <2>9. QED
    BY <2>2, <2>7, <2>8 DEF ModularResult
<1>6. QED
  BY <1>4, <1>5

(* Any other modulus: the result is computed in twice the width, or lies   *)
(* below twice the modulus.                                                *)
LEMMA OtherModulus ==
  ASSUME NEW r, WellFormedRoot(r), r.kind = "modular", ~PowerOfTwoModulus(r),
         NEW op \in {"+", "-", "*"} \cup BitOps, NEW a \in Base(r), NEW b \in Base(r)
  PROVE  Reduced(r, op, a, b) = ModularResult(r, op, a, b)
<1> DEFINE w == Width(r)
           m == r.modulus
<1>1. /\ w \in Nat \ {0} /\ w \in Nat /\ m \in Nat \ {0} /\ m \in 1..(2^w)
      /\ a \in 0..(m - 1) /\ b \in 0..(m - 1) /\ a \in Word(w) /\ b \in Word(w)
  BY RootFacts
<1>2. PICK ww \in Nat : ww = 2 * w
  BY <1>1
<1>3. PICK P \in Nat \ {0} : P = 2^w
  BY <1>1, Subsets
<1>4. 2^ww = P * P /\ P * P \in Nat
  <2>1. ww = w + w
    BY <1>1, <1>2
  <2>2. 2^ww = 2^w * 2^w
    BY <1>1, <2>1, PowerSum
  <2>3. QED
    BY <1>3, <2>2
<1>5. m <= P /\ 2 * P <= P * P
  <2>1. 2 <= P
    <3>1. 2^(w - 1) \in Nat \ {0} /\ 2^w = 2 * 2^(w - 1)
      BY <1>1, HalfPower
    <3>2. QED
      BY <1>3, <3>1
  <2>2. \A n \in Nat : 2 <= n => 2 * n <= n * n
    OBVIOUS
  <2>3. QED
    BY <1>1, <1>3, <2>1, <2>2
<1>6. \A n \in 0..(2 * m - 1) : n \in Word(ww) /\ Wrap(ww, n) = n
  <2> TAKE n \in 0..(2 * m - 1)
  <2>1. n \in Word(ww)
    BY <1>1, <1>4, <1>5 DEF Word
  <2>2. QED
    BY <2>1, WrapSame
<1>7. \A n \in 0..(m - 1) : Wrap(w, n) = n
  <2> TAKE n \in 0..(m - 1)
  <2>1. n \in Word(w)
    BY <1>1, <1>3, <1>5 DEF Word
  <2>2. QED
    BY <1>1, <2>1, WrapSame
<1>8. \A v \in Nat, n \in 0..(2 * m - 1) :
         ReduceOnce(v, m, n) = IF n >= m THEN Wrap(v, n - m) ELSE n
  BY DEF ReduceOnce
<1>9. \A n \in 0..(2 * m - 1) : /\ ReduceOnce(w, m, n) = n % m
                                /\ ReduceOnce(ww, m, n) = n % m
                               /\ n % m \in 0..(m - 1)
  <2> TAKE n \in 0..(2 * m - 1)
  <2>1. CASE n >= m
    <3>1. n \in m..(2 * m - 1)
      BY <1>1, <2>1
    <3>2. PICK d \in 0..(m - 1) : d = n - m /\ n % m = d
      BY <1>1, <3>1, ModOnce
    <3>3. Wrap(w, d) = d
      BY <1>7
    <3>4. Wrap(ww, d) = d
      <4>1. d \in 0..(2 * m - 1)
        BY <1>1
      <4>2. QED
        BY <1>6, <4>1
    <3>5. ReduceOnce(w, m, n) = Wrap(w, d) /\ ReduceOnce(ww, m, n) = Wrap(ww, d)
      BY <1>1, <1>8, <2>1, <3>2
    <3>6. QED
      BY <3>2, <3>3, <3>4, <3>5
  <2>2. CASE ~(n >= m)
    <3>1. n \in 0..(m - 1)
      BY <1>1, <2>2
    <3>2. n % m = n
      BY <1>1, <3>1, ModOnce
    <3>3. ReduceOnce(w, m, n) = n /\ ReduceOnce(ww, m, n) = n
      BY <1>1, <1>8, <2>2
    <3>4. QED
      BY <3>1, <3>2, <3>3
  <2>3. QED
    BY <2>1, <2>2
<1>10. CASE op = "and"
  <2>1. Reduced(r, op, a, b) = Plain(w, op, a, b)
    BY <1>10 DEF Reduced
  <2>2. PICK z : z = Bitwise(w, op, a, b)
    OBVIOUS
  <2>3. z \in Word(w) /\ z <= a
    <3>1. a \in Nat /\ b \in Nat
      BY <1>1
    <3>2. z \in Word(w)
      BY <1>1, <1>10, <2>2, <3>1, BitwiseBits DEF BitOps
    <3>3. z <= a
      BY <1>1, <1>10, <2>2, AndBelow
    <3>4. QED
      BY <3>2, <3>3
  <2>4. z \in 0..(m - 1)
    BY <1>1, <1>3, <2>3 DEF Word
  <2>5. z % m = z
    BY <1>1, <2>4, ModOnce
  <2>6. Reduced(r, op, a, b) = z /\ ModularResult(r, op, a, b) = z % m
    BY <1>10, <2>1, <2>2 DEF Plain, ModularResult, BitOps
  <2>7. QED
    BY <2>5, <2>6
<1>11. CASE op \in {"or", "xor"}
  <2>1. Reduced(r, op, a, b) = ReduceOnce(w, m, Plain(w, op, a, b))
    BY <1>11 DEF Reduced
  <2>2. PICK z : z = Bitwise(w, op, a, b)
    OBVIOUS
  <2>3. z \in 0..(2 * m - 1)
    BY <1>1, <1>11, <2>2, BitwiseTwice DEF PowerOfTwoModulus, BitOps
  <2>4. Plain(w, op, a, b) = z /\ ModularResult(r, op, a, b) = z % m
    BY <1>11, <2>2 DEF Plain, ModularResult, BitOps
  <2>5. QED
    BY <1>9, <2>1, <2>3, <2>4
<1>12. CASE op = "*"
  <2>1. PICK n \in Int : n = a * b
    BY <1>1
  <2>2. Reduced(r, op, a, b) = Wrap(w, Plain(ww, "*", a, b) % m)
    BY <1>2, <1>12 DEF Reduced
  <2>3. n \in Word(ww)
    <3>1. \A c, d \in 0..(P - 1) : c * d \in 0..(P * P - 1)
      <4> TAKE c, d \in 0..(P - 1)
      <4>1. c * d <= (P - 1) * (P - 1)
        <5>1. c * d <= c * (P - 1)
          OBVIOUS
        <5>2. c * (P - 1) <= (P - 1) * (P - 1)
          OBVIOUS
        <5>3. c * d \in Int /\ c * (P - 1) \in Int /\ (P - 1) * (P - 1) \in Int
          OBVIOUS
        <5>4. QED
          BY <5>1, <5>2, <5>3
      <4>2. (P - 1) * (P - 1) = P * P - 2 * P + 1 /\ c * d >= 0
        OBVIOUS
      <4>3. QED
        BY <4>1, <4>2
    <3>2. a \in 0..(P - 1) /\ b \in 0..(P - 1)
      BY <1>1, <1>3, <1>5
    <3>3. QED
      BY <1>4, <2>1, <3>1, <3>2 DEF Word
  <2>4. Plain(ww, "*", a, b) = Wrap(ww, n)
    BY <2>1 DEF Plain, Arith
  <2>5. Wrap(ww, n) = n
    BY <2>3, WrapSame
  <2>6. n % m \in 0..(m - 1)
    BY <1>1
  <2>7. Wrap(w, n % m) = n % m
    BY <1>7, <2>6
  <2>8. ModularResult(r, op, a, b) = n % m
    BY <1>12, <2>1 DEF ModularResult, BitOps, Arith
  <2>9. QED
    BY <2>2, <2>4, <2>5, <2>7, <2>8
<1>13. CASE op = "+"
  <2>1. PICK n \in 0..(2 * m - 1) : n = a + b
    BY <1>1
  <2>2. Reduced(r, op, a, b) = Wrap(w, ReduceOnce(ww, m, Plain(ww, "+", a, b)))
    BY <1>2, <1>13 DEF Reduced
  <2>3. Plain(ww, "+", a, b) = Wrap(ww, n)
    BY <2>1 DEF Plain, Arith
  <2>4. ModularResult(r, op, a, b) = n % m
    BY <1>13, <2>1 DEF ModularResult, BitOps, Arith
  <2>5. QED
    BY <1>6, <1>7, <1>9, <2>2, <2>3, <2>4
<1>14. CASE op = "-"
  <2>1. PICK s \in 0..(2 * m - 1), n \in 0..(2 * m - 1) : s = a + m /\ n = s - b
    <3>1. a + m \in 0..(2 * m - 1) /\ (a + m) - b \in 0..(2 * m - 1)
      BY <1>1
    <3>2. QED
      BY <3>1
  <2>2. Reduced(r, op, a, b)
          = Wrap(w, ReduceOnce(ww, m, Plain(ww, "-", Plain(ww, "+", a, m), b)))
    BY <1>2, <1>14 DEF Reduced
  <2>3. Plain(ww, "+", a, m) = s
    BY <1>6, <2>1 DEF Plain, Arith
  <2>4. Plain(ww, "-", s, b) = n
    BY <1>6, <2>1 DEF Plain, Arith
  <2>5. n % m = (a - b) % m
    <3>1. PICK d \in Int : d = a - b /\ n = d + m
      BY <1>1, <2>1
    <3>2. d \in (-m)..(-1) \/ d \in 0..(m - 1)
      BY <1>1, <3>1
    <3>3. CASE d \in (-m)..(-1)
      <4>1. n \in 0..(m - 1)
        BY <1>1, <3>1, <3>3
      <4>2. n % m = n /\ d % m = d + m
        BY <1>1, <3>3, <4>1, ModOnce
      <4>3. QED
        BY <3>1, <4>2
    <3>4. CASE d \in 0..(m - 1)
      <4>1. n \in m..(2 * m - 1) /\ n - m = d
        BY <1>1, <3>1, <3>4
      <4>2. n % m = n - m /\ d % m = d
        BY <1>1, <3>4, <4>1, ModOnce
      <4>3. QED
        BY <3>1, <4>1, <4>2
    <3>5. QED
      BY <3>2, <3>3, <3>4
  <2>6. ModularResult(r, op, a, b) = (a - b) % m
    BY <1>14 DEF ModularResult, BitOps, Arith
  <2>7. QED
    BY <1>7, <1>9, <2>2, <2>3, <2>4, <2>5, <2>6
<1>15. QED
  BY <1>10, <1>11, <1>12, <1>13, <1>14 DEF BitOps

LEMMA UncheckedModular ==
  ASSUME NEW r, WellFormedRoot(r), r.kind = "modular",
         NEW op \in {"+", "-", "*"} \cup BitOps, NEW a \in Base(r), NEW b \in Base(r)
  PROVE  /\ Unchecked(r, op, a, b) = ModularResult(r, op, a, b)
         /\ ModularResult(r, op, a, b) \in Base(r)
<1> DEFINE w == Width(r)
           m == r.modulus
<1>1. /\ w \in Nat /\ m \in Nat \ {0} /\ Modular(r)
      /\ Base(r) = 0..(m - 1) /\ a \in Nat /\ b \in Nat
  BY RootFacts
<1>2. 2^w \in Nat \ {0}
  BY <1>1, Subsets
<1>3. PICK n : n = IF op \in BitOps THEN Bitwise(w, op, a, b) ELSE Arith(op, a, b)
  OBVIOUS
<1>4. ModularResult(r, op, a, b) = n % m
  BY <1>3 DEF ModularResult
<1>5. n \in Int /\ (op \in BitOps => n \in Word(w))
  <2>1. CASE op \in BitOps
    <3>1. n \in Word(w)
      BY <1>1, <1>3, <2>1, BitwiseBits
    <3>2. QED
      BY <1>2, <3>1 DEF Word
  <2>2. CASE op \notin BitOps
    <3>1. op \in {"+", "-", "*"} /\ a \in Int /\ b \in Int
      BY <1>1, <2>2
    <3>2. QED
      BY <1>1, <1>3, <2>2, <3>1, PlainExact
  <2>3. QED
    BY <2>1, <2>2
<1>6. n % m \in Base(r)
  BY <1>1, <1>5
<1>7. CASE FullWidthModulus(r)
  <2>1. Unchecked(r, op, a, b) = Plain(w, op, a, b) /\ m = 2^w
    BY <1>7 DEF Unchecked, FullWidthModulus
  <2>2. CASE op \in BitOps
    <3>1. Plain(w, op, a, b) = n
      BY <1>3, <2>2 DEF Plain, BitOps
    <3>2. n \in 0..(m - 1)
      BY <1>5, <2>1, <2>2 DEF Word
    <3>3. n % m = n
      BY <1>1, <3>2, ModOnce
    <3>4. QED
      BY <1>4, <1>6, <2>1, <3>1, <3>3
  <2>3. CASE op \notin BitOps
    <3>1. Plain(w, op, a, b) = n % m
      BY <1>3, <2>1, <2>3 DEF Plain, BitOps, Wrap
    <3>2. QED
      BY <1>4, <1>6, <2>1, <3>1
  <2>4. QED
    BY <2>2, <2>3
<1>8. CASE ~FullWidthModulus(r)
  <2>1. Unchecked(r, op, a, b) = Reduced(r, op, a, b)
    BY <1>1, <1>8 DEF Unchecked
  <2>2. QED
    BY <1>4, <1>6, <2>1, PowerModulus, OtherModulus
<1>9. QED
  BY <1>7, <1>8

(* The values a comparison of words with 0, the least and all ones finds.  *)
LEMMA SignedEnds ==
  ASSUME NEW w \in Nat \ {0}, NEW a \in SignedRange(w)
  PROVE  /\ Wrap(w, a) = 0 <=> a = 0
         /\ Wrap(w, a) = MinWord(w) <=> a = -(2^(w - 1))
         /\ Wrap(w, a) = AllOnes(w) <=> a = -1
<1>1. PICK M \in Nat \ {0} : M = 2^(w - 1) /\ 2^w = 2 * M
  BY HalfPower
<1>2. PICK x \in 0..(2 * M - 1) : x = Wrap(w, a)
  <2>1. Wrap(w, a) \in Word(w)
    <3>1. a \in Int
      BY <1>1 DEF SignedRange
    <3>2. QED
      BY <3>1, WrapWord
  <2>2. QED
    BY <1>1, <2>1 DEF Word
<1>3. a = IF x < M THEN x ELSE x - 2 * M
  BY <1>1, <1>2, ReadSigned DEF AsSigned
<1>4. a \in (-M)..(M - 1)
  BY <1>1 DEF SignedRange
<1>5. MinWord(w) = M /\ AllOnes(w) = 2 * M - 1
  BY <1>1 DEF MinWord, AllOnes
<1>6. x = 0 <=> a = 0
  BY <1>3
<1>7. x = M <=> a = -M
  BY <1>3
<1>8. x = 2 * M - 1 <=> a = -1
  BY <1>3
<1>9. QED
  BY <1>1, <1>2, <1>5, <1>6, <1>7, <1>8

(* An intrinsic with an overflow flag.                                     *)
LEMMA CheckedExact ==
  ASSUME NEW w \in Nat \ {0}, NEW op, NEW a \in SignedRange(w), NEW b \in SignedRange(w)
  PROVE  Checked(w, op, Wrap(w, a), Wrap(w, b))
           = IF Arith(op, a, b) \in SignedRange(w) THEN Computes(Wrap(w, Arith(op, a, b)))
             ELSE Raises("overflow")
<1>1. AsSigned(w, Wrap(w, a)) = a /\ AsSigned(w, Wrap(w, b)) = b
  BY ReadSigned
<1>2. QED
  BY <1>1 DEF Checked

-----------------------------------------------------------------------------
(* Operators *)

(* What the machine does, o, is what Ada promises, p: the same check fails *)
(* or none, and the word is that of the value.                             *)
Agrees(r, o, p) ==
  \/ /\ o.raised = "no" /\ p.raised = "no"
     /\ p.value \in Base(r) /\ o.word = Wrap(Width(r), p.value)
  \/ o.raised = p.raised /\ o.raised \in {"overflow", "divide by zero", "range"}

LEMMA AgreeOnValue ==
  ASSUME NEW r, NEW v \in Base(r), NEW x, x = Wrap(Width(r), v)
  PROVE  Agrees(r, Computes(x), Scalars!Value(v))
  BY DEF Agrees, Computes, Scalars!Value

LEMMA AgreeOnCheck ==
  ASSUME NEW r, NEW check \in {"overflow", "divide by zero", "range"}
  PROVE  Agrees(r, Raises(check), Scalars!Fails(check))
  BY DEF Agrees, Raises, Scalars!Fails

(* The last value is a, the right operand b.                               *)
LEMMA ModularBinary ==
  ASSUME NEW r, WellFormedRoot(r), r.kind = "modular", NEW a \in Base(r), word = Wrap(Width(r), a),
         NEW e \in Binaries(r), NEW o \in Binary(r, e)
  PROVE  Agrees(r, o, Scalars!Binary(r, e.op, a, Read(r, e.right)))
<1> DEFINE m == r.modulus
           w == Width(r)
<1>1. /\ m \in Nat \ {0} /\ Modular(r) /\ Base(r) = 0..(m - 1) /\ UnsignedOrder(r)
      /\ w \in Nat
  BY RootFacts
<1>2. /\ e.op \in {"+", "-", "*", "/"} \cup BitOps /\ e.right \in Operands(r)
      /\ ~(e.op = "/" /\ e.constant /\ e.right = 0)
  BY DEF Binaries, BinaryOps, BitOps
<1>3. PICK b \in Base(r) : b = Read(r, e.right)
  BY <1>2, OperandValue
<1>4. word = a /\ e.right = b
  BY <1>1, <1>2, <1>3, OperandValue, ReadValue
<1>5. \A v : Scalars!InBase(r, v) = Scalars!Value(v % m)
  BY DEF Scalars!InBase
<1>6. CASE e.op = "/"
  <2>1. Binary(r, e) = Divide(r, e)
    BY <1>6 DEF Binary
  <2>2. CASE b = 0
    <3>1. DivisionCheck(r, e)
      BY <1>2, <1>4, <1>6, <2>2 DEF DivisionCheck
    <3>2. o = Raises("divide by zero")
      BY <1>4, <2>1, <2>2, <3>1 DEF Divide
    <3>3. Scalars!Binary(r, e.op, a, b) = Scalars!Fails("divide by zero")
      BY <1>6, <2>2 DEF Scalars!Binary
    <3>4. QED
      BY <1>3, <3>2, <3>3, AgreeOnCheck
  <2>3. CASE b # 0
    <3>1. o = Computes(a \div b)
      BY <1>1, <1>4, <2>1, <2>3 DEF Divide, DivideUnsigned
    <3>2. Scalars!Binary(r, e.op, a, b) = Scalars!Value(Quotient(a, b) % m)
      BY <1>5, <1>6, <2>3, AdaSame DEF Scalars!Binary, Arith
    <3>3. a \in Nat /\ b \in Nat \ {0} /\ a \in 0..(m - 1)
      BY <1>1, <2>3
    <3>4. PICK q \in 0..a : q = a \div b /\ Quotient(a, b) = q
      BY <3>3, QuotientNat
    <3>5. q \in 0..(m - 1)
      <4>1. \A i \in Nat \ {0} : \A n \in 0..(i - 1) : \A d \in 0..n : d \in 0..(i - 1)
        OBVIOUS
      <4>2. QED
        BY <1>1, <3>3, <4>1
    <3>6. q % m = q
      BY <1>1, <3>5, ModOnce
    <3>7. q \in Base(r) /\ Wrap(w, q) = q
      BY <1>1, <3>5, ReadValue
    <3>8. QED
      BY <1>3, <3>1, <3>2, <3>4, <3>6, <3>7, AgreeOnValue
  <2>4. QED
    BY <2>2, <2>3
<1>7. CASE e.op # "/"
  <2>1. e.op \in {"+", "-", "*"} \cup BitOps
    BY <1>2, <1>7
  <2>2. o = Computes(Unchecked(r, e.op, a, b))
    BY <1>4, <1>7 DEF Binary, OverflowCheck
  <2>3. PICK v \in Base(r) : v = ModularResult(r, e.op, a, b) /\ Unchecked(r, e.op, a, b) = v
    BY <2>1, UncheckedModular
  <2>4. Scalars!Binary(r, e.op, a, b) = Scalars!Value(v)
    <3>1. CASE e.op \in BitOps
      <4>1. Scalars!Binary(r, e.op, a, b) = Scalars!InBase(r, Bitwise(w, e.op, a, b))
        BY <3>1, AdaSame DEF Scalars!Binary, BitOps, Width
      <4>2. QED
        BY <1>5, <2>3, <3>1, <4>1 DEF ModularResult
    <3>2. CASE e.op \notin BitOps
      <4>1. Scalars!Binary(r, e.op, a, b) = Scalars!InBase(r, Arith(e.op, a, b))
        BY <1>7, <3>2, AdaSame DEF Scalars!Binary, BitOps
      <4>2. QED
        BY <1>5, <2>3, <3>2, <4>1 DEF ModularResult
    <3>3. QED
      BY <3>1, <3>2
  <2>5. Wrap(w, v) = v
    BY <1>1, ReadValue
  <2>6. QED
    BY <1>3, <2>2, <2>3, <2>4, <2>5, AgreeOnValue
<1>8. QED
  BY <1>6, <1>7

LEMMA SignedBinary ==
  ASSUME NEW r, WellFormedRoot(r), r.kind = "signed", NEW a \in Base(r), word = Wrap(Width(r), a),
         NEW e \in Binaries(r), NEW o \in Binary(r, e)
  PROVE  Agrees(r, o, Scalars!Binary(r, e.op, a, Read(r, e.right)))
<1> DEFINE w == Width(r)
<1>1. /\ w \in Nat \ {0} /\ w \in Nat /\ ~Modular(r) /\ Base(r) = SignedRange(w)
      /\ ~UnsignedOrder(r) /\ Base(r) \subseteq Int
  BY RootFacts
<1>2. /\ e.op \in {"+", "-", "*", "/"} /\ e.right \in Operands(r)
      /\ ~(e.op = "/" /\ e.constant /\ e.right = 0)
  BY DEF Binaries, BinaryOps
<1>3. PICK b \in Base(r) : b = Read(r, e.right) /\ e.right = Wrap(w, b)
  BY <1>2, OperandValue
<1>4. /\ AsSigned(w, word) = a /\ AsSigned(w, e.right) = b
      /\ a \in SignedRange(w) /\ b \in SignedRange(w) /\ a \in Int /\ b \in Int
  BY <1>1, <1>3, ReadValue
<1>5. \A v : Scalars!InBase(r, v) = IF v \in SignedRange(w) THEN Scalars!Value(v)
                                    ELSE Scalars!Fails("overflow")
  BY <1>1, AdaSame DEF Scalars!InBase
<1>6. CASE e.op = "/"
  <2>1. Binary(r, e) = Divide(r, e)
    BY <1>6 DEF Binary
  <2>2. e.right = 0 <=> b = 0
    BY <1>1, <1>3, <1>4, SignedEnds
  <2>3. CASE b = 0
    <3>1. DivisionCheck(r, e)
      BY <1>2, <1>6, <2>2, <2>3 DEF DivisionCheck
    <3>2. o = Raises("divide by zero")
      BY <2>1, <2>2, <2>3, <3>1 DEF Divide
    <3>3. Scalars!Binary(r, e.op, a, b) = Scalars!Fails("divide by zero")
      BY <1>6, <2>3 DEF Scalars!Binary
    <3>4. QED
      BY <1>3, <3>2, <3>3, AgreeOnCheck
  <2>4. CASE b # 0
    <3>1. PICK M \in Nat \ {0} : M = 2^(w - 1)
      BY <1>1, HalfPower
    <3>2. a \in (-M)..(M - 1) /\ b \in (-M)..(M - 1) /\ SignedRange(w) = (-M)..(M - 1)
      BY <1>4, <3>1 DEF SignedRange
    <3>3. /\ Quotient(a, b) \in Int
          /\ Quotient(a, b) \in SignedRange(w) <=> ~(a = -M /\ b = -1)
      BY <1>4, <2>4, <3>2, QuotientSize
    <3>4. /\ word = MinWord(w) <=> a = -M
          /\ e.right = AllOnes(w) <=> b = -1
      BY <1>1, <1>3, <1>4, <3>1, SignedEnds
    <3>5. Scalars!Binary(r, e.op, a, b) = Scalars!InBase(r, Quotient(a, b))
      BY <1>6, <2>4, AdaSame DEF Scalars!Binary, Arith
    <3>6. CASE a = -M /\ b = -1
      <4>1. DivisionCheck(r, e)
        BY <1>1, <3>4, <3>6 DEF DivisionCheck
      <4>2. o = Raises("overflow")
        BY <1>1, <2>1, <2>2, <2>4, <3>4, <3>6, <4>1 DEF Divide
      <4>3. Scalars!Binary(r, e.op, a, b) = Scalars!Fails("overflow")
        BY <1>5, <3>3, <3>5, <3>6
      <4>4. QED
        BY <1>3, <4>2, <4>3, AgreeOnCheck
    <3>7. CASE ~(a = -M /\ b = -1)
      <4>1. ~(word = MinWord(w) /\ e.right = AllOnes(w)) /\ e.right # 0
        BY <2>2, <2>4, <3>4, <3>7
      <4>2. Divide(r, e) = DivideSigned(w, word, e.right)
        BY <1>1, <4>1 DEF Divide
      <4>3. o = Computes(Wrap(w, Quotient(a, b)))
        BY <1>4, <2>1, <4>1, <4>2 DEF DivideSigned
      <4>4. Scalars!Binary(r, e.op, a, b) = Scalars!Value(Quotient(a, b))
        BY <1>5, <3>3, <3>5, <3>7
      <4>5. Quotient(a, b) \in Base(r)
        BY <1>1, <3>3, <3>7
      <4>6. QED
        BY <1>3, <4>3, <4>4, <4>5, AgreeOnValue
    <3>8. QED
      BY <3>6, <3>7
  <2>5. QED
    BY <2>3, <2>4
<1>7. CASE e.op # "/"
  <2>1. e.op \in {"+", "-", "*"} /\ OverflowCheck(r, e.op)
    BY <1>2, <1>7 DEF OverflowCheck
  <2>2. PICK n \in Int : n = Arith(e.op, a, b)
    BY <1>1, <1>4, <2>1, PlainExact
  <2>3. Scalars!Binary(r, e.op, a, b) = Scalars!InBase(r, n)
    BY <1>7, <2>1, <2>2, AdaSame DEF Scalars!Binary
  <2>4. CASE n \in SignedRange(w)
    <3>1. o = Computes(Wrap(w, n))
      <4>1. CASE FoldsBinary(r, e)
        <5>1. o = Computes(Plain(w, e.op, word, e.right))
          BY <1>1, <1>7, <4>1 DEF Binary, Unchecked
        <5>2. Plain(w, e.op, Wrap(w, a), Wrap(w, b)) = Wrap(w, Arith(e.op, a, b))
          <6>1. \A op \in {"+", "-", "*"} :
                   Plain(w, op, Wrap(w, a), Wrap(w, b)) = Wrap(w, Arith(op, a, b))
            <7>1. w \in Nat /\ a \in Int /\ b \in Int
              BY <1>1, <1>4
            <7>2. QED
              BY <7>1, PlainExact
          <6>2. QED
            BY <2>1, <6>1
        <5>3. QED
          BY <1>3, <2>2, <5>1, <5>2
      <4>2. CASE ~FoldsBinary(r, e)
        <5>1. o = Checked(w, e.op, word, e.right)
          BY <1>7, <2>1, <4>2 DEF Binary
        <5>2. QED
          BY <1>1, <1>3, <1>4, <2>2, <2>4, <5>1, CheckedExact
      <4>3. QED
        BY <4>1, <4>2
    <3>2. Scalars!Binary(r, e.op, a, b) = Scalars!Value(n)
      BY <1>5, <2>3, <2>4
    <3>3. QED
      BY <1>1, <1>3, <2>4, <3>1, <3>2, AgreeOnValue
  <2>5. CASE n \notin SignedRange(w)
    <3>1. ~FoldsBinary(r, e)
      BY <1>4, <2>2, <2>5 DEF FoldsBinary
    <3>2. o = Checked(w, e.op, word, e.right)
      BY <1>7, <2>1, <3>1 DEF Binary
    <3>3. o = Raises("overflow")
      <4>1. Checked(w, e.op, Wrap(w, a), Wrap(w, b)) = Raises("overflow")
        BY <1>1, <1>4, <2>2, <2>5, CheckedExact
      <4>2. QED
        BY <1>3, <3>2, <4>1
    <3>4. Scalars!Binary(r, e.op, a, b) = Scalars!Fails("overflow")
      BY <1>5, <2>3, <2>5
    <3>5. QED
      BY <1>3, <3>3, <3>4, AgreeOnCheck
  <2>6. QED
    BY <2>4, <2>5
<1>8. QED
  BY <1>6, <1>7

(* The logical operators of Boolean.                                       *)
LEMMA BooleanFacts ==
  /\ WellFormedRoot(Boolean.root) /\ Width(Boolean.root) = 1
  /\ Boolean \in Types /\ Boolean.own = "none" /\ Boolean.root.kind = "enum"
  /\ Base(Boolean.root) = {0, 1} /\ UnsignedOrder(Boolean.root)
  /\ Boolean.root.hi = 1 /\ ~Modular(Boolean.root)
<1> DEFINE r == Boolean.root
<1>1. /\ Boolean \in Types /\ Boolean.own = "none" /\ r.kind = "enum" /\ r.width = 1
      /\ r.lo = 0 /\ r.hi = 1
  BY BooleanAssumption
<1>2. WellFormedRoot(r)
  BY <1>1, TypeFacts
<1>3. Base(r) = 0..1 /\ ~Modular(r)
  BY <1>1, <1>2, RootFacts
<1>4. QED
  BY <1>1, <1>2, <1>3 DEF UnsignedOrder, Width

LEMMA BooleanBinary ==
  ASSUME NEW r, WellFormedRoot(r), r.kind = "enum", NEW a \in Base(r), word = Wrap(Width(r), a),
         NEW e \in Binaries(r), NEW o \in Binary(r, e)
  PROVE  Agrees(r, o, Scalars!Binary(r, e.op, a, Read(r, e.right)))
<1>1. e.op \in BitOps /\ e.right \in Operands(r) /\ r = Boolean.root
  BY DEF Binaries, BinaryOps, BitOps
<1>2. /\ Width(r) = 1 /\ Base(r) = {0, 1} /\ UnsignedOrder(r) /\ ~Modular(r)
  BY <1>1, BooleanFacts
<1>3. PICK b \in Base(r) : b = Read(r, e.right) /\ e.right = Wrap(Width(r), b)
  BY <1>1, OperandValue
<1>4. word = a /\ e.right = b
  BY <1>2, <1>3, ReadValue
<1>5. PICK v : v = Bitwise(1, e.op, a, b)
  OBVIOUS
<1>6. v \in Base(r)
  <2>1. v \in Word(1)
    BY <1>1, <1>2, <1>5, BitwiseBits
  <2>2. QED
    BY <1>2, <2>1, OneBit
<1>7. o = Computes(v)
  <2>1. o = Computes(Unchecked(r, e.op, word, e.right))
    BY <1>1 DEF Binary, OverflowCheck, BitOps
  <2>2. Unchecked(r, e.op, a, b) = v
    BY <1>1, <1>2, <1>5 DEF Unchecked, Plain, BitOps
  <2>3. QED
    BY <1>4, <2>1, <2>2
<1>8. Scalars!Binary(r, e.op, a, b) = Scalars!Value(v)
  <2>1. Scalars!Binary(r, e.op, a, b) = Scalars!InBase(r, Bitwise(r.width, e.op, a, b))
    BY <1>1, AdaSame DEF Scalars!Binary, BitOps
  <2>2. r.width = 1
    BY <1>2 DEF Width
  <2>3. QED
    BY <1>5, <2>1, <2>2 DEF Scalars!InBase
<1>9. v = Wrap(Width(r), v)
  BY <1>2, <1>6, ReadValue
<1>10. QED
  BY <1>3, <1>6, <1>7, <1>8, <1>9, AgreeOnValue

(* Every binary operator of every type.                                    *)
LEMMA BinaryAgrees ==
  ASSUME NEW r, WellFormedRoot(r), NEW a \in Base(r), word = Wrap(Width(r), a),
         NEW e \in Binaries(r), NEW o \in Binary(r, e)
  PROVE  Agrees(r, o, Scalars!Binary(r, e.op, a, Read(r, e.right)))
<1>1. r.kind \in {"signed", "modular", "enum"}
  BY RootFacts DEF Kinds
<1>2. QED
  BY <1>1, ModularBinary, SignedBinary, BooleanBinary

LEMMA ModularUnary ==
  ASSUME NEW r, WellFormedRoot(r), r.kind = "modular", NEW a \in Base(r), word = Wrap(Width(r), a),
         NEW e, e.op \in UnaryOps(r)
  PROVE  Agrees(r, Unary(r, e), Scalars!Unary(r, e.op, a))
<1> DEFINE w == Width(r)
<1>1. PICK m \in Nat \ {0} : m = r.modulus /\ m \in 1..(2^w) /\ Base(r) = 0..(m - 1)
  BY RootFacts
<1>2. Modular(r) /\ UnsignedOrder(r) /\ w \in Nat /\ 2^w \in Nat \ {0}
  BY RootFacts, Subsets
<1>3. a \in 0..(m - 1) /\ word = a /\ e.op \in {"+", "-", "abs", "not"}
  BY <1>1, <1>2, ReadValue DEF UnaryOps
<1>4. \A v : Scalars!InBase(r, v) = Scalars!Value(v % m)
  BY <1>1 DEF Scalars!InBase
<1>5. \A v \in 0..(m - 1) : v \in Base(r) /\ Wrap(w, v) = v
  BY <1>1, <1>2, ReadValue
<1>6. CASE e.op = "+"
  <2>1. Unary(r, e) = Computes(a) /\ Scalars!Unary(r, e.op, a) = Scalars!Value(a)
    BY <1>3, <1>6 DEF Unary, Scalars!Unary
  <2>2. QED
    BY <1>3, <1>5, <2>1, AgreeOnValue
<1>7. CASE e.op = "-"
  <2>1. PICK v \in 0..(m - 1) : v = (-a) % m /\ v = (0 - a) % m /\ v = IF a = 0 THEN 0 ELSE m - a
    <3>1. CASE a = 0
      <4>1. a \in Int /\ a + a = 0 /\ 0 - a = a
        BY <3>1
      <4>2. \A i, j \in Int : i + j = 0 => -i = j
        OBVIOUS
      <4>3. -a = a
        BY <4>1, <4>2
      <4>4. a % m = a
        BY <1>3, ModOnce
      <4>5. QED
        BY <1>3, <3>1, <4>1, <4>3, <4>4
    <3>2. CASE a # 0
      <4>1. -a \in (-m)..(-1) /\ 0 - a = -a /\ -a + m = m - a
        BY <1>3, <3>2
      <4>2. (-a) % m = m - a /\ m - a \in 0..(m - 1)
        BY <4>1, ModOnce
      <4>3. QED
        BY <3>2, <4>1, <4>2
    <3>3. QED
      BY <3>1, <3>2
  <2>2. Scalars!Unary(r, e.op, a) = Scalars!Value(v)
    BY <1>4, <1>7, <2>1 DEF Scalars!Unary
  <2>3. Unary(r, e) = Negated(r, e) /\ ~OverflowCheck(r, e.op)
    BY <1>7 DEF Unary, OverflowCheck
  <2>4. Negated(r, e) = Computes(v)
    <3>1. CASE FullWidthModulus(r)
      <4>1. Negated(r, e) = Computes(Plain(w, "-", 0, a)) /\ m = 2^w
        BY <1>1, <1>3, <2>3, <3>1 DEF Negated, FullWidthModulus
      <4>2. Plain(w, "-", 0, a) = (0 - a) % m
        BY <4>1 DEF Plain, Arith, Wrap
      <4>3. QED
        BY <2>1, <4>1, <4>2
    <3>2. CASE ~FullWidthModulus(r)
      BY <1>1, <1>2, <1>3, <2>1, <2>3, <3>2 DEF Negated
    <3>3. QED
      BY <3>1, <3>2
  <2>5. QED
    BY <1>5, <2>2, <2>3, <2>4, AgreeOnValue
<1>8. CASE e.op = "abs"
  <2>1. Unary(r, e) = Computes(a)
    BY <1>2, <1>3, <1>8 DEF Unary
  <2>2. Scalars!Unary(r, e.op, a) = Scalars!Value(Abs(a) % m)
    BY <1>4, <1>8, AdaSame DEF Scalars!Unary
  <2>3. Abs(a) = a
    BY <1>3 DEF Abs
  <2>4. a % m = a
    BY <1>3, ModOnce
  <2>5. QED
    BY <2>1, <2>2, <2>3, <2>4, AgreeOnValue, <1>3
<1>9. CASE e.op = "not"
  <2>1. Unary(r, e) = Computes(Wrap(w, Wrap(w, m) - 1 - a))
    BY <1>1, <1>2, <1>3, <1>9 DEF Unary
  <2>2. PICK v \in 0..(m - 1) : v = m - 1 - a
    <3>1. m - 1 - a \in 0..(m - 1)
      BY <1>3
    <3>2. QED
      BY <3>1
  <2>3. Scalars!Unary(r, e.op, a) = Scalars!Value(v)
    <3>1. r.hi = m - 1
      BY <1>1 DEF WellFormedRoot
    <3>2. Scalars!Unary(r, e.op, a) = Scalars!Value(r.hi - a)
      BY <1>9 DEF Scalars!Unary
    <3>3. QED
      BY <2>2, <3>1, <3>2
  <2>4. Wrap(w, Wrap(w, m) - 1 - a) = v
    <3>1. CASE m = 2^w
      <4>1. Wrap(w, m) = 0
        <5>1. m \in m..(2 * m - 1) /\ m - m = 0
          OBVIOUS
        <5>2. m % m = m - m
          BY <5>1, ModOnce
        <5>3. QED
          BY <3>1, <5>1, <5>2 DEF Wrap
      <4>2. 0 - 1 - a \in (-m)..(-1) /\ 0 - 1 - a + m = v
        BY <1>3, <2>2
      <4>3. (0 - 1 - a) % m = v
        BY <4>2, ModOnce
      <4>4. QED
        BY <3>1, <4>1, <4>3 DEF Wrap
    <3>2. CASE m # 2^w
      <4>1. m \in Word(w)
        BY <1>1, <1>2, <3>2 DEF Word
      <4>2. Wrap(w, m) = m
        BY <1>2, <4>1, WrapSame
      <4>3. QED
        BY <1>5, <2>2, <4>2
    <3>3. QED
      BY <3>1, <3>2
  <2>5. QED
    BY <1>5, <2>1, <2>3, <2>4, AgreeOnValue
<1>10. QED
  BY <1>3, <1>6, <1>7, <1>8, <1>9

(* A checked negation, folded or not.                                      *)
LEMMA NegatedSigned ==
  ASSUME NEW r, WellFormedRoot(r), r.kind = "signed", NEW a \in Base(r), word = Wrap(Width(r), a),
         NEW e, e.op \in {"-", "abs"}
  PROVE  Negated(r, e) = IF -a \in SignedRange(Width(r)) THEN Computes(Wrap(Width(r), -a))
                         ELSE Raises("overflow")
<1> DEFINE w == Width(r)
<1>1. /\ w \in Nat \ {0} /\ w \in Nat /\ ~Modular(r) /\ a \in SignedRange(w)
      /\ AsSigned(w, word) = a /\ a \in Int
  BY RootFacts, ReadValue
<1>2. PICK M \in Nat \ {0} : M = 2^(w - 1)
  BY <1>1, HalfPower
<1>3. SignedRange(w) = (-M)..(M - 1) /\ 0 \in SignedRange(w)
  BY <1>2 DEF SignedRange
<1>4. PICK n \in Int : n = -a /\ n = 0 - a
  BY <1>1
<1>5. Wrap(w, 0) = 0
  <2>1. 0 \in Word(w)
    <3>1. 2^w \in Nat \ {0}
      BY <1>1, Subsets
    <3>2. QED
      BY <3>1 DEF Word
  <2>2. QED
    BY <1>1, <2>1, WrapSame
<1>6. OverflowCheck(r, e.op)
  BY DEF OverflowCheck
<1>7. CASE FoldsUnary(r, e)
  <2>1. Negated(r, e) = Computes(Plain(w, "-", 0, word))
    BY <1>1, <1>7 DEF Negated
  <2>2. Plain(w, "-", Wrap(w, 0), Wrap(w, a)) = Wrap(w, Arith("-", 0, a))
    BY <1>1, PlainExact
  <2>3. Arith("-", 0, a) = n
    BY <1>4 DEF Arith
  <2>4. -a \in SignedRange(w)
    <3>1. e.op # "+" /\ (a >= 0 \/ -a \in SignedRange(w))
      BY <1>1, <1>7 DEF FoldsUnary
    <3>2. CASE a >= 0
      BY <1>1, <1>3, <3>2
    <3>3. QED
      BY <3>1, <3>2
  <2>5. QED
    BY <1>4, <1>5, <2>1, <2>2, <2>3, <2>4
<1>8. CASE ~FoldsUnary(r, e)
  <2>1. Negated(r, e) = Checked(w, "-", 0, word)
    BY <1>6, <1>8 DEF Negated
  <2>2. Checked(w, "-", Wrap(w, 0), Wrap(w, a))
          = IF Arith("-", 0, a) \in SignedRange(w) THEN Computes(Wrap(w, Arith("-", 0, a)))
            ELSE Raises("overflow")
    BY <1>1, <1>3, CheckedExact
  <2>3. Arith("-", 0, a) = n
    BY <1>4 DEF Arith
  <2>4. QED
    BY <1>4, <1>5, <2>1, <2>2, <2>3
<1>9. QED
  BY <1>7, <1>8

LEMMA SignedUnary ==
  ASSUME NEW r, WellFormedRoot(r), r.kind = "signed", NEW a \in Base(r), word = Wrap(Width(r), a),
         NEW e, e.op \in UnaryOps(r)
  PROVE  Agrees(r, Unary(r, e), Scalars!Unary(r, e.op, a))
<1> DEFINE w == Width(r)
<1>1. /\ w \in Nat \ {0} /\ ~Modular(r) /\ Base(r) = SignedRange(w) /\ Base(r) \subseteq Int
      /\ a \in Int /\ a \in SignedRange(w) /\ AsSigned(w, word) = a
      /\ e.op \in {"+", "-", "abs"}
  BY RootFacts, ReadValue DEF UnaryOps
<1>2. \A v : Scalars!InBase(r, v) = IF v \in SignedRange(w) THEN Scalars!Value(v)
                                    ELSE Scalars!Fails("overflow")
  BY <1>1, AdaSame DEF Scalars!InBase
<1>3. CASE e.op = "+"
  <2>1. Unary(r, e) = Computes(word) /\ Scalars!Unary(r, e.op, a) = Scalars!Value(a)
    BY <1>3 DEF Unary, Scalars!Unary
  <2>2. QED
    BY <2>1, AgreeOnValue
<1>4. ASSUME e.op \in {"-", "abs"}
      PROVE  Agrees(r, Negated(r, e), Scalars!InBase(r, -a))
  <2>1. CASE -a \in SignedRange(w)
    <3>1. Negated(r, e) = Computes(Wrap(w, -a)) /\ Scalars!InBase(r, -a) = Scalars!Value(-a)
      BY <1>2, <1>4, <2>1, NegatedSigned
    <3>2. QED
      BY <1>1, <2>1, <3>1, AgreeOnValue
  <2>2. CASE -a \notin SignedRange(w)
    <3>1. /\ Negated(r, e) = Raises("overflow")
          /\ Scalars!InBase(r, -a) = Scalars!Fails("overflow")
      BY <1>2, <1>4, <2>2, NegatedSigned
    <3>2. QED
      BY <3>1, AgreeOnCheck
  <2>3. QED
    BY <2>1, <2>2
<1>5. CASE e.op = "-"
  <2>1. Unary(r, e) = Negated(r, e) /\ Scalars!Unary(r, e.op, a) = Scalars!InBase(r, -a)
    BY <1>5 DEF Unary, Scalars!Unary
  <2>2. QED
    BY <1>4, <1>5, <2>1
<1>6. CASE e.op = "abs"
  <2>1. Scalars!Unary(r, e.op, a) = Scalars!InBase(r, Abs(a))
    BY <1>6, AdaSame DEF Scalars!Unary
  <2>2. Unary(r, e) = IF Negated(r, e).raised # "no" THEN Negated(r, e)
                      ELSE IF a < 0 THEN Negated(r, e) ELSE Computes(word)
    BY <1>1, <1>6 DEF Unary
  <2>3. CASE a < 0
    <3>1. Abs(a) = -a /\ Unary(r, e) = Negated(r, e)
      BY <2>2, <2>3 DEF Abs
    <3>2. QED
      BY <1>4, <1>6, <2>1, <3>1
  <2>4. CASE ~(a < 0)
    <3>1. -a \in SignedRange(w)
      <4>1. 2^(w - 1) \in Nat \ {0}
        BY <1>1, HalfPower
      <4>2. QED
        BY <1>1, <2>4, <4>1 DEF SignedRange
    <3>2. Negated(r, e) = Computes(Wrap(w, -a))
      BY <1>6, <3>1, NegatedSigned
    <3>3. Unary(r, e) = Computes(word) /\ Abs(a) = a
      BY <2>2, <2>4, <3>2 DEF Computes, Abs
    <3>4. Scalars!Unary(r, e.op, a) = Scalars!Value(a)
      BY <1>1, <1>2, <2>1, <3>3
    <3>5. QED
      BY <3>3, <3>4, AgreeOnValue
  <2>5. QED
    BY <2>3, <2>4
<1>7. QED
  BY <1>1, <1>3, <1>5, <1>6

LEMMA BooleanUnary ==
  ASSUME NEW r, WellFormedRoot(r), r.kind = "enum", NEW a \in Base(r), word = Wrap(Width(r), a),
         NEW e, e.op \in UnaryOps(r)
  PROVE  Agrees(r, Unary(r, e), Scalars!Unary(r, e.op, a))
<1>1. e.op = "not" /\ r = Boolean.root
  BY DEF UnaryOps
<1>2. /\ Width(r) = 1 /\ Base(r) = {0, 1} /\ UnsignedOrder(r) /\ ~Modular(r) /\ r.hi = 1
  BY <1>1, BooleanFacts
<1>3. word = a /\ a \in Word(1)
  BY <1>2, ReadValue, OneBit
<1>4. PICK v \in Base(r) : v = 1 - a
  BY <1>2
<1>5. Bitwise(1, "xor", a, 1) = v
  BY <1>3, <1>4, OneBit
<1>6. Unary(r, e) = Computes(v)
  BY <1>1, <1>2, <1>3, <1>5 DEF Unary
<1>7. Scalars!Unary(r, e.op, a) = Scalars!Value(v)
  BY <1>1, <1>2, <1>4 DEF Scalars!Unary
<1>8. v = Wrap(Width(r), v)
  BY <1>2, ReadValue
<1>9. QED
  BY <1>6, <1>7, <1>8, AgreeOnValue

LEMMA UnaryAgrees ==
  ASSUME NEW r, WellFormedRoot(r), NEW a \in Base(r), word = Wrap(Width(r), a),
         NEW e, e.op \in UnaryOps(r)
  PROVE  Agrees(r, Unary(r, e), Scalars!Unary(r, e.op, a))
<1>1. r.kind \in {"signed", "modular", "enum"}
  BY RootFacts DEF Kinds
<1>2. QED
  BY <1>1, ModularUnary, SignedUnary, BooleanUnary

(* The predicate chosen by the order of the type compares the values.      *)
LEMMA CompareAgrees ==
  ASSUME NEW r, NEW op, NEW x, NEW y
  PROVE  Agrees(Boolean.root, CompareWords(r, op, x, y),
                Scalars!Value(IF Scalars!Holds(op, Read(r, x), Read(r, y)) THEN 1 ELSE 0))
<1> DEFINE a == Read(r, x)
           b == Read(r, y)
<1> HIDE DEF a, b
<1>1. Predicate(op, a, b) = Scalars!Holds(op, a, b)
  BY DEF Predicate, Scalars!Holds
<1>2. PICK v : v = IF Scalars!Holds(op, a, b) THEN 1 ELSE 0
  OBVIOUS
<1>3. v \in Base(Boolean.root) /\ v = Wrap(Width(Boolean.root), v)
  <2>1. v \in {0, 1}
    BY <1>2
  <2>2. QED
    BY <2>1, BooleanFacts, ReadValue
<1>4. CompareWords(r, op, x, y) = Computes(v)
  BY <1>1, <1>2 DEF CompareWords, a, b
<1>5. Agrees(Boolean.root, Computes(v), Scalars!Value(v))
  BY <1>3, AgreeOnValue
<1>6. QED
  BY <1>2, <1>4, <1>5 DEF a, b

-----------------------------------------------------------------------------
(* Conversions *)

(* The numbers the words of a type can stand for.                          *)
Machine(r) == IF Modular(r) THEN Word(Width(r)) ELSE SignedRange(Width(r))

LEMMA MachineFacts ==
  ASSUME NEW r, WellFormedRoot(r), r.kind # "enum"
  PROVE  /\ Base(r) \subseteq Machine(r) /\ Machine(r) \subseteq Int
         /\ Modular(r) <=> r.kind = "modular"
         /\ Modular(r) <=> UnsignedOrder(r)
         /\ Width(r) \in Nat \ {0}
         /\ \A n \in Machine(r) :
              IF Modular(r) THEN Wrap(Width(r), n) = n
              ELSE AsSigned(Width(r), Wrap(Width(r), n)) = n
<1> DEFINE w == Width(r)
<1>1. w \in Nat \ {0} /\ w \in Nat /\ r.kind \in {"signed", "modular"}
  BY RootFacts DEF Kinds
<1>2. 2^w \in Nat \ {0} /\ 2^(w - 1) \in Nat \ {0}
  BY <1>1, Subsets, HalfPower
<1>3. Machine(r) \subseteq Int
  BY <1>2 DEF Machine, Word, SignedRange
<1>4. \A n \in Word(w) : Wrap(w, n) = n
  BY <1>1, WrapSame
<1>5. \A n \in SignedRange(w) : AsSigned(w, Wrap(w, n)) = n
  BY <1>1, ReadSigned
<1>6. CASE r.kind = "modular"
  BY <1>1, <1>3, <1>4, <1>6, RootFacts DEF Machine
<1>7. CASE r.kind = "signed"
  BY <1>1, <1>3, <1>5, <1>7, RootFacts DEF Machine
<1>8. QED
  BY <1>1, <1>6, <1>7

(* A check against a descriptor tells the numbers apart.                   *)
LEMMA DescriptorReads ==
  ASSUME NEW r, WellFormedRoot(r), r.kind # "enum",
         NEW n \in Machine(r), NEW bottom \in Machine(r), NEW top \in Machine(r)
  PROVE  InDescriptor(r, Wrap(Width(r), n), <<bottom, top>>) <=> n \in bottom..top
<1> DEFINE w == Width(r)
<1>1. n \in Int /\ bottom \in Int /\ top \in Int
  BY MachineFacts
<1>2. <<bottom, top>>[1] = bottom /\ <<bottom, top>>[2] = top
  OBVIOUS
<1>3. n \in bottom..top <=> (bottom <= n /\ n <= top)
  BY <1>1
<1>4. CASE Modular(r)
  <2>1. Wrap(w, n) = n /\ Wrap(w, bottom) = bottom /\ Wrap(w, top) = top
    BY <1>4, MachineFacts
  <2>2. QED
    BY <1>2, <1>3, <1>4, <2>1 DEF InDescriptor
<1>5. CASE ~Modular(r)
  <2>1. /\ AsSigned(w, Wrap(w, n)) = n /\ AsSigned(w, Wrap(w, bottom)) = bottom
        /\ AsSigned(w, Wrap(w, top)) = top
    BY <1>5, MachineFacts
  <2>2. QED
    BY <1>2, <1>3, <1>5, <2>1 DEF InDescriptor
<1>6. QED
  BY <1>4, <1>5

(* Clamping changes no verdict.                                            *)
LEMMA ClampSound ==
  ASSUME NEW r, WellFormedRoot(r), r.kind # "enum",
         NEW n \in Machine(r), NEW bottom \in Int, NEW top \in Int
  PROVE  InDescriptor(r, Wrap(Width(r), n), Clamp(r, bottom, top)) <=> n \in bottom..top
<1> DEFINE w == Width(r)
<1>1. PICK min \in Int, max \in Int :
        /\ min = IF Modular(r) THEN 0 ELSE -MinWord(w)
        /\ max = IF Modular(r) THEN AllOnes(w) ELSE MinWord(w) - 1
        /\ min < max /\ Machine(r) = min..max
  <2>1. w \in Nat \ {0}
    BY MachineFacts
  <2>2. PICK M \in Nat \ {0} : M = 2^(w - 1) /\ 2^w = 2 * M
    BY <2>1, HalfPower
  <2>3. MinWord(w) = M /\ AllOnes(w) = 2 * M - 1
    BY <2>2 DEF MinWord, AllOnes
  <2>4. CASE Modular(r)
    <3>1. Machine(r) = 0..(2 * M - 1) /\ 0 < 2 * M - 1 /\ 0 \in Int /\ 2 * M - 1 \in Int
      BY <2>2, <2>4 DEF Machine, Word
    <3>2. QED
      BY <2>3, <2>4, <3>1
  <2>5. CASE ~Modular(r)
    <3>1. Machine(r) = (-M)..(M - 1) /\ -M < M - 1 /\ -M \in Int /\ M - 1 \in Int
      BY <2>2, <2>5 DEF Machine, SignedRange
    <3>2. QED
      BY <2>3, <2>5, <3>1
  <2>6. QED
    BY <2>4, <2>5
<1>2. PICK l \in Int, h \in Int :
        l = (IF bottom < min THEN min ELSE bottom) /\ h = (IF top > max THEN max ELSE top)
  OBVIOUS
<1>3. Clamp(r, bottom, top) = IF l > h THEN <<max, min>> ELSE <<l, h>>
  BY <1>1, <1>2 DEF Clamp
<1>4. n \in min..max
  BY <1>1
<1>5. n \in bottom..top <=> n \in l..h
  BY <1>2, <1>4
<1>6. CASE l > h
  <2>1. max \in Machine(r) /\ min \in Machine(r)
    BY <1>1
  <2>2. ~(n \in max..min) /\ ~(n \in l..h)
    BY <1>1, <1>4, <1>6
  <2>3. InDescriptor(r, Wrap(w, n), <<max, min>>) <=> n \in max..min
    BY <2>1, DescriptorReads
  <2>4. QED
    BY <1>3, <1>5, <1>6, <2>2, <2>3
<1>7. CASE ~(l > h)
  <2>1. l \in Machine(r) /\ h \in Machine(r)
    BY <1>1, <1>2, <1>7
  <2>2. InDescriptor(r, Wrap(w, n), <<l, h>>) <=> n \in l..h
    BY <2>1, DescriptorReads
  <2>3. QED
    BY <1>3, <1>5, <1>7, <2>2
<1>8. QED
  BY <1>6, <1>7

(* A change of representation is the word of the same number.              *)
LEMMA ChangedWord ==
  ASSUME NEW source, WellFormedRoot(source), source.kind # "enum",
         NEW target, WellFormedRoot(target), target.kind # "enum",
         NEW a \in Base(source)
  PROVE  ChangeRepresentation(source, target, Wrap(Width(source), a)) = Wrap(Width(target), a)
<1> DEFINE ws == Width(source)
           wt == Width(target)
<1>1. /\ ws \in Nat \ {0} /\ wt \in Nat \ {0} /\ ws \in Nat /\ wt \in Nat /\ a \in Int
      /\ a \in Machine(source)
  BY MachineFacts
<1>2. CASE Modular(source)
  <2>1. Wrap(ws, a) = a
    BY <1>1, <1>2, MachineFacts
  <2>2. QED
    BY <1>2, <2>1 DEF ChangeRepresentation
<1>3. CASE ~Modular(source)
  <2>1. AsSigned(ws, Wrap(ws, a)) = a
    BY <1>1, <1>3, MachineFacts
  <2>2. CASE wt > ws
    BY <1>3, <2>1, <2>2 DEF ChangeRepresentation, SignExtend
  <2>3. CASE ~(wt > ws)
    <3>1. wt <= ws
      BY <1>1, <2>3
    <3>2. Wrap(wt, Wrap(ws, a)) = Wrap(wt, a)
      BY <1>1, <3>1, WrapWrap
    <3>3. QED
      BY <2>3, <3>2 DEF ChangeRepresentation
  <2>4. QED
    BY <2>2, <2>3
<1>4. QED
  BY <1>2, <1>3

(* A conversion that preserves every value has words for them.             *)
LEMMA PreservingFits ==
  ASSUME NEW source, WellFormedRoot(source), source.kind # "enum",
         NEW target, WellFormedRoot(target), target.kind # "enum",
         Preserving(source, target), NEW a \in Base(source)
  PROVE  a \in Machine(target)
<1> DEFINE ws == Width(source)
           wt == Width(target)
<1>1. /\ ws \in Nat \ {0} /\ wt \in Nat \ {0} /\ a \in Machine(source)
      /\ wt > ws /\ (Modular(source) \/ ~Modular(target))
  BY MachineFacts DEF Preserving
<1>2. ws <= wt /\ ws < wt
  BY <1>1
<1>3. /\ SignedRange(ws) \subseteq SignedRange(wt) /\ Word(ws) \subseteq Word(wt)
      /\ Word(ws) \subseteq SignedRange(wt)
  BY <1>1, <1>2, SignedInWider
<1>4. QED
  BY <1>1, <1>3 DEF Machine

(* What is known of a value without a check is so.                         *)
LEMMA KnownSound ==
  ASSUME type \in Types, type.root.kind # "enum", NEW a \in Values(type), a \in Base(type.root),
         word = Wrap(Width(type.root), a), NEW bottom \in Int, NEW top \in Int,
         KnownWithin(bottom, top)
  PROVE  a \in bottom..top
<1> DEFINE r == type.root
<1>1. WellFormedRoot(r) /\ type.lo \in Int /\ type.hi \in Int
  BY TypeFacts
<1>2. a \in Machine(r) /\ a \in Int
  BY <1>1, MachineFacts
<1>3. CASE def = "constant"
  <2>1. (IF Modular(r) THEN word ELSE AsSigned(Width(r), word)) = a
    BY <1>1, <1>2, MachineFacts
  <2>2. QED
    BY <1>3, <2>1 DEF KnownWithin
<1>4. CASE def # "constant"
  <2>1. type.lo \in bottom..top /\ type.hi \in bottom..top
    BY <1>4 DEF KnownWithin, Within
  <2>2. a \in type.lo..type.hi
    BY DEF Values
  <2>3. QED
    BY <1>1, <1>2, <2>1, <2>2
<1>5. QED
  BY <1>3, <1>4

LEMMA SameAgrees ==
  ASSUME FullRanges, type \in Types, NEW a \in Values(type), word = Wrap(Width(type.root), a),
         NEW target \in Types, target.root.kind # "enum", target.root = type.root
  PROVE  Agrees(target.root, ConvertSame(target), Scalars!Convert(target, a))
<1> DEFINE r == target.root
<1>1. /\ WellFormedRoot(r) /\ target.lo \in Base(r) /\ target.hi \in Base(r)
      /\ target.lo \in Int /\ target.hi \in Int /\ a \in Base(r) /\ Base(r) \subseteq Machine(r)
      /\ target.own = "none" => Values(target) = Base(r)
  BY TypeFacts, ValuesInBase, MachineFacts
<1>2. Values(target) = target.lo..target.hi
  BY DEF Values
<1>3. InDescriptor(r, word, <<target.lo, target.hi>>) <=> a \in Values(target)
  BY <1>1, <1>2, DescriptorReads
<1>4. KnownWithin(target.lo, target.hi) => a \in Values(target)
  BY <1>1, <1>2, KnownSound
<1>5. CASE a \in Values(target)
  <2>1. ConvertSame(target) = Computes(word)
    BY <1>3, <1>5 DEF ConvertSame
  <2>2. Scalars!Convert(target, a) = Scalars!Value(a)
    BY <1>5, AdaSame DEF Scalars!Convert
  <2>3. QED
    BY <1>1, <2>1, <2>2, AgreeOnValue
<1>6. CASE a \notin Values(target)
  <2>1. ConvertSame(target) = Raises("range")
    BY <1>1, <1>3, <1>4, <1>6 DEF ConvertSame
  <2>2. Scalars!Convert(target, a) = Scalars!Fails("range")
    BY <1>6, AdaSame DEF Scalars!Convert
  <2>3. QED
    BY <2>1, <2>2, AgreeOnCheck
<1>7. QED
  BY <1>5, <1>6

LEMMA ChangeAgrees ==
  ASSUME FullRanges, type \in Types, type.root.kind # "enum",
         NEW a \in Values(type), word = Wrap(Width(type.root), a),
         NEW target \in Types, target.root.kind # "enum"
  PROVE  Agrees(target.root, ConvertChange(target), Scalars!Convert(target, a))
<1> DEFINE s == type.root
           r == target.root
           q == Required(target)
           changed == ChangeRepresentation(s, r, word)
           check == ~KnownWithin(q.lo, q.hi)
           second == InDescriptor(r, changed, <<target.lo, target.hi>>)
<1>1. /\ WellFormedRoot(s) /\ a \in Base(s) /\ a \in Machine(s)
      /\ WellFormedRoot(r) /\ target.lo \in Base(r) /\ target.hi \in Base(r)
      /\ target.lo \in Int /\ target.hi \in Int /\ target.lo \in Machine(r)
      /\ target.hi \in Machine(r) /\ Base(r) \subseteq Machine(r)
      /\ Values(target) \subseteq Base(r)
  BY TypeFacts, ValuesInBase, MachineFacts
<1>2. /\ q \in Types /\ Values(target) \subseteq Values(q) /\ Values(q) \subseteq Base(r)
      /\ target.own # "dynamic" => Values(q) = Values(target)
  <2>1. CASE target.own = "dynamic"
    <3>1. q = Root(target) /\ q \in Types /\ q.root = r /\ q.own = "none"
      BY <2>1, TypeFacts DEF Required
    <3>2. Values(q) = Base(r)
      BY <3>1, ValuesInBase
    <3>3. QED
      BY <1>1, <2>1, <3>1, <3>2
  <2>2. CASE target.own # "dynamic"
    <3>1. q = target
      BY <2>2 DEF Required
    <3>2. QED
      BY <1>1, <3>1
  <2>3. QED
    BY <2>1, <2>2
<1>3. q.lo \in Int /\ q.hi \in Int /\ Values(q) = q.lo..q.hi
  BY <1>2, TypeFacts DEF Values
<1>4. ~check => a \in Values(q)
  BY <1>1, <1>3, KnownSound
<1>5. InDescriptor(s, word, Clamp(s, q.lo, q.hi)) <=> a \in Values(q)
  BY <1>1, <1>3, ClampSound
<1>6. changed = Wrap(Width(r), a)
  BY <1>1, ChangedWord
<1>7. ConvertChange(target)
        = IF check /\ ~Preserving(s, r) /\ ~(a \in Values(q)) THEN Raises("range")
          ELSE IF (target.own = "dynamic" \/ (check /\ Preserving(s, r))) /\ ~second
            THEN Raises("range")
          ELSE Computes(changed)
  BY <1>5 DEF ConvertChange
<1>8. a \in Machine(r) => (second <=> a \in Values(target))
  <2> SUFFICES ASSUME a \in Machine(r) PROVE second <=> a \in Values(target)
    OBVIOUS
  <2>1. InDescriptor(r, Wrap(Width(r), a), <<target.lo, target.hi>>) <=> a \in target.lo..target.hi
    BY <1>1, DescriptorReads
  <2>2. QED
    BY <1>6, <2>1 DEF Values
<1>9. Preserving(s, r) => a \in Machine(r)
  BY <1>1, PreservingFits
<1> HIDE DEF changed, check, second, q
<1>10. CASE a \in Values(target)
  <2>1. a \in Machine(r) /\ a \in Base(r) /\ a \in Values(q)
    BY <1>1, <1>2, <1>10
  <2>2. ConvertChange(target) = Computes(Wrap(Width(r), a))
    BY <1>6, <1>7, <1>8, <1>10, <2>1
  <2>3. Scalars!Convert(target, a) = Scalars!Value(a)
    BY <1>10, AdaSame DEF Scalars!Convert
  <2>4. QED
    BY <2>1, <2>2, <2>3, AgreeOnValue
<1>11. CASE a \notin Values(target)
  <2>1. Scalars!Convert(target, a) = Scalars!Fails("range")
    BY <1>11, AdaSame DEF Scalars!Convert
  <2>2. ConvertChange(target) = Raises("range")
    <3>1. CASE a \in Values(q)
      <4>1. target.own = "dynamic" /\ a \in Machine(r)
        BY <1>1, <1>2, <1>11, <3>1
      <4>2. QED
        BY <1>7, <1>8, <1>11, <4>1
    <3>2. CASE a \notin Values(q)
      <4>1. check
        BY <1>4, <3>2
      <4>2. CASE Preserving(s, r)
        BY <1>7, <1>8, <1>9, <1>11, <4>1, <4>2
      <4>3. CASE ~Preserving(s, r)
        BY <1>7, <3>2, <4>1, <4>3
      <4>4. QED
        BY <4>2, <4>3
    <3>3. QED
      BY <3>1, <3>2
  <2>3. QED
    BY <2>1, <2>2, AgreeOnCheck
<1>12. QED
  BY <1>10, <1>11

(* Every conversion: the value, or Constraint_Error when the target does   *)
(* not have it.                                                            *)
LEMMA ConvertAgrees ==
  ASSUME FullRanges, type \in Types, NEW a \in Values(type), word = Wrap(Width(type.root), a),
         NEW target \in Targets(type)
  PROVE  Agrees(target.root, Convert(target), Scalars!Convert(target, a))
<1>1. target \in Types /\ target.root.kind # "enum" /\ type.root.kind # "enum"
  BY DEF Targets
<1>2. CASE target = type
  <2>1. Convert(target) = Computes(word) /\ Scalars!Convert(target, a) = Scalars!Value(a)
    BY <1>2, AdaSame DEF Convert, Scalars!Convert
  <2>2. a \in Base(target.root)
    BY <1>2, ValuesInBase
  <2>3. QED
    BY <1>2, <2>1, <2>2, AgreeOnValue
<1>3. CASE target # type /\ target.root = type.root
  BY <1>1, <1>3, SameAgrees DEF Convert
<1>4. CASE target # type /\ target.root # type.root
  BY <1>1, <1>4, ChangeAgrees DEF Convert
<1>5. QED
  BY <1>2, <1>3, <1>4

-----------------------------------------------------------------------------
(* Indexing *)

LEMMA ArrayFacts ==
  ASSUME type \in Types, NEW array \in Indexable(type)
  PROVE  /\ array.root = type.root /\ type.root.kind # "enum"
         /\ array.lo \in Base(type.root) /\ array.hi \in Base(type.root)
         /\ array.lo \in Int /\ array.hi \in Int /\ WellFormedRoot(type.root)
<1>1. /\ array.root = type.root /\ type.root.kind # "enum" /\ WellFormedRoot(type.root)
      /\ array.lo \in Base(type.root) /\ array.hi \in Base(type.root)
  BY ArraysAssumption DEF Indexable
<1>2. QED
  BY <1>1, RootFacts

LEMMA IndexChecked ==
  ASSUME type \in Types, NEW a \in Values(type), a \in Base(type.root),
         word = Wrap(Width(type.root), a), NEW array \in Indexable(type)
  PROVE  IndexPasses(array) <=> a \in array.lo..array.hi
<1> DEFINE r == type.root
<1>1. /\ array.root = r /\ r.kind # "enum" /\ WellFormedRoot(r)
      /\ array.lo \in Base(r) /\ array.hi \in Base(r) /\ array.lo \in Int /\ array.hi \in Int
      /\ Base(r) \subseteq Machine(r)
  BY ArrayFacts, MachineFacts
<1>2. InDescriptor(r, word, <<array.lo, array.hi>>) <=> a \in array.lo..array.hi
  BY <1>1, DescriptorReads
<1>3. KnownWithin(array.lo, array.hi) => a \in array.lo..array.hi
  BY <1>1, KnownSound
<1>4. QED
  BY <1>1, <1>2, <1>3 DEF IndexPasses

(* The offset is computed in a width that holds it, as the signed number   *)
(* the address computation takes it for.                                   *)
LEMMA OffsetExact ==
  ASSUME type \in Types, NEW a \in Base(type.root), word = Wrap(Width(type.root), a),
         NEW array \in Indexable(type), a \in array.lo..array.hi
  PROVE  Offset(array) = a - array.lo /\ Offset(array) \in Nat
<1> DEFINE r == type.root
           w == Width(r)
<1>1. /\ array.root = r /\ r.kind # "enum" /\ WellFormedRoot(r)
      /\ array.lo \in Base(r) /\ array.lo \in Int /\ array.hi \in Int
      /\ Base(r) \subseteq Machine(r) /\ w \in Nat \ {0} /\ w \in Nat
      /\ (Modular(r) <=> UnsignedOrder(r)) /\ a \in Int
  BY ArrayFacts, MachineFacts
<1>2. PICK l \in Machine(r) : l = array.lo /\ l \in Int /\ l <= a
  BY <1>1
<1>3. PICK d \in Nat : d = a - l
  BY <1>1, <1>2
<1>4. PICK wide \in Nat \ {0} : wide = WideIndex(r) /\ w < wide
  <2>1. WideIndex(r) \in Nat \ {0} /\ w < WideIndex(r)
    BY <1>1, AddressWidthAssumption DEF WideIndex
  <2>2. QED
    BY <2>1
<1>5. PICK index : index = IF UnsignedOrder(r) THEN word ELSE SignExtend(w, wide, word)
  OBVIOUS
<1>6. Offset(array) = AsSigned(wide, Wrap(wide, index - Wrap(wide, l)))
  BY <1>1, <1>2, <1>4, <1>5 DEF Offset
<1>7. Wrap(wide, index) = Wrap(wide, a) /\ index \in Int
  <2>1. a \in Machine(r)
    BY <1>1
  <2>2. CASE Modular(r)
    <3>1. word = a
      BY <1>1, <2>1, <2>2, MachineFacts
    <3>2. QED
      BY <1>1, <1>5, <2>2, <3>1
  <2>3. CASE ~Modular(r)
    <3>1. AsSigned(w, word) = a
      BY <1>1, <2>1, <2>3, MachineFacts
    <3>2. index = Wrap(wide, a)
      BY <1>1, <1>5, <2>3, <3>1 DEF SignExtend
    <3>3. wide \in Nat /\ wide <= wide
      OBVIOUS
    <3>4. Wrap(wide, Wrap(wide, a)) = Wrap(wide, a)
      BY <1>1, <3>3, WrapWrap
    <3>5. index \in Int
      <4>1. Wrap(wide, a) \in Word(wide) /\ 2^wide \in Nat
        BY <1>1, <3>3, WrapWord, Subsets
      <4>2. QED
        BY <3>2, <4>1 DEF Word
    <3>6. QED
      BY <3>2, <3>4, <3>5
  <2>4. QED
    BY <2>2, <2>3
<1>8. Wrap(wide, index - Wrap(wide, l)) = Wrap(wide, d)
  <2>1. wide \in Nat
    OBVIOUS
  <2>2. PICK x \in Int : x = Wrap(wide, index) /\ x = Wrap(wide, a)
    <3>1. Wrap(wide, a) \in Word(wide) /\ 2^wide \in Nat
      BY <1>1, <2>1, WrapWord, Subsets
    <3>2. Wrap(wide, a) \in Int
      BY <3>1 DEF Word
    <3>3. QED
      BY <1>7, <3>2
  <2>3. PICK y \in Int : y = Wrap(wide, l) /\ Wrap(wide, y) = y
    <3>1. Wrap(wide, l) \in Word(wide) /\ 2^wide \in Nat
      BY <1>2, <2>1, WrapWord, Subsets
    <3>2. Wrap(wide, l) \in Int
      BY <3>1 DEF Word
    <3>3. Wrap(wide, Wrap(wide, l)) = Wrap(wide, l)
      BY <2>1, <3>1, WrapSame
    <3>4. QED
      BY <3>2, <3>3
  <2>4. \A i, j \in Int : Wrap(wide, Wrap(wide, i) - Wrap(wide, j)) = Wrap(wide, i - j)
    <3> TAKE i, j \in Int
    <3>1. Wrap(wide, Arith("-", Wrap(wide, i), Wrap(wide, j))) = Wrap(wide, Arith("-", i, j))
      BY <2>1, WrapArith
    <3>2. QED
      BY <3>1 DEF Arith
  <2>5. Wrap(wide, Wrap(wide, index) - Wrap(wide, y)) = Wrap(wide, index - y)
    BY <1>7, <2>4
  <2>6. Wrap(wide, Wrap(wide, a) - Wrap(wide, l)) = Wrap(wide, a - l)
    BY <1>1, <1>2, <2>4
  <2>7. Wrap(wide, x - y) = Wrap(wide, index - y) /\ Wrap(wide, x - y) = Wrap(wide, d)
    BY <1>3, <2>2, <2>3, <2>5, <2>6
  <2>8. QED
    BY <2>3, <2>7
<1>9. d \in SignedRange(wide)
  <2>1. wide - 1 \in Nat /\ w <= wide - 1
    BY <1>1, <1>4
  <2>2. PICK P \in Nat \ {0}, Q \in Nat \ {0} : P = 2^w /\ Q = 2^(wide - 1) /\ P <= Q
    <3>1. 2^w \in Nat \ {0} /\ 2^(wide - 1) \in Nat \ {0} /\ 2^w <= 2^(wide - 1)
      BY <1>1, <2>1, Subsets, PowerMono
    <3>2. QED
      BY <3>1
  <2>3. d < P
    <3>1. CASE Modular(r)
      <4>1. a \in 0..(P - 1) /\ l \in 0..(P - 1)
        BY <1>1, <1>2, <2>2, <3>1 DEF Machine, Word
      <4>2. QED
        BY <1>3, <4>1
    <3>2. CASE ~Modular(r)
      <4>1. PICK M \in Nat \ {0} : M = 2^(w - 1) /\ 2^w = 2 * M
        BY <1>1, HalfPower
      <4>2. a \in (-M)..(M - 1) /\ l \in (-M)..(M - 1)
        BY <1>1, <1>2, <3>2, <4>1 DEF Machine, SignedRange
      <4>3. QED
        BY <1>3, <2>2, <4>1, <4>2
    <3>3. QED
      BY <3>1, <3>2
  <2>4. QED
    BY <2>2, <2>3 DEF SignedRange
<1>10. AsSigned(wide, Wrap(wide, d)) = d
  BY <1>9, ReadSigned
<1>11. QED
  BY <1>2, <1>3, <1>6, <1>8, <1>10

-----------------------------------------------------------------------------
(* The inductive invariant: the word of a value is that of a value of its  *)
(* type.  TypeOK alone is not inductive: a word outside its type's range   *)
(* passes the checks left out for that range and selects a negative offset.*)

Represented == Read(type.root, word) \in Values(type)
IInv == TypeOK /\ Represented

LEMMA Represents ==
  ASSUME FullRanges, IInv
  PROVE  /\ type \in Types /\ WellFormedRoot(type.root)
         /\ Read(type.root, word) \in Values(type) /\ Read(type.root, word) \in Base(type.root)
         /\ word = Wrap(Width(type.root), Read(type.root, word))
<1> DEFINE r == type.root
<1>1. type \in Types /\ word \in Word(Width(r)) /\ Read(r, word) \in Values(type)
  BY DEF IInv, TypeOK, Represented
<1>2. WellFormedRoot(r) /\ Read(r, word) \in Base(r) /\ Width(r) \in Nat \ {0} /\ Width(r) \in Nat
  BY <1>1, TypeFacts, ValuesInBase, RootFacts
<1>3. CASE UnsignedOrder(r)
  BY <1>1, <1>2, <1>3, WrapSame DEF Read
<1>4. CASE ~UnsignedOrder(r)
  BY <1>1, <1>2, <1>4, SignedRead DEF Read
<1>5. QED
  BY <1>1, <1>2, <1>3, <1>4

(* A value of a type, and the word of it.                                  *)
LEMMA Established ==
  ASSUME FullRanges, NEW t \in Types, NEW v \in Values(t)
  PROVE  /\ Wrap(Width(t.root), v) \in Word(Width(t.root))
         /\ Read(t.root, Wrap(Width(t.root), v)) = v
  BY TypeFacts, ValuesInBase, ReadValue

LEMMA InitEstablishes ==
  ASSUME FullRanges, Init
  PROVE  IInv
<1>1. PICK v \in Values(type) : word = Wrap(Width(type.root), v)
  BY DEF Init
<1>2. type \in Types /\ Read(type.root, word) = v /\ word \in Word(Width(type.root))
  BY <1>1, Established DEF Init
<1>3. def \in {"constant", "folded", "other"}
  BY DEF Init, Literal
<1>4. QED
  BY <1>1, <1>2, <1>3 DEF Init, IInv, TypeOK, Represented

LEMMA InitRefines ==
  ASSUME FullRanges, Init
  PROVE  Scalars!Init
<1>1. IInv
  BY InitEstablishes
<1>2. Read(type.root, word) \in Scalars!Values(type)
  BY <1>1, AdaSame DEF IInv, Represented
<1>3. ExprBar = Scalars!Idle
  BY DEF Init, ExprBar, Idle, Scalars!Idle
<1>4. QED
  BY <1>2, <1>3 DEF Init, Scalars!Init

-----------------------------------------------------------------------------
(* Steps *)

(* An outcome that agrees with Ada's establishes the invariant, and is the *)
(* step Ada takes.                                                         *)
LEMMA YieldAgrees ==
  ASSUME FullRanges, IInv, NEW o, NEW p, NEW t \in Types, NEW d \in {"constant", "folded", "other"},
         Agrees(t.root, o, p), p.raised = "no" => p.value \in Values(t), Yield(o, t, d)
  PROVE  IInv' /\ Scalars!Yield(p, t)
<1>1. expr' = Idle /\ selected' = selected /\ raised' = o.raised /\ ExprBar' = Scalars!Idle
  BY DEF Yield, ExprBar, Idle, Scalars!Idle
<1>2. /\ selected \in Nat /\ o.raised = p.raised
      /\ o.raised \in {"no", "overflow", "divide by zero", "range", "index"}
  BY DEF IInv, TypeOK, Agrees
<1>3. CASE o.raised = "no"
  <2>1. type' = t /\ word' = o.word /\ def' = d
    BY <1>3 DEF Yield
  <2>2. p.raised = "no" /\ p.value \in Values(t) /\ o.word = Wrap(Width(t.root), p.value)
    BY <1>3 DEF Agrees
  <2>3. o.word \in Word(Width(t.root)) /\ Read(t.root, o.word) = p.value
    BY <2>2, Established
  <2>4. IInv'
    BY <1>1, <1>2, <2>1, <2>2, <2>3 DEF IInv, TypeOK, Represented
  <2>5. QED
    BY <1>1, <1>2, <2>1, <2>2, <2>3, <2>4 DEF Scalars!Yield
<1>4. CASE o.raised # "no"
  <2>1. type' = type /\ word' = word /\ def' = def
    BY <1>4 DEF Yield
  <2>2. IInv'
    BY <1>1, <1>2, <2>1 DEF IInv, TypeOK, Represented
  <2>3. QED
    BY <1>1, <1>2, <1>4, <2>1, <2>2 DEF Scalars!Yield
<1>5. QED
  BY <1>3, <1>4

LEMMA FetchAgrees ==
  ASSUME FullRanges, IInv, Fetch
  PROVE  IInv' /\ Scalars!Fetch
<1>1. PICK v \in Values(type') : word' = Wrap(Width(type'.root), v)
  BY DEF Fetch
<1>2. type' \in Types /\ expr = Idle /\ expr' = expr /\ raised' = "no" /\ selected' = selected
  BY DEF Fetch
<1>3. word' \in Word(Width(type'.root)) /\ Read(type'.root, word') = v
  BY <1>1, <1>2, Established
<1>4. def' \in {"constant", "folded", "other"}
  BY DEF Fetch, Literal
<1>5. IInv'
  BY <1>1, <1>2, <1>3, <1>4 DEF IInv, TypeOK, Represented
<1>6. ExprBar = Scalars!Idle /\ ExprBar' = ExprBar
  BY <1>2 DEF ExprBar, Idle, Scalars!Idle
<1>7. QED
  BY <1>1, <1>2, <1>3, <1>5, <1>6, AdaSame DEF Scalars!Fetch

(* The kind of an expression tells which operator it is.                   *)
LEMMA ExprShape ==
  ASSUME expr = Idle \/ expr \in Exprs(type)
  PROVE  /\ expr.kind = "binary" => expr \in Binaries(type.root)
         /\ expr.kind = "compare" => expr.op \in CompareOps /\ expr.right \in Operands(type.root)
         /\ expr.kind = "unary" => expr.op \in UnaryOps(type.root)
         /\ expr.kind = "convert" => expr.target \in Targets(type)
         /\ expr.kind = "index" => expr.array \in Indexable(type)
  BY DEF Idle, Exprs, Binaries

LEMMA ChooseAgrees ==
  ASSUME FullRanges, IInv, Choose
  PROVE  IInv' /\ Scalars!Choose
<1> DEFINE r == type.root
<1>1. /\ expr = Idle /\ raised = "no" /\ expr' \in Exprs(type)
      /\ type' = type /\ word' = word /\ def' = def /\ raised' = raised /\ selected' = selected
  BY DEF Choose
<1>2. IInv'
  BY <1>1 DEF IInv, TypeOK, Represented
<1>3. WellFormedRoot(r)
  BY Represents
<1>4. \A x \in Operands(r) : Read(r, x) \in Base(r)
  BY <1>3, OperandValue
<1>5. ExprBar' \in Scalars!Exprs(type)
  <2>1. CASE expr' \in Binaries(r)
    <3>1. expr'.kind = "binary" /\ expr'.op \in BinaryOps(r) /\ expr'.right \in Operands(r)
      BY <2>1 DEF Binaries
    <3>2. ExprBar' = [kind |-> "binary", op |-> expr'.op, right |-> Read(r, expr'.right)]
      BY <1>1, <3>1 DEF ExprBar
    <3>3. ExprBar' \in [kind : {"binary"}, op : BinaryOps(r), right : Base(r)]
      BY <1>4, <3>1, <3>2
    <3>4. QED
      BY <3>3, AdaSame DEF Scalars!Exprs
  <2>2. CASE expr' \in [kind : {"compare"}, op : CompareOps, right : Operands(r)]
    <3>1. expr'.kind = "compare" /\ expr'.op \in CompareOps /\ expr'.right \in Operands(r)
      BY <2>2
    <3>2. ExprBar' = [kind |-> "compare", op |-> expr'.op, right |-> Read(r, expr'.right)]
      BY <1>1, <3>1 DEF ExprBar
    <3>3. ExprBar' \in [kind : {"compare"}, op : CompareOps, right : Base(r)]
      BY <1>4, <3>1, <3>2
    <3>4. QED
      BY <3>3, AdaSame DEF Scalars!Exprs
  <2>3. CASE \/ expr' \in [kind : {"unary"}, op : UnaryOps(r)]
             \/ expr' \in [kind : {"convert"}, target : Targets(type)]
             \/ expr' \in [kind : {"index"}, array : Indexable(type)]
    <3>1. expr'.kind # "binary" /\ expr'.kind # "compare"
      BY <2>3
    <3>2. ExprBar' = expr'
      BY <3>1 DEF ExprBar
    <3>3. QED
      BY <2>3, <3>2, AdaSame DEF Scalars!Exprs
  <2>4. QED
    BY <1>1, <2>1, <2>2, <2>3 DEF Exprs
<1>6. ExprBar = Scalars!Idle
  BY <1>1 DEF ExprBar, Idle, Scalars!Idle
<1>7. QED
  BY <1>1, <1>2, <1>5, <1>6 DEF Scalars!Choose

LEMMA ComputeAgrees ==
  ASSUME FullRanges, IInv, Compute
  PROVE  IInv' /\ Scalars!Compute
<1> DEFINE r == type.root
           a == Read(r, word)
           d == IF FoldsBinary(r, expr) THEN "folded" ELSE "other"
           p == Scalars!Binary(r, expr.op, a, Read(r, expr.right))
<1>1. expr.kind = "binary"
  BY DEF Compute
<1>2. PICK o \in Binary(r, expr) : Yield(o, Root(type), d)
  BY DEF Compute
<1>3. expr \in Binaries(r)
  BY <1>1, ExprShape DEF IInv, TypeOK
<1>4. type \in Types /\ WellFormedRoot(r) /\ a \in Base(r) /\ word = Wrap(Width(r), a)
  BY Represents
<1>5. Agrees(r, o, p)
  BY <1>2, <1>3, <1>4, BinaryAgrees
<1>6. Root(type) \in Types /\ Root(type).root = r /\ Values(Root(type)) = Base(r)
  <2>1. Root(type) \in Types /\ Root(type).root = r /\ Root(type).own = "none"
    BY <1>4, TypeFacts
  <2>2. QED
    BY <2>1, ValuesInBase
<1>7. p.raised = "no" => p.value \in Values(Root(type))
  BY <1>5, <1>6 DEF Agrees
<1>8. d \in {"constant", "folded", "other"}
  OBVIOUS
<1> HIDE DEF d
<1>9. IInv' /\ Scalars!Yield(p, Root(type))
  BY <1>2, <1>5, <1>6, <1>7, <1>8, YieldAgrees
<1>10. ExprBar = [kind |-> "binary", op |-> expr.op, right |-> Read(r, expr.right)]
  BY <1>1 DEF ExprBar
<1>11. ExprBar.kind = "binary" /\ ExprBar.op = expr.op /\ ExprBar.right = Read(r, expr.right)
  BY <1>10
<1>12. QED
  BY <1>9, <1>11, AdaSame DEF Scalars!Compute

LEMMA ComputeUnaryAgrees ==
  ASSUME FullRanges, IInv, ComputeUnary
  PROVE  IInv' /\ Scalars!ComputeUnary
<1> DEFINE r == type.root
           a == Read(r, word)
           d == IF FoldsUnary(r, expr) THEN "folded" ELSE "other"
           o == Unary(r, expr)
           p == Scalars!Unary(r, expr.op, a)
<1>1. expr.kind = "unary" /\ Yield(o, Root(type), d)
  BY DEF ComputeUnary
<1>2. expr.op \in UnaryOps(r)
  BY <1>1, ExprShape DEF IInv, TypeOK
<1>3. type \in Types /\ WellFormedRoot(r) /\ a \in Base(r) /\ word = Wrap(Width(r), a)
  BY Represents
<1>4. Agrees(r, o, p)
  BY <1>2, <1>3, UnaryAgrees
<1>5. Root(type) \in Types /\ Root(type).root = r /\ Values(Root(type)) = Base(r)
  <2>1. Root(type) \in Types /\ Root(type).root = r /\ Root(type).own = "none"
    BY <1>3, TypeFacts
  <2>2. QED
    BY <2>1, ValuesInBase
<1>6. p.raised = "no" => p.value \in Values(Root(type))
  BY <1>4, <1>5 DEF Agrees
<1>7. d \in {"constant", "folded", "other"}
  OBVIOUS
<1> HIDE DEF d, o, p
<1>8. IInv' /\ Scalars!Yield(p, Root(type))
  BY <1>1, <1>4, <1>5, <1>6, <1>7, YieldAgrees
<1>9. ExprBar = expr
  BY <1>1 DEF ExprBar
<1>10. QED
  BY <1>1, <1>8, <1>9, AdaSame DEF Scalars!ComputeUnary, p

LEMMA ComparisonAgrees ==
  ASSUME FullRanges, IInv, Compare
  PROVE  IInv' /\ Scalars!Compare
<1> DEFINE r == type.root
           a == Read(r, word)
           b == Read(r, expr.right)
           o == CompareWords(r, expr.op, word, expr.right)
           p == Scalars!Value(IF Scalars!Holds(expr.op, a, b) THEN 1 ELSE 0)
<1>1. expr.kind = "compare" /\ Yield(o, Boolean, "other")
  BY DEF Compare
<1>2. Agrees(Boolean.root, o, p)
  BY CompareAgrees
<1>3. Boolean \in Types /\ Values(Boolean) = Base(Boolean.root)
  BY BooleanFacts, ValuesInBase
<1>4. p.raised = "no" => p.value \in Values(Boolean)
  BY <1>2, <1>3 DEF Agrees
<1> HIDE DEF o
<1>5. IInv' /\ Scalars!Yield(p, Boolean)
  BY <1>1, <1>2, <1>3, <1>4, YieldAgrees
<1>6. ExprBar = [kind |-> "compare", op |-> expr.op, right |-> b]
  BY <1>1 DEF ExprBar
<1>7. ExprBar.kind = "compare" /\ ExprBar.op = expr.op /\ ExprBar.right = b
  BY <1>6
<1>8. QED
  BY <1>5, <1>7 DEF Scalars!Compare

LEMMA ConvertToAgrees ==
  ASSUME FullRanges, IInv, ConvertTo
  PROVE  IInv' /\ Scalars!ConvertTo
<1> DEFINE a == Read(type.root, word)
           target == expr.target
           d == IF target = type THEN def ELSE "other"
           o == Convert(target)
           p == Scalars!Convert(target, a)
<1>1. expr.kind = "convert" /\ Yield(o, target, d)
  BY DEF ConvertTo
<1>2. target \in Targets(type) /\ target \in Types
  BY <1>1, ExprShape DEF IInv, TypeOK, Targets
<1>3. type \in Types /\ a \in Values(type) /\ word = Wrap(Width(type.root), a)
  BY Represents
<1>4. Agrees(target.root, o, p)
  BY <1>2, <1>3, ConvertAgrees
<1>5. p.raised = "no" => p.value \in Values(target)
  <2>1. CASE a \in Values(target)
    BY <2>1, AdaSame DEF Scalars!Convert, Scalars!Value
  <2>2. CASE a \notin Values(target)
    BY <2>2, AdaSame DEF Scalars!Convert, Scalars!Fails
  <2>3. QED
    BY <2>1, <2>2
<1>6. d \in {"constant", "folded", "other"}
  BY DEF IInv, TypeOK
<1> HIDE DEF d, o, p
<1>7. IInv' /\ Scalars!Yield(p, target)
  BY <1>1, <1>2, <1>4, <1>5, <1>6, YieldAgrees
<1>8. ExprBar = expr
  BY <1>1 DEF ExprBar
<1>9. QED
  BY <1>1, <1>7, <1>8 DEF Scalars!ConvertTo, p

LEMMA IndexAgrees ==
  ASSUME FullRanges, IInv, Index
  PROVE  IInv' /\ Scalars!Index
<1> DEFINE a == Read(type.root, word)
           array == expr.array
<1>1. /\ expr.kind = "index" /\ expr' = Idle /\ type' = type /\ word' = word /\ def' = def
      /\ IF IndexPasses(array) THEN raised' = "no" /\ selected' = Offset(array)
         ELSE raised' = "index" /\ selected' = selected
  BY DEF Index
<1>2. array \in Indexable(type)
  BY <1>1, ExprShape DEF IInv, TypeOK
<1>3. /\ type \in Types /\ a \in Values(type) /\ a \in Base(type.root)
      /\ word = Wrap(Width(type.root), a)
  BY Represents
<1>4. IndexPasses(array) <=> a \in array.lo..array.hi
  BY <1>2, <1>3, IndexChecked
<1>5. IndexPasses(array) => Offset(array) = a - array.lo /\ Offset(array) \in Nat
  BY <1>2, <1>3, <1>4, OffsetExact
<1>6. IInv'
  <2>1. selected' \in Nat /\ raised' \in {"no", "index"}
    BY <1>1, <1>5 DEF IInv, TypeOK
  <2>2. QED
    BY <1>1, <2>1 DEF IInv, TypeOK, Represented
<1>7. ExprBar = expr /\ ExprBar' = Scalars!Idle
  BY <1>1 DEF ExprBar, Idle, Scalars!Idle
<1>8. QED
  BY <1>1, <1>4, <1>5, <1>6, <1>7 DEF Scalars!Index

LEMMA NextAgrees ==
  ASSUME FullRanges, IInv, [Next]_vars
  PROVE  IInv' /\ [Scalars!Next]_(Scalars!vars)
<1>1. CASE Fetch
  BY <1>1, FetchAgrees DEF Scalars!Next
<1>2. CASE Choose
  BY <1>2, ChooseAgrees DEF Scalars!Next
<1>3. CASE Compute
  BY <1>3, ComputeAgrees DEF Scalars!Next
<1>4. CASE ComputeUnary
  BY <1>4, ComputeUnaryAgrees DEF Scalars!Next
<1>5. CASE Compare
  BY <1>5, ComparisonAgrees DEF Scalars!Next
<1>6. CASE ConvertTo
  BY <1>6, ConvertToAgrees DEF Scalars!Next
<1>7. CASE Index
  BY <1>7, IndexAgrees DEF Scalars!Next
<1>8. CASE UNCHANGED vars
  BY <1>8 DEF vars, IInv, TypeOK, Represented, Scalars!vars, ExprBar
<1>9. QED
  BY <1>1, <1>2, <1>3, <1>4, <1>5, <1>6, <1>7, <1>8 DEF Next

-----------------------------------------------------------------------------
(* Theorems.  FullRanges is a hypothesis: it holds of the predefined types *)
(* and fails of a type declared with a range narrower than its machine's,  *)
(* of which the code does break the theorems.                              *)

(* Every value is a word of its type's machine width, and every index that *)
(* passes its check selects a component from the first one on.             *)
THEOREM TypeCorrect == ASSUME FullRanges PROVE Spec => []TypeOK
<1>1. Init => IInv
  BY InitEstablishes
<1>2. IInv /\ [Next]_vars => IInv'
  BY NextAgrees
<1>3. IInv => TypeOK
  BY DEF IInv
<1>4. QED
  BY <1>1, <1>2, <1>3, PTL DEF Spec

(* RequalifyOp gives a value the identity of a constrained subtype only    *)
(* when it satisfies the constraint, whatever checks were left out.        *)
THEOREM SubtypesHeld == ASSUME FullRanges PROVE Spec => []SubtypeEstablished
<1>1. Init => IInv
  BY InitEstablishes
<1>2. IInv /\ [Next]_vars => IInv'
  BY NextAgrees
<1>3. IInv => SubtypeEstablished
  BY DEF IInv, Represented, SubtypeEstablished
<1>4. QED
  BY <1>1, <1>2, <1>3, PTL DEF Spec

(* Every operator, conversion and index the compiler emits for scalars of  *)
(* any width computes the value Ada defines, or fails the check Ada does.  *)
THEOREM ScalarRefinement == ASSUME FullRanges PROVE Spec => ImplementsAdaScalars
<1>1. Init => IInv /\ Scalars!Init
  BY InitEstablishes, InitRefines
<1>2. IInv /\ [Next]_vars => IInv' /\ [Scalars!Next]_(Scalars!vars)
  BY NextAgrees
<1>3. QED
  BY <1>1, <1>2, PTL DEF Spec, ImplementsAdaScalars, Scalars!Spec

-----------------------------------------------------------------------------
(* For loops: the words of a type *)

LEMMA IterableFacts ==
  ASSUME NEW t \in Iterable
  PROVE  /\ t.root.kind \in {"signed", "modular"}
         /\ Width(t.root) \in Nat \ {0}
         /\ t.lo \in Int /\ t.hi \in Int
         /\ Values(t) \subseteq Base(t.root)
         /\ t.root.kind = "signed" =>
              t.root.modulus = 0 /\ Base(t.root) = SignedRange(Width(t.root))
         /\ t.root.kind = "modular" =>
              /\ t.root.modulus \in 1..(2^Width(t.root))
              /\ Base(t.root) = 0..(t.root.modulus - 1)
<1> DEFINE r == t.root
           w == Width(r)
<1>1. WellFormedType(t) /\ r.kind # "enum"
  BY TypesAssumption DEF Iterable
<1>2. /\ WellFormedRoot(r) /\ r.kind \in {"signed", "modular"} /\ w \in Nat \ {0}
      /\ t.lo \in Base(r) /\ t.hi \in Base(r)
  BY <1>1 DEF WellFormedType, WellFormedRoot, Kinds, Width
<1>3. r.kind = "signed" => r.modulus = 0 /\ Base(r) = SignedRange(w)
  BY <1>2 DEF WellFormedRoot, Base, Width
<1>4. r.kind = "modular" => r.modulus \in 1..(2^w) /\ Base(r) = 0..(r.modulus - 1)
  BY <1>2 DEF WellFormedRoot, Base, Width
<1>5. t.lo \in Int /\ t.hi \in Int /\ Values(t) \subseteq Base(r)
  <2>1. CASE r.kind = "signed"
    <3>1. 2^(w - 1) \in Nat \ {0}
      BY <1>2, HalfPower
    <3>2. QED
      BY <1>2, <1>3, <2>1, <3>1 DEF Values, SignedRange
  <2>2. CASE r.kind = "modular"
    <3>1. 2^w \in Nat \ {0}
      BY <1>2, Subsets
    <3>2. QED
      BY <1>2, <1>4, <2>2, <3>1 DEF Values
  <2>3. QED
    BY <1>2, <2>1, <2>2
<1>6. QED
  BY <1>2, <1>3, <1>4, <1>5

(* A value of a type reads back from its word.                             *)
LEMMA ReadWord ==
  ASSUME NEW t \in Iterable, NEW v \in Base(t.root)
  PROVE  /\ v \in Int
         /\ Wrap(Width(t.root), v) \in Word(Width(t.root))
         /\ Read(t.root, Wrap(Width(t.root), v)) = v
         /\ t.root.kind = "modular" => Wrap(Width(t.root), v) = v
<1> DEFINE r == t.root
           w == Width(r)
<1>1. w \in Nat \ {0} /\ w \in Nat /\ 2^w \in Nat \ {0} /\ 2^(w - 1) \in Nat \ {0}
  BY IterableFacts, HalfPower, Subsets
<1>2. CASE r.kind = "signed"
  <2>1. v \in SignedRange(w) /\ r.modulus = 0
    BY <1>2, IterableFacts
  <2>2. v \in Int
    BY <1>1, <2>1 DEF SignedRange
  <2>3. Read(r, Wrap(w, v)) = AsSigned(w, Wrap(w, v))
    BY <1>2, <2>1 DEF Read, UnsignedOrder, Modular
  <2>4. QED
    BY <1>1, <1>2, <2>1, <2>2, <2>3, WrapWord, ReadSigned
<1>3. CASE r.kind = "modular"
  <2>1. r.modulus \in 1..(2^w) /\ v \in 0..(r.modulus - 1)
    BY <1>3, IterableFacts
  <2>2. v \in Word(w) /\ v \in Int /\ r.modulus # 0
    BY <1>1, <2>1 DEF Word
  <2>3. Wrap(w, v) = v
    BY <1>1, <2>2, WrapSame
  <2>4. QED
    BY <2>2, <2>3 DEF Read, UnsignedOrder, Modular
<1>4. QED
  BY <1>2, <1>3, IterableFacts

LEMMA WordsRead ==
  ASSUME NEW t \in Iterable, NEW x \in Words(t)
  PROVE  /\ Read(t.root, x) \in Values(t)
         /\ Read(t.root, x) \in Int
         /\ x = Wrap(Width(t.root), Read(t.root, x))
         /\ x \in Word(Width(t.root))
<1>1. PICK v \in Values(t) : x = Wrap(Width(t.root), v)
  BY DEF Words
<1>2. v \in Base(t.root)
  BY IterableFacts
<1>3. QED
  BY <1>1, <1>2, ReadWord

-----------------------------------------------------------------------------
(* The step *)

(* Adding or taking away one without a check is exact as long as the       *)
(* result is a value of the type: whatever way the modulus is reduced.     *)
LEMMA StepExact ==
  ASSUME NEW t \in Iterable, NEW v \in Base(t.root),
         NEW op \in {"+", "-"}, NEW u \in Base(t.root),
         u = IF op = "+" THEN v + 1 ELSE v - 1
  PROVE  Unchecked(t.root, op, Wrap(Width(t.root), v), 1) = Wrap(Width(t.root), u)
<1> DEFINE r == t.root
           w == Width(r)
           m == r.modulus
           x == Wrap(w, v)
<1>1. /\ w \in Nat \ {0} /\ w \in Nat /\ v \in Int /\ u \in Int
      /\ 2^w \in Nat \ {0}
  BY IterableFacts, ReadWord, Subsets
<1>2. \A i, y \in Int : Plain(i, op, y, 1) =
                          Wrap(i, IF op = "+" THEN y + 1 ELSE y - 1)
  BY DEF Plain, Arith
<1>3. Plain(w, op, x, 1) = Wrap(w, u)
  <2>1. x \in Int
    BY <1>1, WrapWord DEF Word
  <2>2. CASE op = "+"
    <3>1. Plain(w, op, x, 1) = Wrap(w, x + 1) /\ u = v + 1 /\ 1 \in Int
      BY <1>1, <1>2, <2>1, <2>2
    <3>2. Wrap(w, x + 1) = Wrap(w, v + 1)
      BY <1>1, <3>1, WrapAdd
    <3>3. QED
      BY <3>1, <3>2
  <2>3. CASE op = "-"
    <3>1. x - 1 = x + (-1) /\ v - 1 = v + (-1) /\ -1 \in Int
      BY <1>1, <2>1
    <3>2. Plain(w, op, x, 1) = Wrap(w, x + (-1)) /\ u = v + (-1)
      BY <1>1, <1>2, <2>1, <2>3, <3>1
    <3>3. Wrap(w, x + (-1)) = Wrap(w, v + (-1))
      BY <1>1, <3>1, WrapAdd
    <3>4. QED
      BY <3>2, <3>3
  <2>4. QED
    BY <2>2, <2>3
<1>4. CASE ~(Modular(r) /\ ~FullWidthModulus(r))
  BY <1>3, <1>4 DEF Unchecked
<1>5. CASE Modular(r) /\ ~FullWidthModulus(r)
  <2>1. r.kind = "modular"
    BY <1>5, IterableFacts DEF Modular
  <2>2. m \in 1..(2^w) /\ v \in 0..(m - 1) /\ u \in 0..(m - 1) /\ m \in Nat
    BY <1>1, <2>1, IterableFacts
  <2>3. x = v /\ Wrap(w, u) = u /\ u \in Word(w)
    BY <2>1, ReadWord
  <2>4. Unchecked(r, op, x, 1) = Reduced(r, op, v, 1)
    BY <1>5, <2>3 DEF Unchecked
  <2>5. CASE PowerOfTwoModulus(r)
    <3>1. PICK k \in 0..w : m = 2^k
      BY <2>5 DEF PowerOfTwoModulus
    <3>2. Reduced(r, op, v, 1) = Bitwise(w, "and", Plain(w, op, v, 1), m - 1)
      BY <2>5 DEF Reduced
    <3>3. Plain(w, op, v, 1) = u
      BY <1>3, <2>3
    <3>4. Bitwise(w, "and", u, 2^k - 1) = u
      BY <1>1, <2>2, <3>1, MaskSame
    <3>5. QED
      BY <2>3, <2>4, <3>1, <3>2, <3>3, <3>4
  <2>6. CASE ~PowerOfTwoModulus(r)
    <3> DEFINE ww == 2 * w
    <3>1. ww \in Nat /\ 2^ww = 2^w * 2^w /\ 2 * m <= 2^ww
      <4>1. ww \in Nat /\ ww = w + w
        BY <1>1
      <4>2. 2^ww = 2^w * 2^w
        BY <1>1, <4>1, PowerSum
      <4>3. 2^w >= 2
        <5>1. 2^(w - 1) \in Nat \ {0} /\ 2^w = 2 * 2^(w - 1)
          BY <1>1, HalfPower
        <5>2. QED
          BY <5>1
      <4>4. \A P \in Nat : P >= 2 => 2 * P <= P * P
        OBVIOUS
      <4>5. QED
        BY <1>1, <2>2, <4>1, <4>2, <4>3, <4>4
    <3>2. \A n \in 0..(2 * m - 1) : n \in Word(ww) /\ Wrap(ww, n) = n
      <4>1. \A n \in 0..(2 * m - 1) : n \in Word(ww)
        BY <2>2, <3>1 DEF Word
      <4>2. QED
        BY <3>1, <4>1, WrapSame
    <3>3. CASE op = "+"
      <4>1. Reduced(r, op, v, 1) = Wrap(w, ReduceOnce(ww, m, Plain(ww, "+", v, 1)))
        BY <2>6, <3>3 DEF Reduced
      <4>2. Plain(ww, "+", v, 1) = u
        BY <1>1, <1>2, <2>2, <3>1, <3>2, <3>3
      <4>3. ReduceOnce(ww, m, u) = u
        BY <2>2 DEF ReduceOnce
      <4>4. QED
        BY <2>4, <4>1, <4>2, <4>3
    <3>4. CASE op = "-"
      <4>1. Reduced(r, op, v, 1) =
              Wrap(w, ReduceOnce(ww, m, Plain(ww, "-", Plain(ww, "+", v, m), 1)))
        BY <2>6, <3>4 DEF Reduced
      <4>2. Plain(ww, "+", v, m) = v + m
        <5>1. Plain(ww, "+", v, m) = Wrap(ww, v + m)
          BY DEF Plain, Arith
        <5>2. QED
          BY <2>2, <3>2, <5>1
      <4>3. Plain(ww, "-", v + m, 1) = u + m
        <5>1. Plain(ww, "-", v + m, 1) = Wrap(ww, (v + m) - 1)
          BY DEF Plain, Arith
        <5>2. (v + m) - 1 = u + m /\ u + m \in 0..(2 * m - 1)
          BY <1>1, <2>2, <3>4
        <5>3. QED
          BY <3>2, <5>1, <5>2
      <4>4. ReduceOnce(ww, m, u + m) = u
        <5>1. u + m >= m /\ (u + m) - m = u /\ u \in 0..(2 * m - 1)
          BY <1>1, <2>2
        <5>2. QED
          BY <3>2, <5>1 DEF ReduceOnce
      <4>5. QED
        BY <2>4, <4>1, <4>2, <4>3, <4>4
    <3>5. QED
      BY <3>3, <3>4
  <2>7. QED
    BY <2>5, <2>6
<1>6. QED
  BY <1>4, <1>5

-----------------------------------------------------------------------------
(* The loop *)

(* The last value of the parameter.                                        *)
Last == IF isReverse THEN Value(lo) ELSE Value(hi)

TypeInv ==
  /\ paramType \in Iterable /\ isReverse \in BOOLEAN /\ exited \in BOOLEAN
  /\ lo \in Words(paramType) /\ hi \in Words(paramType)
  /\ param \in Word(Width(paramType.root))
  /\ block \in {"entry", "init", "body", "step", "merge"}

(* Past the test the range is not empty, in an iteration the parameter is  *)
(* in it, and before a step it has not come to the end of it.              *)
RangeInv ==
  /\ exited => block = "merge"
  /\ block = "entry" => param = 0
  /\ block \in {"init", "body", "step"} => Value(lo) <= Value(hi)
  /\ block \in {"body", "step"} =>
       param \in Words(paramType) /\ Value(param) \in Value(lo)..Value(hi)
  /\ block = "step" => Value(param) # Last

LoopInv == TypeInv /\ RangeInv

LEMMA Bounds ==
  ASSUME TypeInv
  PROVE  /\ Value(lo) \in Values(paramType) /\ Value(lo) \in Int
         /\ Value(hi) \in Values(paramType) /\ Value(hi) \in Int
         /\ Value(0) = 0
         /\ \A v \in Value(lo)..Value(hi) :
              v \in Values(paramType) /\ v \in Base(paramType.root)
<1>1. /\ Value(lo) \in Values(paramType) /\ Value(lo) \in Int
      /\ Value(hi) \in Values(paramType) /\ Value(hi) \in Int
  BY WordsRead DEF TypeInv, Value
<1>2. paramType.lo \in Int /\ paramType.hi \in Int /\ Values(paramType) \subseteq Base(paramType.root)
      /\ Width(paramType.root) \in Nat \ {0}
  BY IterableFacts DEF TypeInv
<1>3. \A v \in Value(lo)..Value(hi) : v \in Values(paramType)
  BY <1>1, <1>2 DEF Values
<1>4. Value(0) = 0
  <2>1. 2^(Width(paramType.root) - 1) \in Nat \ {0}
    BY <1>2, HalfPower
  <2>2. QED
    BY <2>1 DEF Value, Read, AsSigned
<1>5. QED
  BY <1>1, <1>2, <1>3, <1>4

LEMMA InitInv == LoopInit => LoopInv
<1> SUFFICES ASSUME LoopInit PROVE LoopInv
  OBVIOUS
<1>1. paramType \in Iterable /\ block = "entry" /\ param = 0 /\ exited = FALSE
      /\ lo \in Words(paramType) /\ hi \in Words(paramType) /\ isReverse \in BOOLEAN
  BY DEF LoopInit
<1>2. Width(paramType.root) \in Nat
  BY <1>1, IterableFacts
<1>3. 0 \in Word(Width(paramType.root))
  <2>1. 2^Width(paramType.root) \in Nat \ {0}
    BY <1>2, Subsets
  <2>2. QED
    BY <2>1 DEF Word
<1>4. QED
  BY <1>1, <1>3 DEF LoopInv, TypeInv, RangeInv

(* What a step of the program does, on the numbers the words stand for.    *)
LEMMA LoopKept ==
  ASSUME Loop
  PROVE  /\ \A x : Value(x)' = Read(paramType.root, x')
         /\ Value(lo)' = Value(lo) /\ Value(hi)' = Value(hi)
         /\ Words(paramType)' = Words(paramType) /\ Iterable' = Iterable
         /\ Last' = Last
         /\ Word(Width(paramType.root))' = Word(Width(paramType.root))
BY DEF Loop, Value, Last, Words, Iterable, Values
-----------------------------------------------------------------------------
(* Each block keeps the invariant *)

LEMMA GuardKeeps == LoopInv /\ Guard => LoopInv'
<1> SUFFICES ASSUME LoopInv, Guard PROVE LoopInv'
  OBVIOUS
<1>1. /\ param' = param /\ exited' = exited /\ block = "entry" /\ Loop
      /\ block' = IF Cmp("<=", lo, hi) THEN "init" ELSE "merge"
  BY DEF Guard
<1>2. Cmp("<=", lo, hi) = (Value(lo) <= Value(hi))
  BY DEF Cmp, Predicate, Value
<1>3. Value(lo)' = Value(lo) /\ Value(hi)' = Value(hi)
  BY <1>1, LoopKept
<1>4. TypeInv'
  BY <1>1, LoopKept DEF LoopInv, TypeInv, Loop
<1>5. RangeInv'
  BY <1>1, <1>2, <1>3 DEF LoopInv, RangeInv
<1>6. QED
  BY <1>4, <1>5 DEF LoopInv

LEMMA StartKeeps == LoopInv /\ Start => LoopInv'
<1> SUFFICES ASSUME LoopInv, Start PROVE LoopInv'
  OBVIOUS
<1>1. /\ param' = (IF isReverse THEN hi ELSE lo) /\ exited' = exited
      /\ block = "init" /\ block' = "body" /\ Loop
  BY DEF Start
<1>2. Value(lo) <= Value(hi) /\ exited = FALSE
  BY <1>1 DEF LoopInv, RangeInv, TypeInv
<1>3. /\ Value(param)' = IF isReverse THEN Value(hi) ELSE Value(lo)
      /\ Value(lo)' = Value(lo) /\ Value(hi)' = Value(hi)
      /\ Words(paramType)' = Words(paramType)
  BY <1>1, LoopKept DEF Value, Loop
<1>4. param' \in Words(paramType) /\ param' \in Word(Width(paramType.root))
  BY <1>1, WordsRead DEF LoopInv, TypeInv
<1>5. TypeInv'
  BY <1>1, <1>4, LoopKept DEF LoopInv, TypeInv, Loop
<1>6. Value(lo) \in Int /\ Value(hi) \in Int
  BY Bounds DEF LoopInv
<1>7. Value(param)' \in (Value(lo)..Value(hi))'
  BY <1>2, <1>3, <1>6
<1>8. RangeInv'
  BY <1>1, <1>2, <1>3, <1>4, <1>7 DEF RangeInv
<1>9. QED
  BY <1>5, <1>8 DEF LoopInv

LEMMA EndBodyKeeps == LoopInv /\ EndBody => LoopInv'
<1> SUFFICES ASSUME LoopInv, EndBody PROVE LoopInv'
  OBVIOUS
<1>1. /\ param' = param /\ exited' = exited /\ block = "body" /\ Loop
      /\ block' = IF AtLast THEN "merge" ELSE "step"
  BY DEF EndBody
<1>2. AtLast = (Value(param) = Last)
  BY DEF AtLast, Cmp, Predicate, Value, Last
<1>3. /\ Value(lo)' = Value(lo) /\ Value(hi)' = Value(hi) /\ Last' = Last
      /\ Words(paramType)' = Words(paramType) /\ Value(param)' = Value(param)
  BY <1>1, LoopKept DEF Loop, Value
<1>4. TypeInv'
  BY <1>1, LoopKept DEF LoopInv, TypeInv, Loop
<1>5. RangeInv'
  BY <1>1, <1>2, <1>3 DEF LoopInv, RangeInv
<1>6. QED
  BY <1>4, <1>5 DEF LoopInv

LEMMA LeaveBodyKeeps == LoopInv /\ LeaveBody => LoopInv'
<1> SUFFICES ASSUME LoopInv, LeaveBody PROVE LoopInv'
  OBVIOUS
<1>1. /\ param' = param /\ exited' = TRUE /\ block' = "merge" /\ Loop
  BY DEF LeaveBody
<1>2. TypeInv'
  BY <1>1, LoopKept DEF LoopInv, TypeInv, Loop
<1>3. RangeInv'
  BY <1>1 DEF RangeInv
<1>4. QED
  BY <1>2, <1>3 DEF LoopInv

(* Before a step the parameter is short of the last value, so the next     *)
(* number is in the range and the unchecked sum stands for it.             *)
LEMMA StepMoves ==
  ASSUME LoopInv, Step
  PROVE  /\ Value(param)' = IF isReverse THEN Value(param) - 1 ELSE Value(param) + 1
         /\ Value(param)' \in Value(lo)..Value(hi)
         /\ param' \in Words(paramType)
<1> DEFINE v == Value(param)
           op == IF isReverse THEN "-" ELSE "+"
           u == IF isReverse THEN v - 1 ELSE v + 1
<1>1. /\ block = "step" /\ Loop
      /\ param' = Unchecked(paramType.root, op, param, 1)
  BY DEF Step
<1>2. /\ paramType \in Iterable /\ isReverse \in BOOLEAN
      /\ param \in Words(paramType) /\ v \in Value(lo)..Value(hi) /\ v # Last
  BY <1>1 DEF LoopInv, TypeInv, RangeInv
<1>3. Value(lo) \in Int /\ Value(hi) \in Int
  BY Bounds DEF LoopInv
<1>4. u \in Value(lo)..Value(hi)
  BY <1>2, <1>3 DEF Last
<1>5. v \in Base(paramType.root) /\ u \in Base(paramType.root) /\ u \in Values(paramType)
  BY <1>2, <1>4, Bounds DEF LoopInv
<1>6. param = Wrap(Width(paramType.root), v)
  BY <1>2, WordsRead DEF Value
<1>7. op \in {"+", "-"} /\ u = IF op = "+" THEN v + 1 ELSE v - 1
  BY <1>2
<1>8. Unchecked(paramType.root, op, Wrap(Width(paramType.root), v), 1)
        = Wrap(Width(paramType.root), u)
  <2> HIDE DEF v, op, u
  <2>1. QED
    BY <1>2, <1>5, <1>7, StepExact
<1>9. param' = Wrap(Width(paramType.root), u)
  BY <1>1, <1>6, <1>8
<1>10. Value(param)' = Read(paramType.root, param')
  BY <1>1, LoopKept
<1>11. Read(paramType.root, Wrap(Width(paramType.root), u)) = u
  BY <1>2, <1>5, ReadWord
<1>12. QED
  BY <1>4, <1>5, <1>9, <1>10, <1>11 DEF Words

LEMMA StepKeeps == LoopInv /\ Step => LoopInv'
<1> SUFFICES ASSUME LoopInv, Step PROVE LoopInv'
  OBVIOUS
<1>1. /\ exited' = exited /\ block = "step" /\ block' = "body" /\ Loop
  BY DEF Step
<1>2. /\ Value(lo)' = Value(lo) /\ Value(hi)' = Value(hi)
      /\ Words(paramType)' = Words(paramType)
  BY <1>1, LoopKept
<1>3. param' \in Words(paramType) /\ param' \in Word(Width(paramType.root))
  BY StepMoves, WordsRead DEF LoopInv, TypeInv
<1>4. TypeInv'
  BY <1>1, <1>3, LoopKept DEF LoopInv, TypeInv, Loop
<1>5. RangeInv'
  BY <1>1, <1>2, <1>3, StepMoves DEF LoopInv, TypeInv, RangeInv
<1>6. QED
  BY <1>4, <1>5 DEF LoopInv

LEMMA NextInv == LoopInv /\ [LoopNext]_loopVars => LoopInv'
<1> SUFFICES ASSUME LoopInv, [LoopNext]_loopVars PROVE LoopInv'
  OBVIOUS
<1>1. CASE UNCHANGED loopVars
  <2>1. Loop /\ param' = param /\ block' = block /\ exited' = exited
    BY <1>1 DEF loopVars, Loop
  <2>2. TypeInv'
    BY <2>1, LoopKept DEF LoopInv, TypeInv, Loop
  <2>3. /\ Value(lo)' = Value(lo) /\ Value(hi)' = Value(hi) /\ Last' = Last
        /\ Words(paramType)' = Words(paramType) /\ Value(param)' = Value(param)
    BY <2>1, LoopKept DEF Loop, Value
  <2>4. RangeInv'
    BY <2>1, <2>3 DEF LoopInv, RangeInv
  <2>5. QED
    BY <2>2, <2>4 DEF LoopInv
<1>2. QED
  BY <1>1, GuardKeeps, StartKeeps, EndBodyKeeps, LeaveBodyKeeps, StepKeeps DEF LoopNext

-----------------------------------------------------------------------------
(* What holds of every run *)

(* The inductive invariant holds of every run of the emitted loop.         *)
THEOREM LoopInvariant == LoopSpec => []LoopInv
<1>1. QED
  BY InitInv, NextInv, PTL DEF LoopSpec

(* The parameter is a word of its subtype whenever the body runs: the      *)
(* unchecked step of mlirGenForLoop never leaves it, at either end of the  *)
(* machine range and for every modulus.                                    *)
THEOREM LoopTypeCorrect == LoopSpec => []LoopTypeOK
<1>1. LoopInv => LoopTypeOK
  BY DEF LoopInv, TypeInv, RangeInv, LoopTypeOK
<1>2. QED
  BY <1>1, LoopInvariant, PTL

-----------------------------------------------------------------------------
(* The blocks run Ada's loop *)

(* The test of the range lets it in when it has a value; and goes past the *)
(* loop when it has none.                                                  *)
LEMMA GuardRefines == LoopInv /\ Guard => [Ada!Next]_Ada!vars
<1> SUFFICES ASSUME LoopInv, Guard PROVE [Ada!Next]_Ada!vars
  OBVIOUS
<1>1. /\ param' = param /\ exited' = exited /\ block = "entry" /\ Loop
      /\ block' = IF Cmp("<=", lo, hi) THEN "init" ELSE "merge"
  BY DEF Guard
<1>2. Cmp("<=", lo, hi) = (Value(lo) <= Value(hi))
  BY DEF Cmp, Predicate, Value
<1>3. /\ Value(lo)' = Value(lo) /\ Value(hi)' = Value(hi)
      /\ Value(param)' = Value(param) /\ isReverse' = isReverse
  BY <1>1, LoopKept DEF Loop, Value
<1>4. Value(lo) \in Int /\ Value(hi) \in Int /\ exited = FALSE
  BY <1>1, Bounds DEF LoopInv, RangeInv, TypeInv
<1>5. CASE Value(lo) <= Value(hi)
  <2>1. block' = "init"
    BY <1>1, <1>2, <1>5
  <2>2. Remaining' = Remaining /\ Phase' = Phase
    BY <1>1, <1>3, <2>1 DEF Remaining, Phase
  <2>3. QED
    BY <1>3, <2>2 DEF Ada!vars
<1>6. CASE Value(lo) > Value(hi)
  <2>1. block' = "merge"
    <3>1. ~(Value(lo) <= Value(hi))
      BY <1>4, <1>6
    <3>2. QED
      BY <1>1, <1>2, <3>1
  <2>2. Value(lo)..Value(hi) = {}
    BY <1>4, <1>6
  <2>3. Remaining = {} /\ Remaining' = {} /\ Phase = "between" /\ Phase' = "done"
    BY <1>1, <1>3, <1>4, <1>6, <2>1, <2>2 DEF Remaining, Phase
  <2>4. Ada!NoIteration
    BY <1>3, <2>3 DEF Ada!NoIteration, Ada!Bounds
  <2>5. QED
    BY <2>4 DEF Ada!Next
<1>7. QED
  BY <1>4, <1>5, <1>6

(* Coming into the body, for the first time or from a step, takes the next *)
(* value of the range.                                                     *)
LEMMA StartRefines == LoopInv /\ Start => [Ada!Next]_Ada!vars
<1> SUFFICES ASSUME LoopInv, Start PROVE Ada!Iterate
  BY DEF Ada!Next
<1> DEFINE l == Value(lo)
           h == Value(hi)
           v == IF isReverse THEN h ELSE l
<1>1. /\ param' = (IF isReverse THEN hi ELSE lo) /\ exited' = exited
      /\ block = "init" /\ block' = "body" /\ Loop
  BY DEF Start
<1>2. l \in Int /\ h \in Int /\ l <= h /\ isReverse \in BOOLEAN
  BY <1>1, Bounds DEF LoopInv, RangeInv, TypeInv
<1>3. /\ Value(lo)' = l /\ Value(hi)' = h /\ isReverse' = isReverse
      /\ Value(param)' = v
  BY <1>1, LoopKept DEF Value, Loop
<1>4. Remaining = l..h /\ Phase = "between" /\ Phase' = "body"
  BY <1>1 DEF Remaining, Phase
<1>5. Remaining' = IF isReverse THEN l..(v - 1) ELSE (v + 1)..h
  BY <1>1, <1>2, <1>3 DEF Remaining
<1>6. v \in l..h /\ Ada!IsNext(v)
  BY <1>2, <1>4 DEF Ada!IsNext
<1>7. Remaining' = Remaining \ {v}
  <2>1. \A a, b \in Int : /\ a..(b - 1) = (a..b) \ {b}
                          /\ (a + 1)..b = (a..b) \ {a}
    OBVIOUS
  <2>2. QED
    BY <1>2, <1>4, <1>5, <2>1
<1>8. QED
  BY <1>3, <1>4, <1>6, <1>7 DEF Ada!Iterate, Ada!Bounds

LEMMA StepRefines == LoopInv /\ Step => [Ada!Next]_Ada!vars
<1> SUFFICES ASSUME LoopInv, Step PROVE Ada!Iterate
  BY DEF Ada!Next
<1> DEFINE l == Value(lo)
           h == Value(hi)
           u == Value(param)
           v == IF isReverse THEN u - 1 ELSE u + 1
<1>1. block = "step" /\ block' = "body" /\ exited' = exited /\ Loop
  BY DEF Step
<1>2. /\ l \in Int /\ h \in Int /\ l <= h /\ isReverse \in BOOLEAN
      /\ u \in l..h /\ u # Last
  BY <1>1, Bounds DEF LoopInv, RangeInv, TypeInv
<1>3. /\ Value(lo)' = l /\ Value(hi)' = h /\ isReverse' = isReverse
      /\ Value(param)' = v
  BY <1>1, LoopKept, StepMoves DEF Loop
<1>4. /\ Remaining = (IF isReverse THEN l..(u - 1) ELSE (u + 1)..h)
      /\ Phase = "between" /\ Phase' = "body"
  BY <1>1, <1>2 DEF Remaining, Phase
<1>5. Remaining' = IF isReverse THEN l..(v - 1) ELSE (v + 1)..h
  BY <1>1, <1>2, <1>3 DEF Remaining
<1>6. v \in Remaining
  BY <1>2, <1>4 DEF Last
<1>7. Ada!IsNext(v)
  BY <1>2, <1>4 DEF Ada!IsNext
<1>8. Remaining' = Remaining \ {v}
  BY <1>2, <1>4, <1>5
<1>9. QED
  BY <1>3, <1>4, <1>6, <1>7, <1>8 DEF Ada!Iterate, Ada!Bounds

(* The parameter is at the last value exactly when none remains.           *)
LEMMA EndBodyRefines == LoopInv /\ EndBody => [Ada!Next]_Ada!vars
<1> SUFFICES ASSUME LoopInv, EndBody PROVE Ada!Continue
  BY DEF Ada!Next
<1>1. /\ param' = param /\ exited' = exited /\ block = "body" /\ Loop
      /\ block' = IF AtLast THEN "merge" ELSE "step"
  BY DEF EndBody
<1>2. AtLast = (Value(param) = Last)
  BY DEF AtLast, Cmp, Predicate, Value, Last
<1>3. /\ Value(lo)' = Value(lo) /\ Value(hi)' = Value(hi)
      /\ Value(param)' = Value(param) /\ isReverse' = isReverse
  BY <1>1, LoopKept DEF Loop, Value
<1>4. /\ Value(lo) \in Int /\ Value(hi) \in Int /\ Value(lo) <= Value(hi)
      /\ Value(param) \in Value(lo)..Value(hi) /\ exited = FALSE
      /\ isReverse \in BOOLEAN
  BY <1>1, Bounds DEF LoopInv, RangeInv, TypeInv
<1>5. /\ Remaining' = Remaining
      /\ Remaining = IF isReverse THEN Value(lo)..(Value(param) - 1)
                     ELSE (Value(param) + 1)..Value(hi)
  BY <1>1, <1>3, <1>4 DEF Remaining
<1>6. (Remaining = {}) = (Value(param) = Last)
  <2>1. \A a, b \in Int : (a..b = {}) = (a > b)
    OBVIOUS
  <2>2. QED
    BY <1>4, <1>5, <2>1 DEF Last
<1>7. Phase = "body" /\ Phase' = IF Remaining = {} THEN "done" ELSE "between"
  BY <1>1, <1>2, <1>4, <1>6 DEF Phase
<1>8. QED
  BY <1>3, <1>5, <1>7 DEF Ada!Continue, Ada!Bounds

LEMMA LeaveBodyRefines == LoopInv /\ LeaveBody => [Ada!Next]_Ada!vars
<1> SUFFICES ASSUME LoopInv, LeaveBody PROVE Ada!Exit
  BY DEF Ada!Next
<1>1. param' = param /\ exited' = TRUE /\ block = "body" /\ block' = "merge" /\ Loop
  BY DEF LeaveBody
<1>2. /\ Value(lo)' = Value(lo) /\ Value(hi)' = Value(hi)
      /\ Value(param)' = Value(param) /\ isReverse' = isReverse
  BY <1>1, LoopKept DEF Loop, Value
<1>3. Remaining' = Remaining
  BY <1>1, <1>2 DEF Remaining
<1>4. Phase = "body" /\ Phase' = "left"
  BY <1>1 DEF Phase
<1>5. QED
  BY <1>2, <1>3, <1>4 DEF Ada!Exit, Ada!Bounds

(* The body runs once for each value of the range, in order or in reverse: *)
(* none is left out and none comes twice, whatever the width, the modulus  *)
(* and the bounds of mlirGenForLoop's words.                               *)
THEOREM RunsAdaFor == LoopSpec => ImplementsAdaFor
<1>1. LoopInit => Ada!Init
  <2> SUFFICES ASSUME LoopInit PROVE Ada!Init
    OBVIOUS
  <2>1. Value(lo) \in Int /\ Value(hi) \in Int /\ Value(0) = 0
    BY InitInv, Bounds DEF LoopInv
  <2>2. block = "entry" /\ param = 0 /\ isReverse \in BOOLEAN
    BY DEF LoopInit
  <2>3. QED
    BY <2>1, <2>2 DEF Ada!Init, Remaining, Phase
<1>2. LoopInv /\ [LoopNext]_loopVars => [Ada!Next]_Ada!vars
  <2> SUFFICES ASSUME LoopInv, [LoopNext]_loopVars PROVE [Ada!Next]_Ada!vars
    OBVIOUS
  <2>1. CASE UNCHANGED loopVars
    BY <2>1 DEF loopVars, Ada!vars, Value, Remaining, Phase
  <2>2. QED
    BY <2>1, GuardRefines, StartRefines, EndBodyRefines, LeaveBodyRefines, StepRefines
       DEF LoopNext
<1>3. QED
  BY <1>1, <1>2, LoopInvariant, PTL DEF LoopSpec, ImplementsAdaFor, Ada!Spec
=============================================================================
