----------------------------- MODULE Words_proofs -----------------------------
(***************************************************************************)
(* Lemmas about numbers and machine words, for words of any width: powers  *)
(* of two, wrapping, and the bits of a word; and about sequences, walks    *)
(* and finite sets, of any kind.                                           *)
(***************************************************************************)
EXTENDS Words, FiniteSetTheorems, SequenceTheorems, TLAPS

-----------------------------------------------------------------------------
(* Least and greatest elements *)

LEMMA LeastNat ==
  ASSUME NEW T \in SUBSET Nat, T # {}
  PROVE  \E x \in T : \A y \in T : x <= y
<1>1. IsWellFoundedOn(OpToRel(<, Nat), Nat)
  BY NatLessThanWellFounded
<1>2. PICK x \in T : \A y \in T : ~(<<y, x>> \in OpToRel(<, Nat))
  BY <1>1, WFMin
<1>3. \A y \in T : ~(y < x)
  BY <1>2 DEF OpToRel
<1>4. QED BY <1>3

LEMMA Greatest ==
  ASSUME NEW n \in Nat, NEW T \in SUBSET (0..n), T # {}
  PROVE  \E x \in T : \A y \in T : y <= x
<1> DEFINE U == {n - t : t \in T}
<1>1. U \in SUBSET Nat /\ U # {}
  <2>1. \A t \in T : t \in 0..n
    OBVIOUS
  <2>2. \A t \in T : n - t \in Nat
    BY <2>1
  <2>3. QED BY <2>2
<1>2. PICK u \in U : \A y \in U : u <= y
  BY <1>1, LeastNat
<1>3. PICK x \in T : u = n - x
  BY <1>2
<1>4. \A y \in T : n - x <= n - y
  BY <1>2, <1>3
<1>5. QED BY <1>4

-----------------------------------------------------------------------------
(* Powers of two, by counting subsets *)

LEMMA Subsets ==
  ASSUME NEW n \in Nat
  PROVE  /\ IsFiniteSet(1..n) /\ IsFiniteSet(SUBSET (1..n))
         /\ Cardinality(SUBSET (1..n)) = 2^n
         /\ 2^n \in Nat \ {0}
<1>1. IsFiniteSet(1..n) /\ Cardinality(1..n) = n
  BY FS_Interval
<1>2. IsFiniteSet(SUBSET (1..n)) /\ Cardinality(SUBSET (1..n)) = 2^n
  BY <1>1, FS_SUBSET
<1>3. 2^n \in Nat
  BY <1>2, FS_CardinalityType
<1>4. 2^n # 0
  BY <1>2, FS_EmptySet
<1>5. QED BY <1>1, <1>2, <1>3, <1>4

LEMMA PowerZero == 2^0 = 1
<1>1. Cardinality(SUBSET (1..0)) = 2^0
  BY Subsets
<1>2. SUBSET (1..0) = {{}}
  OBVIOUS
<1>3. Cardinality({{}}) = 1
  BY FS_Singleton
<1>4. QED BY <1>1, <1>2, <1>3

LEMMA PowerNext ==
  ASSUME NEW n \in Nat
  PROVE  2^(n + 1) = 2 * 2^n
<1> DEFINE S == SUBSET (1..n)
           m == n + 1
           T == {X \cup {m} : X \in S}
           f == [X \in S |-> X \cup {m}]
<1>1. IsFiniteSet(S) /\ Cardinality(S) = 2^n /\ 2^n \in Nat
  BY Subsets
<1>2. Cardinality(SUBSET (1..m)) = 2^m
  <2>1. m \in Nat
    OBVIOUS
  <2>2. QED BY <2>1, Subsets
<1>3. f \in Bijection(S, T)
  <2>1. f \in [S -> T] /\ \A Y \in T : \E X \in S : f[X] = Y
    OBVIOUS
  <2>2. ASSUME NEW X \in S, NEW Y \in S, f[X] = f[Y]
        PROVE  X = Y
    <3>1. m \notin X /\ m \notin Y
      OBVIOUS
    <3>2. X \cup {m} = Y \cup {m}
      BY <2>2
    <3>3. QED BY <3>1, <3>2
  <2>3. QED BY <2>1, <2>2 DEF Bijection, Injection, Surjection, IsInjective
<1>4. IsFiniteSet(T) /\ Cardinality(T) = 2^n
  BY <1>1, <1>3, FS_Bijection DEF ExistsBijection
<1>5. S \cap T = {}
  <2>1. \A X \in S : m \notin X
    OBVIOUS
  <2>2. \A Y \in T : m \in Y
    OBVIOUS
  <2>3. QED BY <2>1, <2>2
<1>6. SUBSET (1..m) = S \cup T
  <2>1. 1..m = (1..n) \cup {m}
    OBVIOUS
  <2>2. ASSUME NEW X \in SUBSET (1..m)
        PROVE  X \in S \cup T
    <3>1. CASE m \notin X
      BY <2>1, <3>1
    <3>2. CASE m \in X
      <4>1. X \ {m} \in S
        BY <2>1
      <4>2. X = (X \ {m}) \cup {m}
        BY <3>2
      <4>3. QED BY <4>1, <4>2
    <3>3. QED BY <3>1, <3>2
  <2>3. ASSUME NEW X \in S
        PROVE  X \in SUBSET (1..m) /\ X \cup {m} \in SUBSET (1..m)
    BY <2>1
  <2> HIDE DEF S, m
  <2>4. SUBSET (1..m) \subseteq S \cup T
    BY <2>2
  <2>5. S \cup T \subseteq SUBSET (1..m)
    BY <2>3
  <2>6. QED BY <2>4, <2>5
<1>7. Cardinality(S \cup T) = 2^n + 2^n - Cardinality(S \cap T)
  BY <1>1, <1>4, FS_Union
<1>8. Cardinality(S \cap T) = 0
  BY <1>5, FS_EmptySet
<1>9. 2^m = Cardinality(S \cup T)
  BY <1>2, <1>6
<1>10. 2^m = 2^n + 2^n
  BY <1>1, <1>7, <1>8, <1>9
<1>11. QED BY <1>1, <1>10

LEMMA PowerSum ==
  ASSUME NEW m \in Nat, NEW n \in Nat
  PROVE  2^(m + n) = 2^m * 2^n
<1> DEFINE Bad == {k \in Nat : 2^(m + k) # 2^m * 2^k}
<1> SUFFICES ASSUME Bad # {} PROVE FALSE
  OBVIOUS
<1>1. PICK k \in Bad : \A j \in Bad : k <= j
  BY LeastNat
<1>2. k # 0
  <2>1. 2^m \in Nat
    BY Subsets
  <2>2. 2^(m + 0) = 2^m * 2^0
    BY <2>1, PowerZero
  <2>3. QED BY <1>1, <2>2
<1> DEFINE j == k - 1
<1>3. j \in Nat /\ j \notin Bad /\ k = j + 1 /\ m + j \in Nat /\ m + k = (m + j) + 1
  BY <1>1, <1>2
<1> HIDE DEF j
<1>4. 2^(m + j) = 2^m * 2^j
  BY <1>3
<1>5. 2^(m + k) = 2 * 2^(m + j) /\ 2^k = 2 * 2^j
  BY <1>3, PowerNext
<1>6. 2^m \in Nat \ {0} /\ 2^j \in Nat \ {0}
  BY <1>3, Subsets
<1>7. \A a, b \in Nat \ {0} : a * (2 * b) = 2 * (a * b)
  OBVIOUS
<1>8. 2^(m + k) = 2^m * 2^k
  BY <1>4, <1>5, <1>6, <1>7
<1>9. QED BY <1>1, <1>8

LEMMA PowerMono ==
  ASSUME NEW m \in Nat, NEW n \in Nat, m <= n
  PROVE  2^m <= 2^n
<1> DEFINE d == n - m
<1>1. d \in Nat /\ n = m + d
  OBVIOUS
<1> HIDE DEF d
<1>2. 2^n = 2^m * 2^d /\ 2^m \in Nat \ {0} /\ 2^d \in Nat \ {0}
  BY <1>1, PowerSum, Subsets
<1>3. \A a, b \in Nat \ {0} : a <= a * b
  OBVIOUS
<1>4. QED BY <1>2, <1>3

LEMMA HalfPower ==
  ASSUME NEW w \in Nat \ {0}
  PROVE  2^(w - 1) \in Nat \ {0} /\ 2^w = 2 * 2^(w - 1)
<1> DEFINE v == w - 1
<1>1. v \in Nat /\ w = v + 1
  OBVIOUS
<1> HIDE DEF v
<1>2. 2^v \in Nat \ {0} /\ 2^w = 2 * 2^v
  BY <1>1, PowerNext, Subsets
<1>3. QED BY <1>2 DEF v

-----------------------------------------------------------------------------
(* Wrapping and reading *)

LEMMA WrapWord ==
  ASSUME NEW w \in Nat, NEW n \in Int
  PROVE  Wrap(w, n) \in Word(w)
<1>1. 2^w \in Nat \ {0}
  BY Subsets
<1>2. QED BY <1>1 DEF Wrap, Word

LEMMA WrapSame ==
  ASSUME NEW w \in Nat, NEW n \in Word(w)
  PROVE  Wrap(w, n) = n
<1>1. 2^w \in Nat \ {0}
  BY Subsets
<1>2. QED BY <1>1 DEF Wrap, Word

(* Signed arithmetic on words is arithmetic on the numbers they stand for. *)
LEMMA WrapAdd ==
  ASSUME NEW w \in Nat, NEW a \in Int, NEW b \in Int
  PROVE  Wrap(w, Wrap(w, a) + b) = Wrap(w, a + b)
<1>1. 2^w \in Nat \ {0}
  BY Subsets
<1>2. \A P \in Nat \ {0} : ((a % P) + b) % P = (a + b) % P
  <2> TAKE P \in Nat \ {0}
  <2>1. a = P * (a \div P) + (a % P) /\ a \div P \in Int /\ a % P \in Int
    OBVIOUS
  <2> DEFINE x == (a % P) + b
  <2>2. x = P * (x \div P) + (x % P) /\ x \div P \in Int /\ x % P \in 0..(P - 1)
    BY <2>1
  <2> DEFINE q == (a \div P) + (x \div P)
  <2>3. a + b = P * q + (x % P) /\ q \in Int
    BY <2>1, <2>2
  <2>4. \A n \in Int : \A r \in 0..(P - 1) : (P * n + r) % P = r
    OBVIOUS
  <2>5. QED BY <2>2, <2>3, <2>4
<1>3. QED BY <1>1, <1>2 DEF Wrap

(* A number and its word differ by a multiple of 2^w, and numbers that do   *)
(* have the same word.                                                     *)
LEMMA WrapShape ==
  ASSUME NEW w \in Nat, NEW a \in Int
  PROVE  \E k \in Int : Wrap(w, a) = a + 2^w * k
<1>1. 2^w \in Nat \ {0}
  BY Subsets
<1>2. \A P \in Nat \ {0} : \E k \in Int : a % P = a + P * k
  <2> TAKE P \in Nat \ {0}
  <2>1. a = P * (a \div P) + (a % P) /\ a \div P \in Int /\ a % P \in Int
    OBVIOUS
  <2> DEFINE k == -(a \div P)
  <2>2. k \in Int /\ a % P = a + P * k
    BY <2>1
  <2>3. QED BY <2>2
<1>3. QED BY <1>1, <1>2 DEF Wrap

LEMMA WrapShift ==
  ASSUME NEW w \in Nat, NEW a \in Int, NEW k \in Int
  PROVE  Wrap(w, a + 2^w * k) = Wrap(w, a)
<1>1. 2^w \in Nat \ {0}
  BY Subsets
<1>2. \A P \in Nat \ {0} : (a + P * k) % P = a % P
  <2> TAKE P \in Nat \ {0}
  <2>1. a = P * (a \div P) + (a % P) /\ a \div P \in Int /\ a % P \in 0..(P - 1)
    OBVIOUS
  <2> DEFINE q == (a \div P) + k
  <2>2. a + P * k = P * q + (a % P) /\ q \in Int
    BY <2>1
  <2>3. \A n \in Int : \A r \in 0..(P - 1) : (P * n + r) % P = r
    OBVIOUS
  <2>4. QED BY <2>1, <2>2, <2>3
<1>3. QED BY <1>1, <1>2 DEF Wrap

(* Machine addition, subtraction and multiplication of words are those of  *)
(* the numbers the words stand for.                                        *)
LEMMA WrapArith ==
  ASSUME NEW w \in Nat, NEW a \in Int, NEW b \in Int, NEW op \in {"+", "-", "*"}
  PROVE  Wrap(w, Arith(op, Wrap(w, a), Wrap(w, b))) = Wrap(w, Arith(op, a, b))
<1>1. PICK i \in Int : Wrap(w, a) = a + 2^w * i
  BY WrapShape
<1>2. PICK j \in Int : Wrap(w, b) = b + 2^w * j
  BY WrapShape
<1>3. PICK P \in Nat : P = 2^w
  BY Subsets
<1>4. \E k \in Int : Arith(op, Wrap(w, a), Wrap(w, b)) = Arith(op, a, b) + P * k
  <2>1. CASE op = "+"
    <3>1. i + j \in Int /\ (a + P * i) + (b + P * j) = (a + b) + P * (i + j)
      BY <1>3
    <3>2. QED BY <1>1, <1>2, <1>3, <2>1, <3>1 DEF Arith
  <2>2. CASE op = "-"
    <3>1. i - j \in Int /\ (a + P * i) - (b + P * j) = (a - b) + P * (i - j)
      BY <1>3
    <3>2. QED BY <1>1, <1>2, <1>3, <2>2, <3>1 DEF Arith
  <2>3. CASE op = "*"
    <3> DEFINE k == a * j + b * i + P * (i * j)
    <3>1. k \in Int /\ (a + P * i) * (b + P * j) = a * b + P * k
      BY <1>3
    <3> HIDE DEF k
    <3>2. Arith(op, Wrap(w, a), Wrap(w, b)) = Arith(op, a, b) + P * k
      BY <1>1, <1>2, <1>3, <2>3, <3>1 DEF Arith
    <3>3. QED BY <3>1, <3>2
  <2>4. QED BY <2>1, <2>2, <2>3
<1>5. Arith(op, a, b) \in Int
  BY DEF Arith
<1>6. \A n, k \in Int : Wrap(w, n + 2^w * k) = Wrap(w, n)
  BY WrapShift
<1>7. PICK k \in Int : Arith(op, Wrap(w, a), Wrap(w, b)) = Arith(op, a, b) + 2^w * k
  BY <1>3, <1>4
<1>8. Wrap(w, Arith(op, a, b) + 2^w * k) = Wrap(w, Arith(op, a, b))
  BY <1>5, <1>6
<1>9. QED BY <1>7, <1>8

(* A narrower word of a word is the narrower word of the number.           *)
LEMMA WrapWrap ==
  ASSUME NEW m \in Nat, NEW n \in Nat, m <= n, NEW a \in Int
  PROVE  Wrap(m, Wrap(n, a)) = Wrap(m, a)
<1>1. PICK i \in Int : Wrap(n, a) = a + 2^n * i
  BY WrapShape
<1>2. PICK d \in Nat : n = m + d
  <2>1. n - m \in Nat /\ n = m + (n - m)
    OBVIOUS
  <2>2. QED BY <2>1
<1>3. 2^n = 2^m * 2^d /\ 2^m \in Nat /\ 2^d \in Nat
  BY <1>2, PowerSum, Subsets
<1>4. \A P, Q \in Nat : (P * Q) * i = P * (Q * i) /\ Q * i \in Int
  OBVIOUS
<1>5. Wrap(n, a) = a + 2^m * (2^d * i) /\ 2^d * i \in Int
  BY <1>1, <1>3, <1>4
<1>6. PICK k \in Int : k = 2^d * i
  BY <1>5
<1>7. Wrap(m, a + 2^m * k) = Wrap(m, a)
  BY WrapShift
<1>8. QED BY <1>5, <1>6, <1>7

LEMMA ReadSigned ==
  ASSUME NEW w \in Nat \ {0}, NEW n \in SignedRange(w)
  PROVE  AsSigned(w, Wrap(w, n)) = n
<1>1. 2^(w - 1) \in Nat \ {0} /\ 2^w = 2 * 2^(w - 1)
  BY HalfPower
<1>2. \A H \in Nat \ {0} : \A k \in (-H)..(H - 1) :
        (IF k % (2 * H) < H THEN k % (2 * H) ELSE (k % (2 * H)) - 2 * H) = k
  OBVIOUS
<1>3. QED BY <1>1, <1>2 DEF AsSigned, Wrap, SignedRange

(* A word is the word of the number it is read as.                         *)
LEMMA SignedRead ==
  ASSUME NEW w \in Nat \ {0}, NEW x \in Word(w)
  PROVE  /\ AsSigned(w, x) \in SignedRange(w)
         /\ AsSigned(w, x) \in Int
         /\ Wrap(w, AsSigned(w, x)) = x
<1>1. 2^(w - 1) \in Nat \ {0} /\ 2^w = 2 * 2^(w - 1)
  BY HalfPower
<1>2. \A H \in Nat \ {0} : \A k \in 0..(2 * H - 1) :
        LET s == IF k < H THEN k ELSE k - 2 * H
        IN  s \in (-H)..(H - 1) /\ s % (2 * H) = k
  <2> TAKE H \in Nat \ {0}
  <2> TAKE k \in 0..(2 * H - 1)
  <2>1. k % (2 * H) = k /\ (k - 2 * H) % (2 * H) = k
    <3>1. \A n \in Int : \A r \in 0..(2 * H - 1) : ((2 * H) * n + r) % (2 * H) = r
      OBVIOUS
    <3>2. k = (2 * H) * 0 + k /\ k - 2 * H = (2 * H) * (-1) + k
      OBVIOUS
    <3>3. QED BY <3>1, <3>2
  <2>2. QED BY <2>1
<1>3. QED BY <1>1, <1>2 DEF AsSigned, Wrap, SignedRange, Word

(* Wrapping to w bits and reading as signed gives back any number of them, *)
(* and a word with a larger one is none the worse.                         *)
LEMMA SignedInWider ==
  ASSUME NEW m \in Nat \ {0}, NEW n \in Nat \ {0}, m <= n
  PROVE  /\ SignedRange(m) \subseteq SignedRange(n)
         /\ Word(m) \subseteq Word(n)
         /\ m < n => Word(m) \subseteq SignedRange(n)
<1>1. m - 1 \in Nat /\ n - 1 \in Nat /\ m \in Nat /\ n \in Nat
  OBVIOUS
<1>2. /\ 2^(m - 1) \in Nat \ {0} /\ 2^(n - 1) \in Nat \ {0}
      /\ 2^m \in Nat \ {0} /\ 2^n \in Nat \ {0}
  BY <1>1, Subsets
<1>3. 2^(m - 1) <= 2^(n - 1) /\ 2^m <= 2^n
  BY <1>1, PowerMono
<1>4. m < n => 2^m <= 2^(n - 1)
  BY <1>1, PowerMono
<1>5. QED BY <1>2, <1>3, <1>4 DEF SignedRange, Word

-----------------------------------------------------------------------------
(* Bits *)

LEMMA DivPower ==
  ASSUME NEW a \in Nat, NEW k \in Nat
  PROVE  /\ a \div 2^k \in Nat
         /\ a \div 2^(k + 1) = (a \div 2^k) \div 2
         /\ a < 2^k => a \div 2^k = 0
<1>1. 2^k \in Nat \ {0} /\ 2^(k + 1) = 2 * 2^k
  BY PowerNext, Subsets
<1>2. \A P \in Nat \ {0} : /\ a \div P \in Nat
                           /\ a \div (2 * P) = (a \div P) \div 2
                           /\ a < P => a \div P = 0
  OBVIOUS
<1>3. QED BY <1>1, <1>2

(* A word is known by its bits.                                            *)
LEMMA BitsDetermine ==
  ASSUME NEW w \in Nat, NEW a \in Word(w), NEW b \in Word(w),
         \A k \in 0..(w - 1) : Bit(a, k) = Bit(b, k)
  PROVE  a = b
<1> DEFINE T == {k \in 0..w : a \div 2^k = b \div 2^k}
<1>1. a \in Nat /\ b \in Nat /\ a < 2^w /\ b < 2^w
  BY Subsets DEF Word
<1>2. w \in T
  BY <1>1, DivPower
<1>3. PICK k \in T : \A j \in T : k <= j
  <2>1. T # {}
    BY <1>2
  <2>2. T \subseteq 0..w /\ 0..w \subseteq Nat
    OBVIOUS
  <2>3. T \in SUBSET Nat
    BY <2>2
  <2>4. QED BY <2>1, <2>3, LeastNat
<1>4. k = 0
  <2> SUFFICES ASSUME k # 0 PROVE FALSE
    OBVIOUS
  <2> DEFINE j == k - 1
  <2>1. j \in 0..(w - 1) /\ j \in Nat /\ k = j + 1 /\ j \notin T
    BY <1>3
  <2> HIDE DEF j
  <2>2. /\ a \div 2^k = (a \div 2^j) \div 2 /\ a \div 2^j \in Nat
        /\ b \div 2^k = (b \div 2^j) \div 2 /\ b \div 2^j \in Nat
    BY <1>1, <2>1, DivPower
  <2>3. (a \div 2^j) % 2 = (b \div 2^j) % 2
    BY <2>1 DEF Bit
  <2>4. \A x, y \in Nat : x \div 2 = y \div 2 /\ x % 2 = y % 2 => x = y
    OBVIOUS
  <2>5. a \div 2^j = b \div 2^j
    BY <1>3, <2>2, <2>3, <2>4
  <2>6. QED BY <2>1, <2>5
<1>5. a \div 1 = b \div 1
  BY <1>3, <1>4, PowerZero
<1>6. \A x \in Nat : x \div 1 = x
  OBVIOUS
<1>7. QED BY <1>1, <1>5, <1>6

LEMMA BitType ==
  ASSUME NEW a \in Nat, NEW k \in Nat
  PROVE  Bit(a, k) \in {0, 1} /\ (a < 2^k => Bit(a, k) = 0)
<1>1. a \div 2^k \in Nat /\ (a < 2^k => a \div 2^k = 0)
  BY DivPower
<1>2. \A x \in Nat : x % 2 \in {0, 1} /\ (x = 0 => x % 2 = 0)
  OBVIOUS
<1>3. QED BY <1>1, <1>2 DEF Bit

(* A number below 2^j is no bit above the j lowest.                        *)
LEMMA BitAbove ==
  ASSUME NEW j \in Nat, NEW a \in Word(j), NEW k \in Nat, j <= k
  PROVE  Bit(a, k) = 0
<1>1. a \in Nat /\ a < 2^j /\ 2^j \in Nat /\ 2^k \in Nat /\ 2^j <= 2^k
  BY Subsets, PowerMono DEF Word
<1>2. QED BY <1>1, BitType

(* A bit set in front of a word leaves the bits of the word as they are.   *)
LEMMA BitInFront ==
  ASSUME NEW w \in Nat, NEW z \in Word(w), NEW b \in {0, 1}
  PROVE  /\ z + b * 2^w \in Word(w + 1)
         /\ Bit(z + b * 2^w, w) = b
         /\ \A k \in 0..(w - 1) : Bit(z + b * 2^w, k) = Bit(z, k)
<1>1. 2^w \in Nat \ {0} /\ 2^(w + 1) = 2 * 2^w /\ z \in 0..(2^w - 1)
  BY Subsets, PowerNext DEF Word
<1>2. z + b * 2^w \in Word(w + 1)
  <2>1. \A P \in Nat \ {0} : \A y \in 0..(P - 1) : y + b * P \in 0..(2 * P - 1)
    <3> TAKE P \in Nat \ {0}
    <3> TAKE y \in 0..(P - 1)
    <3>1. b * P = 0 \/ b * P = P
      OBVIOUS
    <3>2. QED BY <3>1
  <2>2. QED BY <1>1, <2>1 DEF Word
<1>3. Bit(z + b * 2^w, w) = b
  <2>1. \A P \in Nat \ {0} : \A y \in 0..(P - 1) : (y + b * P) \div P = b
    <3> TAKE P \in Nat \ {0}
    <3> TAKE y \in 0..(P - 1)
    <3>1. \A x \in Nat : (P * x + y) \div P = x
      OBVIOUS
    <3>2. b * P = P * b /\ b \in Nat
      OBVIOUS
    <3>3. y + b * P = P * b + y
      BY <3>2
    <3>4. QED BY <3>1, <3>2, <3>3
  <2>2. (z + b * 2^w) \div 2^w = b
    BY <1>1, <2>1
  <2>3. QED BY <2>2 DEF Bit
<1>4. ASSUME NEW k \in 0..(w - 1)
      PROVE  Bit(z + b * 2^w, k) = Bit(z, k)
  <2>1. PICK d \in Nat : w = (k + 1) + d
    <3>1. w - k - 1 \in Nat /\ w = (k + 1) + (w - k - 1)
      OBVIOUS
    <3>2. QED BY <3>1
  <2>2. PICK P, D \in Nat \ {0} : P = 2^k /\ D = 2^d
    <3>1. k \in Nat
      OBVIOUS
    <3>2. 2^k \in Nat \ {0} /\ 2^d \in Nat \ {0}
      BY <3>1, Subsets
    <3>3. QED BY <3>2
  <2>3. 2^w = (2 * P) * D
    <3>1. k + 1 \in Nat /\ k \in Nat
      OBVIOUS
    <3>2. 2^w = 2^(k + 1) * 2^d /\ 2^(k + 1) = 2 * 2^k
      BY <2>1, <3>1, PowerSum, PowerNext
    <3>3. QED BY <2>2, <3>2
  <2>4. PICK q \in Nat, r \in 0..(P - 1) : z = P * q + r
    <3>1. z = P * (z \div P) + (z % P) /\ z \div P \in Nat /\ z % P \in 0..(P - 1)
      BY <1>1
    <3>2. QED BY <3>1
  <2>5. PICK e \in Nat : e = b * D
    OBVIOUS
  <2>6. b * ((2 * P) * D) = P * (2 * e)
    <3>1. CASE b = 0
      BY <2>5, <3>1
    <3>2. CASE b = 1
      BY <2>5, <3>2
    <3>3. QED BY <3>1, <3>2
  <2>7. z + b * 2^w = P * (q + 2 * e) + r
    <3>1. P * (q + 2 * e) = P * q + P * (2 * e)
      OBVIOUS
    <3>2. QED BY <2>3, <2>4, <2>6, <3>1
  <2>8. \A x \in Nat : (P * x + r) \div P = x
    OBVIOUS
  <2>9. (z + b * 2^w) \div P = q + 2 * e /\ z \div P = q
    BY <2>4, <2>7, <2>8
  <2>10. (q + 2 * e) % 2 = q % 2
    OBVIOUS
  <2>11. QED BY <2>2, <2>9, <2>10 DEF Bit
<1>5. QED BY <1>2, <1>3, <1>4

(* Any choice of bits is a word.                                           *)
LEMMA BitsExist ==
  ASSUME NEW w \in Nat, NEW f, \A k \in Nat : f[k] \in {0, 1}
  PROVE  \E z \in Word(w) : \A k \in 0..(w - 1) : Bit(z, k) = f[k]
<1> DEFINE P(n) == \E z \in Word(n) : \A k \in 0..(n - 1) : Bit(z, k) = f[k]
           Bad == {n \in Nat : ~P(n)}
<1> SUFFICES ASSUME Bad # {} PROVE FALSE
  OBVIOUS
<1>1. PICK n \in Bad : \A j \in Bad : n <= j
  BY LeastNat
<1>2. n # 0
  <2>1. 0 \in Word(0)
    BY PowerZero DEF Word
  <2>2. 0..(0 - 1) = {}
    OBVIOUS
  <2>3. P(0)
    BY <2>1, <2>2
  <2>4. QED BY <1>1, <2>3
<1>3. PICK j \in Nat : n = j + 1
  <2>1. n - 1 \in Nat /\ n = (n - 1) + 1
    BY <1>1, <1>2
  <2>2. QED BY <2>1
<1>4. P(j)
  BY <1>1, <1>3
<1>5. PICK z \in Word(j) : \A k \in 0..(j - 1) : Bit(z, k) = f[k]
  BY <1>4
<1>6. PICK b \in {0, 1} : b = f[j]
  OBVIOUS
<1>7. PICK y : y = z + b * 2^j
  OBVIOUS
<1>8. /\ y \in Word(n) /\ Bit(y, j) = f[j]
      /\ \A k \in 0..(j - 1) : Bit(y, k) = f[k]
  <2>1. /\ z + b * 2^j \in Word(j + 1) /\ Bit(z + b * 2^j, j) = b
        /\ \A k \in 0..(j - 1) : Bit(z + b * 2^j, k) = Bit(z, k)
    BY BitInFront
  <2>2. y \in Word(j + 1) /\ Bit(y, j) = b /\ \A k \in 0..(j - 1) : Bit(y, k) = Bit(z, k)
    BY <1>7, <2>1
  <2>3. QED BY <1>3, <1>5, <1>6, <2>2
<1>9. \A k \in 0..(n - 1) : k = j \/ k \in 0..(j - 1)
  BY <1>3
<1>10. P(n)
  BY <1>8, <1>9
<1>11. QED BY <1>1, <1>10

(* The bit a bitwise operator makes of two bits.                           *)
BitOf(op, a, b) ==
  CASE op = "and" -> a * b
    [] op = "or"  -> IF a + b > 0 THEN 1 ELSE 0
    [] op = "xor" -> (a + b) % 2

BitOps == {"and", "or", "xor"}

LEMMA BitOfBit ==
  ASSUME NEW op \in BitOps, NEW a \in {0, 1}, NEW b \in {0, 1}
  PROVE  /\ BitOf(op, a, b) \in {0, 1} /\ BitOf(op, 0, 0) = 0
         /\ BitOf("and", a, b) <= a /\ BitOf("xor", a, 1) = 1 - a
  BY DEF BitOf, BitOps

(* A bitwise operator has a result, the word with the bits it should have. *)
LEMMA BitwiseBits ==
  ASSUME NEW w \in Nat, NEW op \in BitOps, NEW x \in Nat, NEW y \in Nat
  PROVE  /\ Bitwise(w, op, x, y) \in Word(w)
         /\ \A k \in 0..(w - 1) : Bit(Bitwise(w, op, x, y), k) = BitOf(op, Bit(x, k), Bit(y, k))
<1> DEFINE f == [k \in Nat |-> BitOf(op, Bit(x, k), Bit(y, k))]
           P(z) == \A k \in 0..(w - 1) : Bit(z, k) = BitOf(op, Bit(x, k), Bit(y, k))
<1>1. \A k \in Nat : f[k] \in {0, 1}
  BY BitType, BitOfBit
<1>2. \E z \in Word(w) : \A k \in 0..(w - 1) : Bit(z, k) = f[k]
  <2> HIDE DEF f
  <2>1. QED BY <1>1, BitsExist
<1>3. \A k \in 0..(w - 1) : f[k] = BitOf(op, Bit(x, k), Bit(y, k))
  OBVIOUS
<1>4. \E z \in Word(w) : P(z)
  <2> HIDE DEF f
  <2>1. QED BY <1>2, <1>3
<1>5. Bitwise(w, op, x, y) = CHOOSE z \in Word(w) : P(z)
  BY DEF Bitwise, BitOf
<1> HIDE DEF P
<1>6. Bitwise(w, op, x, y) \in Word(w) /\ P(Bitwise(w, op, x, y))
  BY <1>4, <1>5
<1>7. QED BY <1>6 DEF P

LEMMA BitwiseIs ==
  ASSUME NEW w \in Nat, NEW op \in BitOps, NEW x \in Nat, NEW y \in Nat,
         NEW z \in Word(w),
         \A k \in 0..(w - 1) : Bit(z, k) = BitOf(op, Bit(x, k), Bit(y, k))
  PROVE  Bitwise(w, op, x, y) = z
<1> DEFINE b == Bitwise(w, op, x, y)
<1>1. b \in Word(w) /\ \A k \in 0..(w - 1) : Bit(b, k) = BitOf(op, Bit(x, k), Bit(y, k))
  BY BitwiseBits
<1> HIDE DEF b
<1>2. \A k \in 0..(w - 1) : Bit(b, k) = Bit(z, k)
  BY <1>1
<1>3. b = z
  BY <1>1, <1>2, BitsDetermine
<1>4. QED BY <1>3 DEF b

(* The result of numbers below 2^j is below it too, in a word of any       *)
(* width.                                                                  *)
LEMMA BitwiseBelow ==
  ASSUME NEW w \in Nat, NEW j \in 0..w, NEW op \in BitOps,
         NEW x \in Word(j), NEW y \in Word(j)
  PROVE  Bitwise(w, op, x, y) \in Word(j)
<1>1. j \in Nat /\ 2^j \in Nat \ {0} /\ 2^j <= 2^w /\ 2^w \in Nat
  <2>1. j \in Nat /\ j <= w
    OBVIOUS
  <2>2. QED BY <2>1, PowerMono, Subsets
<1>2. x \in Nat /\ y \in Nat
  BY <1>1 DEF Word
<1>3. PICK z : z = Bitwise(j, op, x, y)
  OBVIOUS
<1>4. z \in Word(j) /\ \A k \in 0..(j - 1) : Bit(z, k) = BitOf(op, Bit(x, k), Bit(y, k))
  BY <1>1, <1>2, <1>3, BitwiseBits
<1>5. z \in Word(w)
  BY <1>1, <1>4 DEF Word
<1>6. ASSUME NEW k \in 0..(w - 1)
      PROVE  Bit(z, k) = BitOf(op, Bit(x, k), Bit(y, k))
  <2>1. CASE k < j
    BY <1>1, <1>4, <2>1
  <2>2. CASE ~(k < j)
    <3>1. k \in Nat /\ j <= k
      BY <1>1, <2>2
    <3>2. Bit(z, k) = 0 /\ Bit(x, k) = 0 /\ Bit(y, k) = 0
      BY <1>1, <1>4, <3>1, BitAbove
    <3>3. BitOf(op, 0, 0) = 0
      BY BitOfBit
    <3>4. QED BY <3>2, <3>3
  <2>3. QED BY <2>1, <2>2
<1>7. Bitwise(w, op, x, y) = z
  BY <1>2, <1>5, <1>6, BitwiseIs
<1>8. QED BY <1>4, <1>7

(* A number whose bits are all another's is not larger.                    *)
LEMMA FewerBits ==
  ASSUME NEW w \in Nat, NEW z \in Word(w), NEW x \in Word(w),
         \A k \in 0..(w - 1) : Bit(z, k) <= Bit(x, k)
  PROVE  z <= x
<1>1. z \in Nat /\ x \in Nat /\ z < 2^w /\ x < 2^w
  BY Subsets DEF Word
<1> DEFINE T == {k \in 0..w : ~(z \div 2^k <= x \div 2^k)}
<1>2. T = {}
  <2> SUFFICES ASSUME T # {} PROVE FALSE
    OBVIOUS
  <2>1. PICK k \in T : \A j \in T : j <= k
    <3>1. T \in SUBSET (0..w)
      OBVIOUS
    <3>2. QED BY <3>1, Greatest
  <2>2. k \in 0..w /\ k \in Nat /\ ~(z \div 2^k <= x \div 2^k)
    OBVIOUS
  <2>3. k # w
    <3>1. z \div 2^w = 0 /\ x \div 2^w = 0
      BY <1>1, DivPower
    <3>2. QED BY <2>2, <3>1
  <2>4. k + 1 \in 0..w /\ k \in 0..(w - 1) /\ k + 1 \notin T
    BY <2>1, <2>2, <2>3
  <2>5. z \div 2^(k + 1) <= x \div 2^(k + 1)
    BY <2>4
  <2> HIDE DEF T
  <2>6. /\ z \div 2^(k + 1) = (z \div 2^k) \div 2 /\ z \div 2^k \in Nat
        /\ x \div 2^(k + 1) = (x \div 2^k) \div 2 /\ x \div 2^k \in Nat
    BY <1>1, <2>2, DivPower
  <2>7. (z \div 2^k) % 2 <= (x \div 2^k) % 2
    BY <2>4 DEF Bit
  <2>8. \A a, b \in Nat : a \div 2 <= b \div 2 /\ a % 2 <= b % 2 => a <= b
    OBVIOUS
  <2>9. z \div 2^k <= x \div 2^k
    <3>1. (z \div 2^k) \div 2 <= (x \div 2^k) \div 2
      BY <2>5, <2>6
    <3>2. QED BY <2>6, <2>7, <2>8, <3>1
  <2>10. QED BY <2>2, <2>9
<1>3. z \div 2^0 <= x \div 2^0
  <2>1. 0 \in 0..w
    OBVIOUS
  <2>2. QED BY <1>2, <2>1
<1>4. \A a \in Nat : a \div 1 = a
  OBVIOUS
<1>5. QED BY <1>1, <1>3, <1>4, PowerZero

LEMMA AndBelow ==
  ASSUME NEW w \in Nat, NEW x \in Word(w), NEW y \in Word(w)
  PROVE  Bitwise(w, "and", x, y) <= x
<1>1. x \in Nat /\ y \in Nat
  BY Subsets DEF Word
<1>2. PICK z : z = Bitwise(w, "and", x, y)
  OBVIOUS
<1>3. /\ z \in Word(w)
      /\ \A k \in 0..(w - 1) : Bit(z, k) = BitOf("and", Bit(x, k), Bit(y, k))
  BY <1>1, <1>2, BitwiseBits DEF BitOps
<1>4. \A k \in 0..(w - 1) : Bit(z, k) <= Bit(x, k)
  <2> TAKE k \in 0..(w - 1)
  <2>1. Bit(x, k) \in {0, 1} /\ Bit(y, k) \in {0, 1}
    BY <1>1, BitType
  <2>2. QED BY <1>3, <2>1, BitOfBit DEF BitOps
<1>5. z <= x
  BY <1>3, <1>4, FewerBits
<1>6. QED BY <1>2, <1>5

(* 2^j - 1 has its j lowest bits set.                                      *)
LEMMA MaskBit ==
  ASSUME NEW j \in Nat, NEW k \in Nat, k < j
  PROVE  Bit(2^j - 1, k) = 1
<1> DEFINE d == j - k - 1
<1>1. d \in Nat /\ k + 1 \in Nat /\ j = (k + 1) + d
  OBVIOUS
<1> HIDE DEF d
<1>2. 2^j = 2^(k + 1) * 2^d /\ 2^(k + 1) = 2 * 2^k
  BY <1>1, PowerSum, PowerNext
<1>3. 2^k \in Nat \ {0} /\ 2^d \in Nat \ {0}
  BY <1>1, Subsets
<1>4. \A P, D \in Nat \ {0} : ((2 * P) * D - 1) \div P = 2 * D - 1
  <2> TAKE P, D \in Nat \ {0}
  <2> DEFINE q == 2 * D - 1
             r == P - 1
  <2>1. (2 * P) * D - 1 = P * q + r
    OBVIOUS
  <2>2. q \in Nat /\ r \in 0..(P - 1)
    OBVIOUS
  <2>3. \A x \in Nat : \A y \in 0..(P - 1) : (P * x + y) \div P = x
    OBVIOUS
  <2>4. QED BY <2>1, <2>2, <2>3
<1>5. \A D \in Nat \ {0} : (2 * D - 1) % 2 = 1
  OBVIOUS
<1>6. (2^j - 1) \div 2^k = 2 * 2^d - 1
  BY <1>2, <1>3, <1>4
<1>7. QED BY <1>3, <1>5, <1>6 DEF Bit

(* Masking with 2^j - 1 leaves a number below 2^j as it is.                *)
LEMMA MaskSame ==
  ASSUME NEW w \in Nat, NEW j \in 0..w, NEW z \in 0..(2^j - 1)
  PROVE  Bitwise(w, "and", z, 2^j - 1) = z
<1> DEFINE m == 2^j - 1
           P(y) == \A k \in 0..(w - 1) : Bit(y, k) = Bit(z, k) * Bit(m, k)
<1>1. j \in Nat /\ 2^j \in Nat \ {0} /\ 2^j <= 2^w /\ 2^w \in Nat
  BY PowerMono, Subsets
<1>2. z \in Word(w) /\ z \in Nat
  BY <1>1 DEF Word
<1>3. P(z)
  <2> TAKE k \in 0..(w - 1)
  <2>1. CASE k < j
    <3>1. Bit(m, k) = 1
      BY <1>1, <2>1, MaskBit
    <3>2. Bit(z, k) \in Nat
      BY <1>2, DivPower DEF Bit
    <3>3. QED BY <3>1, <3>2
  <2>2. CASE ~(k < j)
    <3>1. z < 2^k
      BY <1>1, <2>2, PowerMono, Subsets
    <3>2. Bit(z, k) = 0
      BY <1>2, <3>1, DivPower DEF Bit
    <3>3. Bit(m, k) \in Int
      <4>1. m \in Nat /\ k \in Nat
        BY <1>1
      <4>2. \A x \in Nat : x \div 2^k \in Nat
        BY <4>1, DivPower
      <4>3. m \div 2^k \in Nat
        BY <4>1, <4>2
      <4>4. QED BY <4>3 DEF Bit
    <3>4. QED BY <3>2, <3>3
  <2>3. QED BY <2>1, <2>2
<1>4. \A y \in Word(w) : P(y) => y = z
  BY <1>2, <1>3, BitsDetermine
<1>5. Bitwise(w, "and", z, m) = CHOOSE y \in Word(w) : P(y)
  BY DEF Bitwise
<1>6. QED BY <1>2, <1>3, <1>4, <1>5

(* The remainder by a power of two keeps the lowest bits.                  *)
LEMMA BitMod ==
  ASSUME NEW j \in Nat, NEW z \in Nat, NEW k \in Nat, k < j
  PROVE  Bit(z % 2^j, k) = Bit(z, k)
<1>1. PICK d \in Nat : j = (k + 1) + d
  <2>1. j - k - 1 \in Nat /\ j = (k + 1) + (j - k - 1)
    OBVIOUS
  <2>2. QED BY <2>1
<1>2. PICK P, D \in Nat \ {0} : P = 2^k /\ D = 2^d
  <2>1. 2^k \in Nat \ {0} /\ 2^d \in Nat \ {0}
    BY Subsets
  <2>2. QED BY <2>1
<1>3. 2^j = (2 * P) * D
  <2>1. k + 1 \in Nat
    OBVIOUS
  <2>2. 2^j = 2^(k + 1) * 2^d /\ 2^(k + 1) = 2 * 2^k
    BY <1>1, <2>1, PowerSum, PowerNext
  <2>3. QED BY <1>2, <2>2
<1>4. PICK y \in Nat, q \in Nat : y = z % 2^j /\ z = ((2 * P) * D) * q + y
  <2>1. PICK M \in Nat \ {0} : M = (2 * P) * D
    BY <1>3, Subsets
  <2>2. z = M * (z \div M) + (z % M) /\ z \div M \in Nat /\ z % M \in Nat
    OBVIOUS
  <2>3. QED BY <1>3, <2>1, <2>2
<1>5. PICK a \in Nat, r \in 0..(P - 1) : y = P * a + r
  <2>1. y = P * (y \div P) + (y % P) /\ y \div P \in Nat /\ y % P \in 0..(P - 1)
    OBVIOUS
  <2>2. QED BY <2>1
<1>6. PICK e \in Nat : e = D * q
  OBVIOUS
<1>7. ((2 * P) * D) * q = P * (2 * e)
  <2>1. ((2 * P) * D) * q = (2 * P) * (D * q)
    OBVIOUS
  <2>2. (2 * P) * e = P * (2 * e)
    OBVIOUS
  <2>3. QED BY <1>6, <2>1, <2>2
<1>8. z = P * (a + 2 * e) + r
  <2>1. PICK K \in Nat : K = P * (2 * e)
    OBVIOUS
  <2>2. z = K + y
    BY <1>4, <1>7, <2>1
  <2>3. P * (a + 2 * e) = P * a + K
    BY <2>1
  <2>4. QED BY <1>5, <2>2, <2>3
<1>9. \A x \in Nat : (P * x + r) \div P = x
  OBVIOUS
<1>10. z \div P = a + 2 * e /\ y \div P = a
  BY <1>5, <1>8, <1>9
<1>11. (a + 2 * e) % 2 = a % 2
  OBVIOUS
<1>12. QED BY <1>2, <1>4, <1>10, <1>11 DEF Bit

(* Masking is the remainder by a power of two.                             *)
LEMMA MaskMod ==
  ASSUME NEW w \in Nat, NEW j \in 0..w, NEW z \in Word(w)
  PROVE  Bitwise(w, "and", z, 2^j - 1) = z % 2^j
<1>1. j \in Nat /\ j <= w
  OBVIOUS
<1>2. 2^j \in Nat \ {0} /\ 2^j <= 2^w /\ 2^w \in Nat
  BY <1>1, PowerMono, Subsets
<1>3. z \in Nat
  BY <1>2 DEF Word
<1>4. PICK y : y = z % 2^j
  OBVIOUS
<1>5. PICK m : m = 2^j - 1
  OBVIOUS
<1>6. y \in Word(j) /\ y \in Word(w) /\ m \in Word(j) /\ m \in Nat
  <2>1. y \in 0..(2^j - 1)
    BY <1>2, <1>3, <1>4
  <2>2. QED BY <1>2, <1>5, <2>1 DEF Word
<1>7. ASSUME NEW k \in 0..(w - 1)
      PROVE  Bit(y, k) = BitOf("and", Bit(z, k), Bit(m, k))
  <2>1. k \in Nat /\ Bit(z, k) \in {0, 1}
    BY <1>3, BitType
  <2>2. CASE k < j
    <3>1. Bit(y, k) = Bit(z, k)
      BY <1>1, <1>3, <1>4, <2>1, <2>2, BitMod
    <3>2. Bit(m, k) = 1
      BY <1>1, <1>5, <2>1, <2>2, MaskBit
    <3>3. QED BY <2>1, <3>1, <3>2 DEF BitOf
  <2>3. CASE ~(k < j)
    <3>1. Bit(y, k) = 0 /\ Bit(m, k) = 0
      BY <1>1, <1>6, <2>1, <2>3, BitAbove
    <3>2. QED BY <2>1, <3>1 DEF BitOf
  <2>4. QED BY <2>2, <2>3
<1>8. Bitwise(w, "and", z, m) = y
  BY <1>3, <1>6, <1>7, BitwiseIs DEF BitOps
<1>9. QED BY <1>4, <1>5, <1>8

(* Below a modulus that is no power of two a result may exceed it, but     *)
(* less than twice.                                                        *)
LEMMA BitwiseTwice ==
  ASSUME NEW w \in Nat, NEW m \in 1..(2^w), ~ \E k \in 0..w : m = 2^k,
         NEW op \in BitOps, NEW x \in 0..(m - 1), NEW y \in 0..(m - 1)
  PROVE  Bitwise(w, op, x, y) \in 0..(2 * m - 1)
<1> DEFINE T == {k \in 0..w : m <= 2^k}
<1>1. 2^w \in Nat \ {0} /\ m \in Nat \ {0} /\ m <= 2^w
  BY Subsets
<1>2. PICK j \in T : \A k \in T : j <= k
  <2>1. w \in T
    BY <1>1
  <2>2. T \in SUBSET Nat
    <3>1. 0..w \subseteq Nat
      OBVIOUS
    <3>2. QED BY <3>1
  <2>3. QED BY <2>1, <2>2, LeastNat
<1>3. j \in 0..w /\ j \in Nat /\ m <= 2^j /\ 2^j \in Nat
  BY Subsets
<1>4. j # 0
  <2>1. j = 0 => m = 2^0
    BY <1>1, <1>3, PowerZero
  <2>2. QED BY <1>3, <2>1
<1>5. PICK i \in Nat : j = i + 1
  <2>1. j - 1 \in Nat /\ j = (j - 1) + 1
    BY <1>3, <1>4
  <2>2. QED BY <2>1
<1>6. i \notin T /\ i \in 0..w
  BY <1>2, <1>3, <1>5
<1>7. ~(m <= 2^i) /\ 2^i \in Nat /\ 2^j = 2 * 2^i
  BY <1>5, <1>6, PowerNext, Subsets
<1> HIDE DEF T
<1>8. x \in Word(j) /\ y \in Word(j)
  BY <1>1, <1>3 DEF Word
<1>9. Bitwise(w, op, x, y) \in Word(j)
  BY <1>3, <1>8, BitwiseBelow
<1>10. QED BY <1>1, <1>3, <1>7, <1>9 DEF Word

(* The words of one bit.                                                   *)
LEMMA OneBit ==
  /\ Word(1) = {0, 1}
  /\ \A x \in Word(1) : Bitwise(1, "xor", x, 1) = 1 - x
<1>1. 2^1 = 2 /\ 2^0 = 1
  <2>1. 2^(0 + 1) = 2 * 2^0 /\ 0 + 1 = 1
    BY PowerNext
  <2>2. QED BY <2>1, PowerZero
<1>2. Word(1) = {0, 1}
  BY <1>1 DEF Word
<1>3. ASSUME NEW x \in Word(1)
      PROVE  Bitwise(1, "xor", x, 1) = 1 - x
  <2>1. PICK z : z = 1 - x
    OBVIOUS
  <2>2. z \in Word(1) /\ x \in Nat /\ z \in Nat
    BY <1>2, <2>1
  <2>3. \A a \in {0, 1} : Bit(a, 0) = a
    <3>1. \A a \in {0, 1} : (a \div 1) % 2 = a
      OBVIOUS
    <3>2. QED BY <1>1, <3>1 DEF Bit
  <2>4. Bit(z, 0) = BitOf("xor", Bit(x, 0), Bit(1, 0))
    <3>1. Bit(z, 0) = z /\ Bit(x, 0) = x /\ Bit(1, 0) = 1
      BY <1>2, <2>2, <2>3
    <3>2. BitOf("xor", x, 1) = 1 - x
      BY <1>2, BitOfBit DEF BitOps
    <3>3. QED BY <2>1, <3>1, <3>2
  <2>5. 0..(1 - 1) = {0}
    OBVIOUS
  <2>6. \A k \in 0..(1 - 1) : Bit(z, k) = BitOf("xor", Bit(x, k), Bit(1, k))
    BY <2>4, <2>5
  <2>7. Bitwise(1, "xor", x, 1) = z
    BY <2>2, <2>6, BitwiseIs DEF BitOps
  <2>8. QED BY <2>1, <2>7
<1>4. QED BY <1>2, <1>3

-----------------------------------------------------------------------------
(* Division towards zero *)

LEMMA QuotientSize ==
  ASSUME NEW a \in Int, NEW b \in Int, b # 0, NEW M \in Nat \ {0},
         a \in (-M)..(M - 1), b \in (-M)..(M - 1)
  PROVE  /\ Quotient(a, b) \in Int
         /\ Quotient(a, b) \in (-M)..(M - 1) <=> ~(a = -M /\ b = -1)
<1>1. Abs(a) \in 0..M /\ Abs(b) \in 1..M
  BY DEF Abs
<1>2. PICK p \in 0..M, q \in 1..M : p = Abs(a) /\ q = Abs(b)
  BY <1>1
<1>3. \A d \in Nat \ {0} : p \div d \in 0..p /\ (d >= 2 /\ p > 0 => p \div d < p)
  <2> TAKE d \in Nat \ {0}
  <2>1. PICK c \in Nat, r \in 0..(d - 1) : p = d * c + r /\ c = p \div d
    <3>1. p = d * (p \div d) + (p % d) /\ p \div d \in Nat /\ p % d \in 0..(d - 1)
      OBVIOUS
    <3>2. QED BY <3>1
  <2>2. c <= d * c /\ (d >= 2 => 2 * c <= d * c)
    OBVIOUS
  <2>3. QED BY <2>1, <2>2
<1>4. q \in Nat \ {0} /\ p \div q \in 0..p /\ (q >= 2 /\ p > 0 => p \div q < p)
  BY <1>3
<1>5. p \div 1 = p
  OBVIOUS
<1>6. PICK c \in 0..p : c = p \div q
  BY <1>4
<1>7. CASE (a < 0) # (b < 0)
  <2>1. Quotient(a, b) = -c
    BY <1>2, <1>6, <1>7 DEF Quotient
  <2>2. -c \in (-M)..(M - 1)
    OBVIOUS
  <2>3. ~(a = -M /\ b = -1)
    BY <1>7
  <2>4. QED BY <2>1, <2>2, <2>3
<1>8. CASE (a < 0) = (b < 0)
  <2>1. Quotient(a, b) = c
    BY <1>2, <1>6, <1>8 DEF Quotient
  <2>2. CASE a >= 0
    <3>1. p = a
      BY <1>2, <2>2 DEF Abs
    <3>2. QED BY <2>1, <2>2, <3>1
  <2>3. CASE a < 0 /\ b = -1
    <3>1. p = -a /\ q = 1
      <4>1. b < 0 /\ -b = 1
        <5>1. b < 0 /\ b + 1 = 0
          BY <2>3
        <5>2. \A n \in Int : n + 1 = 0 => -n = 1
          OBVIOUS
        <5>3. QED BY <5>1, <5>2
      <4>2. Abs(a) = -a /\ Abs(b) = -b
        BY <2>3, <4>1 DEF Abs
      <4>3. QED BY <1>2, <4>1, <4>2
    <3>2. c = -a
      BY <1>5, <1>6, <3>1
    <3>3. QED BY <2>1, <2>3, <3>2
  <2>4. CASE a < 0 /\ b # -1
    <3>1. p = -a /\ q >= 2
      BY <1>2, <1>8, <2>4 DEF Abs
    <3>2. c < p
      BY <1>4, <1>6, <2>4, <3>1
    <3>3. QED BY <2>1, <2>4, <3>2
  <2>5. QED BY <2>2, <2>3, <2>4
<1>9. QED BY <1>7, <1>8

(* Division of numbers that are not negative.                              *)
LEMMA QuotientNat ==
  ASSUME NEW a \in Nat, NEW b \in Nat \ {0}
  PROVE  Quotient(a, b) = a \div b /\ a \div b \in 0..a
<1>1. ~(a < 0) /\ ~(b < 0)
  OBVIOUS
<1>2. Abs(a) = a /\ Abs(b) = b
  BY <1>1 DEF Abs
<1>3. a \div b \in 0..a
  <2>1. PICK c \in Nat, r \in 0..(b - 1) : a = b * c + r /\ c = a \div b
    <3>1. a = b * (a \div b) + (a % b) /\ a \div b \in Nat /\ a % b \in 0..(b - 1)
      OBVIOUS
    <3>2. QED BY <3>1
  <2>2. c <= b * c
    OBVIOUS
  <2>3. QED BY <2>1, <2>2
<1>4. QED BY <1>1, <1>2, <1>3 DEF Quotient

-----------------------------------------------------------------------------
(* Heads of sequences *)

LEMMA SameHead ==
  ASSUME NEW S, NEW s \in Seq(S), NEW T, NEW t \in Seq(T), NEW m \in Nat,
         m <= Len(s), m <= Len(t), \A j \in 1..m : s[j] = t[j]
  PROVE  SubSeq(s, 1, m) = SubSeq(t, 1, m)
<1>1. SubSeq(s, 1, m) = [j \in 1..m |-> s[j]]
  OBVIOUS
<1>2. SubSeq(t, 1, m) = [j \in 1..m |-> t[j]]
  OBVIOUS
<1>3. QED BY <1>1, <1>2

LEMMA LongerHead ==
  ASSUME NEW s \in Seq(Nat), NEW m \in Nat, m + 1 <= Len(s)
  PROVE  Append(SubSeq(s, 1, m), s[m + 1]) = SubSeq(s, 1, m + 1)
<1>1. SubSeq(s, 1, m) \in Seq(Nat) /\ Len(SubSeq(s, 1, m)) = m
      /\ \A j \in 1..m : SubSeq(s, 1, m)[j] = s[j]
  OBVIOUS
<1>2. s[m + 1] \in Nat
  <2>1. m + 1 \in 1..Len(s)
    OBVIOUS
  <2>2. QED BY <2>1
<1>3. PICK r \in Seq(Nat), x \in Nat : r = SubSeq(s, 1, m) /\ x = s[m + 1]
  BY <1>1, <1>2
<1> DEFINE t == Append(r, x)
<1>4. t \in Seq(Nat) /\ Len(t) = m + 1 /\ t[m + 1] = s[m + 1] /\ \A j \in 1..m : t[j] = s[j]
  <2>1. /\ t \in Seq(Nat) /\ Len(t) = Len(r) + 1 /\ t[Len(r) + 1] = x
        /\ \A j \in 1..Len(r) : t[j] = r[j]
    BY AppendProperties
  <2>2. QED BY <1>1, <1>3, <2>1
<1> HIDE DEF t
<1>5. ASSUME NEW j \in 1..(m + 1) PROVE t[j] = s[j]
  <2>1. CASE j = m + 1
    BY <1>4, <2>1
  <2>2. CASE j # m + 1
    <3>1. j \in 1..m
      BY <2>2
    <3>2. QED BY <1>4, <3>1
  <2>3. QED BY <2>1, <2>2
<1>6. PICK k \in Nat : k = m + 1
  OBVIOUS
<1>7. SubSeq(t, 1, k) = SubSeq(s, 1, k)
  BY <1>4, <1>5, <1>6, SameHead
<1>8. SubSeq(t, 1, k) = t
  <2>1. Len(t) = k
    BY <1>4, <1>6
  <2>2. QED BY <1>4, <2>1, SubSeqFull
<1>9. QED BY <1>3, <1>6, <1>7, <1>8 DEF t

LEMMA Popped ==
  ASSUME NEW X, NEW s \in Seq(X), NEW x, NEW t, t = Append(s, x)
  PROVE  SubSeq(t, 1, Len(t) - 1) = s
<1>1. PICK Y : Y = X \union {x}
  OBVIOUS
<1>2. s \in Seq(Y) /\ x \in Y
  BY <1>1
<1>3. /\ t \in Seq(Y) /\ Len(t) = Len(s) + 1 /\ \A j \in 1..Len(s) : t[j] = s[j]
  BY <1>2, AppendProperties
<1>4. PICK n \in Nat : n = Len(s)
  BY <1>2
<1>5. SubSeq(t, 1, n) = SubSeq(s, 1, n)
  BY <1>2, <1>3, <1>4, SameHead
<1>6. SubSeq(s, 1, n) = s
  BY <1>2, <1>4, SubSeqFull
<1>7. Len(t) - 1 = n
  BY <1>3, <1>4
<1>8. QED BY <1>5, <1>6, <1>7

LEMMA OddHeads ==
  ASSUME NEW d \in Nat
  PROVE  {k \in 1..(2 * d - 1) : k % 2 = 1} = {2 * i - 1 : i \in 1..d}
<1>1. ASSUME NEW k \in 1..(2 * d - 1), k % 2 = 1
      PROVE  \E i \in 1..d : k = 2 * i - 1
  <2>1. PICK m \in Nat : k = 2 * m + 1
    <3>1. k \in Nat
      OBVIOUS
    <3>2. k = 2 * (k \div 2) + (k % 2) /\ k \div 2 \in Nat
      BY <3>1
    <3>3. QED BY <1>1, <3>2
  <2>2. m + 1 \in 1..d /\ k = 2 * (m + 1) - 1
    BY <2>1
  <2>3. QED BY <2>2
<1>2. ASSUME NEW i \in 1..d
      PROVE  2 * i - 1 \in 1..(2 * d - 1) /\ (2 * i - 1) % 2 = 1
  <2>1. PICK m \in Nat : i = m + 1
    <3>1. i - 1 \in Nat /\ i = (i - 1) + 1
      OBVIOUS
    <3>2. QED BY <3>1
  <2>2. 2 * i - 1 = 2 * m + 1 /\ (2 * m + 1) % 2 = 1
    BY <2>1
  <2>3. QED BY <2>2
<1>3. QED BY <1>1, <1>2

-----------------------------------------------------------------------------
(* Functions that pass on what they have at the next place *)

(* A walk of n steps from q to where it stops.                             *)
Walk(P, stop, next, q, x, n, s) ==
  /\ s[0] = q /\ s[n] = x
  /\ \A i \in 0..(n - 1) : s[i] \in P \ stop /\ s[i + 1] = next[s[i]]

Walked(P, stop, next, q) ==
  {x \in stop : \E n \in Nat : \E s \in [0..n -> P] : Walk(P, stop, next, q, x, n, s)}

PassedOn(P, stop, next, val, V) ==
  \E f \in [P -> V] : \A q \in P : f[q] = IF q \in stop THEN val[q] ELSE f[next[q]]

(* A function that passes on what it has at the next place, but where it   *)
(* stops, exists whether or not every walk stops.                          *)
LEMMA WalkExists ==
  ASSUME NEW V, NEW none \in V,
         NEW P, NEW stop \in SUBSET P, NEW next \in [P \ stop -> P], NEW val \in [stop -> V]
  PROVE  PassedOn(P, stop, next, val, V)
<1> DEFINE R(q) == Walked(P, stop, next, q)
           f == [q \in P |-> IF R(q) = {} THEN none ELSE val[CHOOSE x \in R(q) : TRUE]]
<1> USE DEF Walk, Walked
<1>1. ASSUME NEW q \in stop PROVE R(q) = {q}
  <2>1. ASSUME NEW x \in R(q) PROVE x = q
    <3>0. PICK n \in Nat : \E s \in [0..n -> P] : Walk(P, stop, next, q, x, n, s)
      BY <2>1
    <3>1. PICK s \in [0..n -> P] : Walk(P, stop, next, q, x, n, s)
      BY <3>0
    <3>2. n = 0
      <4> SUFFICES ASSUME n # 0 PROVE FALSE
        OBVIOUS
      <4>1. 0 \in 0..(n - 1)
        OBVIOUS
      <4>2. s[0] \in P \ stop
        BY <3>1, <4>1
      <4>3. QED BY <3>1, <4>2
    <3>3. QED BY <3>1, <3>2
  <2>2. q \in R(q)
    <3>1. Walk(P, stop, next, q, q, 0, [i \in 0..0 |-> q])
      OBVIOUS
    <3>2. [i \in 0..0 |-> q] \in [0..0 -> P] /\ 0 \in Nat
      OBVIOUS
    <3>3. QED BY <3>1, <3>2
  <2>3. QED BY <2>1, <2>2
<1>2. ASSUME NEW q \in P \ stop PROVE R(q) = R(next[q])
  <2>0. next[q] \in P
    OBVIOUS
  <2>1. ASSUME NEW x \in R(q) PROVE x \in R(next[q])
    <3>0. PICK n \in Nat : \E s \in [0..n -> P] : Walk(P, stop, next, q, x, n, s)
      BY <2>1
    <3>1. PICK s \in [0..n -> P] : Walk(P, stop, next, q, x, n, s)
      BY <3>0
    <3>2. n # 0
      BY <3>1, <2>1
    <3>3. PICK m \in Nat : n = m + 1
      <4>1. n - 1 \in Nat /\ n = (n - 1) + 1
        BY <3>2
      <4>2. QED BY <4>1
    <3> DEFINE t == [i \in 0..m |-> s[i + 1]]
    <3>4. t \in [0..m -> P]
      BY <3>1, <3>3
    <3>5. Walk(P, stop, next, next[q], x, m, t)
      <4>1. t[0] = next[q]
        <5>1. 0 \in 0..(n - 1) /\ 0 \in 0..m /\ 0 + 1 = 1
          BY <3>3
        <5>2. s[0 + 1] = next[s[0]] /\ s[0] = q
          BY <3>1, <5>1
        <5>3. QED BY <5>1, <5>2
      <4>2. t[m] = x
        BY <3>1, <3>3
      <4>3. ASSUME NEW i \in 0..(m - 1) PROVE t[i] \in P \ stop /\ t[i + 1] = next[t[i]]
        <5>1. i + 1 \in 0..(n - 1) /\ i \in 0..m /\ i + 1 \in 0..m
          BY <3>3
        <5>2. s[i + 1] \in P \ stop /\ s[(i + 1) + 1] = next[s[i + 1]]
          BY <3>1, <5>1
        <5>3. QED BY <5>1, <5>2
      <4>4. QED BY <4>1, <4>2, <4>3
    <3>6. x \in stop
      BY <2>1
    <3> HIDE DEF Walk, t
    <3>7. QED BY <3>4, <3>5, <3>6
  <2>2. ASSUME NEW x \in R(next[q]) PROVE x \in R(q)
    <3>0. PICK m \in Nat : \E t \in [0..m -> P] : Walk(P, stop, next, next[q], x, m, t)
      BY <2>2
    <3>1. PICK t \in [0..m -> P] : Walk(P, stop, next, next[q], x, m, t)
      BY <3>0
    <3> DEFINE s == [i \in 0..(m + 1) |-> IF i = 0 THEN q ELSE t[i - 1]]
    <3>2. s \in [0..(m + 1) -> P] /\ m + 1 \in Nat
      <4>1. \A i \in 0..(m + 1) : i # 0 => i - 1 \in 0..m
        OBVIOUS
      <4>2. QED BY <4>1
    <3>3. Walk(P, stop, next, q, x, m + 1, s)
      <4>1. s[0] = q /\ s[m + 1] = x
        <5>1. 0 \in 0..(m + 1) /\ m + 1 \in 0..(m + 1) /\ m + 1 # 0 /\ (m + 1) - 1 = m
          OBVIOUS
        <5>2. QED BY <3>1, <5>1
      <4>2. ASSUME NEW i \in 0..((m + 1) - 1) PROVE s[i] \in P \ stop /\ s[i + 1] = next[s[i]]
        <5>1. i \in 0..(m + 1) /\ i + 1 \in 0..(m + 1) /\ i + 1 # 0 /\ (i + 1) - 1 = i
          OBVIOUS
        <5>2. s[i + 1] = t[i]
          BY <5>1
        <5>3. CASE i = 0
          BY <3>1, <5>1, <5>2, <5>3
        <5>4. CASE i # 0
          <6>1. PICK k \in 0..(m - 1) : i = k + 1 /\ i - 1 = k
            <7>1. i - 1 \in 0..(m - 1) /\ i = (i - 1) + 1
              BY <5>4
            <7>2. QED BY <7>1
          <6>2. s[i] = t[k] /\ t[k] \in P \ stop /\ t[k + 1] = next[t[k]]
            BY <3>1, <5>1, <5>4, <6>1
          <6>3. QED BY <5>2, <6>1, <6>2
        <5>5. QED BY <5>3, <5>4
      <4>3. QED BY <4>1, <4>2
    <3>4. x \in stop
      BY <2>2
    <3>5. PICK k \in Nat : k = m + 1
      OBVIOUS
    <3> HIDE DEF Walk, s
    <3>6. s \in [0..k -> P] /\ Walk(P, stop, next, q, x, k, s)
      BY <3>2, <3>3, <3>5
    <3>7. QED BY <3>4, <3>6
  <2>3. QED BY <2>1, <2>2
<1> HIDE DEF R, Walk, Walked
<1>3. ASSUME NEW q \in P PROVE f[q] = IF q \in stop THEN val[q] ELSE f[next[q]]
  <2>1. CASE q \in stop
    <3>1. R(q) = {q}
      BY <1>1, <2>1
    <3>2. (CHOOSE x \in {q} : TRUE) = q
      OBVIOUS
    <3>3. QED BY <2>1, <3>1, <3>2
  <2>2. CASE q \notin stop
    <3>1. R(q) = R(next[q]) /\ next[q] \in P
      BY <1>2, <2>2
    <3>2. QED BY <2>2, <3>1
  <2>3. QED BY <2>1, <2>2
<1>4. f \in [P -> V]
  <2>1. \A q \in P : R(q) # {} => (CHOOSE x \in R(q) : TRUE) \in stop
    BY DEF R, Walked
  <2>2. QED BY <2>1
<1> HIDE DEF f
<1>5. QED BY <1>3, <1>4 DEF PassedOn

-----------------------------------------------------------------------------
(* Sets in a finite one *)

(* Of sets in a finite one, one is not part of another.                    *)
LEMMA Largest ==
  ASSUME NEW S, IsFiniteSet(S), NEW W, W # {}, NEW part \in [W -> SUBSET S]
  PROVE  \E q \in W : \A t \in W : part[q] \subseteq part[t] => part[t] = part[q]
<1> DEFINE left(q) == S \ part[q]
           T == {Cardinality(left(q)) : q \in W}
<1>1. ASSUME NEW q \in W
      PROVE  IsFiniteSet(left(q)) /\ Cardinality(left(q)) \in Nat
  <2>1. left(q) \in SUBSET S
    OBVIOUS
  <2>2. IsFiniteSet(left(q))
    BY <2>1, FS_Subset
  <2>3. QED BY <2>2, FS_CardinalityType
<1>2. T \in SUBSET Nat /\ T # {}
  BY <1>1
<1>3. PICK n \in T : \A m \in T : n <= m
  BY <1>2, LeastNat
<1>4. PICK q \in W : n = Cardinality(left(q))
  BY <1>3
<1>5. ASSUME NEW t \in W, part[q] \subseteq part[t] PROVE part[t] = part[q]
  <2>1. left(t) \in SUBSET left(q)
    BY <1>5
  <2>2. Cardinality(left(t)) <= Cardinality(left(q))
        /\ (Cardinality(left(q)) = Cardinality(left(t)) => left(q) = left(t))
    BY <1>1, <2>1, FS_Subset
  <2>3. Cardinality(left(q)) <= Cardinality(left(t))
    BY <1>3, <1>4
  <2>4. left(q) = left(t)
    BY <1>1, <2>2, <2>3
  <2>5. part[q] \subseteq S /\ part[t] \subseteq S
    OBVIOUS
  <2>6. QED BY <1>5, <2>4, <2>5
<1>6. QED
  BY <1>5
=============================================================================
