------------------------- MODULE CallLowering_proofs -------------------------
(***************************************************************************)
(* Proofs about CallLowering: its invariants, and that it implements       *)
(* AdaCall, for every base type, set of objects and well-formed call.      *)
(***************************************************************************)
EXTENDS CallLowering, FiniteSetTheorems, SequenceTheorems, TLAPS

-----------------------------------------------------------------------------
(* Positions in dense lists are in range, distinct, and lead back to the   *)
(* formal they were computed for.                                          *)

(* A set of formals is finite and so are its initial segments. *)
LEMMA SegmentFinite ==
  ASSUME NEW n \in Nat, NEW S \in SUBSET (1..n), NEW i \in Nat
  PROVE  /\ IsFiniteSet(S) /\ Cardinality(S) \in Nat
         /\ IsFiniteSet({j \in S : j <= i}) /\ Rank(S, i) \in Nat
         /\ Rank(S, i) <= Cardinality(S)
<1>0. IsFiniteSet(1..n)
  BY FS_Interval
<1>1. IsFiniteSet(S)
  BY <1>0, FS_Subset
<1>2. IsFiniteSet({j \in S : j <= i}) /\ Rank(S, i) <= Cardinality(S)
  BY <1>1, FS_Subset DEF Rank
<1>3. QED
  BY <1>1, <1>2, FS_CardinalityType DEF Rank

(* The positions computed for the members of S are those of the list. *)
LEMMA RankInRange ==
  ASSUME NEW n \in Nat, NEW S \in SUBSET (1..n), NEW i \in S
  PROVE  Rank(S, i) \in 1..Cardinality(S)
<1>1. i \in Nat
  OBVIOUS
<1>2. i \in {j \in S : j <= i}
  BY <1>1
<1>3. Cardinality({j \in S : j <= i}) # 0
  BY <1>1, <1>2, SegmentFinite, FS_EmptySet
<1>4. Rank(S, i) \in Nat /\ Cardinality(S) \in Nat
        /\ Rank(S, i) <= Cardinality(S)
  BY <1>1, SegmentFinite
<1>5. QED
  BY <1>3, <1>4 DEF Rank

(* A later member stands at a later position. *)
LEMMA RankIncreases ==
  ASSUME NEW n \in Nat, NEW S \in SUBSET (1..n),
         NEW i \in S, NEW k \in S, i < k
  PROVE  Rank(S, i) < Rank(S, k)
<1> DEFINE A == {j \in S : j <= i}
           B == {j \in S : j <= k}
<1>1. i \in Nat /\ k \in Nat
  OBVIOUS
<1>2. A \in SUBSET B
  <2>1. \A j \in S : j \in Nat
    OBVIOUS
  <2>2. \A j \in S : j <= i => j <= k
    BY <1>1, <2>1
  <2>3. QED
    BY <2>2, Zenon
<1>3. A # B
  BY <1>1
<1>4. IsFiniteSet(B) /\ Cardinality(A) \in Nat /\ Cardinality(B) \in Nat
  BY <1>1, SegmentFinite DEF Rank
<1>5. Cardinality(A) <= Cardinality(B) /\ Cardinality(B) # Cardinality(A)
  BY <1>2, <1>3, <1>4, FS_Subset
<1>6. QED
  BY <1>4, <1>5 DEF Rank

(* Distinct members stand at distinct positions. *)
LEMMA RankInjective ==
  ASSUME NEW n \in Nat, NEW S \in SUBSET (1..n),
         NEW i \in S, NEW k \in S, Rank(S, i) = Rank(S, k)
  PROVE  i = k
<1>0. i \in Nat /\ k \in Nat
  OBVIOUS
<1>1. Rank(S, i) \in Nat /\ Rank(S, k) \in Nat
  BY <1>0, SegmentFinite
<1>2. ~(i < k) /\ ~(k < i)
  <2>1. ~(i < k)
    <3>1. i < k => Rank(S, i) < Rank(S, k)
      BY RankIncreases
    <3>2. QED
      BY <1>1, <3>1
  <2>2. ~(k < i)
    <3>1. k < i => Rank(S, k) < Rank(S, i)
      BY RankIncreases
    <3>2. QED
      BY <1>1, <3>1
  <2>3. QED
    BY <2>1, <2>2
<1>3. QED
  BY <1>0, <1>2

(* Every position of the list belongs to a member of S. *)
LEMMA NthInSet ==
  ASSUME NEW n \in Nat, NEW S \in SUBSET (1..n), NEW p \in 1..Cardinality(S)
  PROVE  Nth(S, p) \in S /\ Rank(S, Nth(S, p)) = p
<1> DEFINE T == 1..Cardinality(S)
           f == [i \in S |-> Rank(S, i)]
<1>1. IsFiniteSet(S) /\ Cardinality(S) \in Nat
  BY n \in Nat, SegmentFinite
<1>2. f \in [S -> T]
  BY RankInRange
<1>3. \A i, k \in S : f[i] = f[k] => i = k
  BY RankInjective
<1>4. f \in Injection(S, T)
  BY <1>2, <1>3 DEF Injection, IsInjective
<1>5. IsFiniteSet(T) /\ Cardinality(T) = Cardinality(S)
  BY <1>1, FS_Interval
<1>6. f \in Surjection(S, T)
  BY <1>4, <1>5, FS_Injection
<1>7. \E i \in S : Rank(S, i) = p
  BY <1>6 DEF Surjection
<1>8. QED
  BY <1>7 DEF Nth

(* Reading a list at the position computed for i gives the entry of i. *)
LEMMA DenseLookup ==
  ASSUME NEW n \in Nat, NEW S \in SUBSET (1..n), NEW f, NEW i \in S
  PROVE  Dense(S, f)[Rank(S, i)] = f[i]
<1>1. Rank(S, i) \in 1..Cardinality(S)
  BY RankInRange
<1>2. Nth(S, Rank(S, i)) = i
  BY <1>1, NthInSet, RankInjective
<1>3. QED
  BY <1>1, <1>2 DEF Dense

(* A list has one entry per member of S, drawn from f. *)
LEMMA DenseType ==
  ASSUME NEW n \in Nat, NEW S \in SUBSET (1..n), NEW f, NEW V,
         \A i \in S : f[i] \in V
  PROVE  Dense(S, f) \in Seq(V) /\ Len(Dense(S, f)) = Cardinality(S)
<1>1. Cardinality(S) \in Nat
  BY n \in Nat, SegmentFinite
<1>2. \A p \in 1..Cardinality(S) : f[Nth(S, p)] \in V
  BY NthInSet
<1>3. QED
  BY <1>1, <1>2 DEF Dense

-----------------------------------------------------------------------------
(* Profiles *)

(* The sets the dense lists range over are sets of formals. *)
LEMMA ProfileSets ==
  ASSUME NEW c \in Calls
  PROVE  /\ WellFormed(c) /\ c.n \in Nat
         /\ Writable(c) \in SUBSET (1..c.n)
         /\ NeedsInput(c) \in SUBSET (1..c.n)
         /\ Writable(c) \cap NeedsInput(c) \in SUBSET (1..c.n)
         /\ \A i \in 1..c.n : i \notin Writable(c) => i \in NeedsInput(c)
         /\ \A i \in 1..c.n : i \notin Writable(c) <=> c.mode[i] = "in"
<1>1. WellFormed(c)
  BY CallsAssumption
<1>2. c.n \in Nat
  BY <1>1 DEF WellFormed
<1>3. QED
  BY <1>1, <1>2 DEF Writable, NeedsInput, Formals

(* Every formal has an association. *)
LEMMA OrderOnto ==
  ASSUME NEW c \in Calls, NEW i \in 1..c.n
  PROVE  \E p \in 1..c.n : c.order[p] = i
<1> DEFINE T == 1..c.n
<1>1. c.n \in Nat /\ c.order \in [T -> T]
      /\ \A p, q \in T : c.order[p] = c.order[q] => p = q
  BY CallsAssumption DEF WellFormed
<1>2. c.order \in Injection(T, T)
  BY <1>1 DEF Injection, IsInjective
<1>3. IsFiniteSet(T)
  BY <1>1, FS_Interval
<1>4. c.order \in Surjection(T, T)
  BY <1>2, <1>3, FS_Injection
<1>5. QED
  BY <1>4 DEF Surjection

(* An injection between intervals does not shrink them. *)
LEMMA IntervalInjection ==
  ASSUME NEW a \in Int, NEW b \in Int, NEW c \in Int, NEW d \in Int,
         a <= b, NEW f \in Injection(a..b, c..d)
  PROVE  b - a <= d - c
<1>1. IsFiniteSet(c..d) /\ Cardinality(c..d) = IF c > d THEN 0 ELSE d - c + 1
  BY FS_Interval
<1>2. Cardinality(a..b) = b - a + 1
  BY FS_Interval
<1>3. Cardinality(a..b) <= Cardinality(c..d)
  BY <1>1, FS_Injection
<1>4. QED
  BY <1>1, <1>2, <1>3

(* A sorted permutation is the identity: leaving ada.actual_order out of a *)
(* sorted call loses nothing.                                              *)
LEMMA SortedOrderIsFormalOrder ==
  ASSUME NEW c \in Calls, Sorted(c.order, c.n), NEW p \in 1..c.n
  PROVE  c.order[p] = p
<1> DEFINE T == 1..c.n
           f == c.order
<1>1. c.n \in Nat /\ f \in [T -> T]
      /\ \A q, r \in T : f[q] = f[r] => q = r
  BY CallsAssumption DEF WellFormed
<1>2. \A q, r \in T : q < r => f[q] <= f[r]
  BY DEF Sorted
<1>3. p \in Int /\ f[p] \in Int /\ c.n \in Int /\ p <= c.n /\ 1 <= p
  BY <1>1
<1>4. p <= f[p]
  <2> DEFINE g == [q \in 1..p |-> f[q]]
  <2>1. \A q \in 1..p : q \in T /\ (q < p \/ q = p)
    BY <1>3
  <2>2. \A q \in 1..p : f[q] \in 1..f[p]
    BY <1>1, <1>2, <1>3, <2>1
  <2>3. g \in Injection(1..p, 1..f[p])
    BY <1>1, <2>1, <2>2 DEF Injection, IsInjective
  <2>4. p - 1 <= f[p] - 1
    BY <1>3, <2>3, IntervalInjection
  <2>5. QED
    BY <1>3, <2>4
<1>5. f[p] <= p
  <2> DEFINE g == [q \in p..c.n |-> f[q]]
  <2>1. \A q \in p..c.n : q \in T /\ (p < q \/ q = p)
    BY <1>3
  <2>2. \A q \in p..c.n : f[q] \in f[p]..c.n
    BY <1>1, <1>2, <1>3, <2>1
  <2>3. g \in Injection(p..c.n, f[p]..c.n)
    BY <1>1, <2>1, <2>2 DEF Injection, IsInjective
  <2>4. c.n - p <= c.n - f[p]
    BY <1>3, <2>3, IntervalInjection
  <2>5. QED
    BY <1>3, <2>4
<1>6. QED
  BY <1>3, <1>4, <1>5

(* Copy-back visits the formals in association order. *)
LEMMA CopyBackOrderIsAssociationOrder ==
  ASSUME call \in Calls, NEW p \in 1..call.n
  PROVE  CopyBackOrder[p] = call.order[p]
BY SortedOrderIsFormalOrder DEF CopyBackOrder

-----------------------------------------------------------------------------
(* The operands and results of the func.call *)

(* The input list holds the value of each formal at the index              *)
(* mapSignature gave it, and object references from the first capture on.  *)
LEMMA InputList ==
  ASSUME call \in Calls, NEW f, \A i \in NeedsInput(call) : f[i] \in Base,
         NEW l, l = Dense(NeedsInput(call), f) \o call.captures
  PROVE  /\ l \in Seq(Base \cup Object)
         /\ \A i \in NeedsInput(call) : l[InputIndex(call, i)] = f[i]
         /\ \A x \in FirstCapture(call)..Len(l) : l[x] \in Object
<1> DEFINE S == NeedsInput(call)
           d == Dense(S, f)
           V == Base \cup Object
<1>1. call.n \in Nat /\ S \in SUBSET (1..call.n) /\ WellFormed(call)
  BY ProfileSets
<1>2. d \in Seq(V) /\ Len(d) = Cardinality(S)
  <2>1. \A i \in S : f[i] \in V
    OBVIOUS
  <2>2. QED
    BY <1>1, <2>1, DenseType
<1>3. call.captures \in Seq(Object) /\ call.captures \in Seq(V)
  BY <1>1, SeqMonotonic DEF WellFormed
<1>4. Len(d) \in Nat /\ Len(call.captures) \in Nat
  BY <1>2, <1>3, LenProperties
<1>5. /\ l \in Seq(V)
      /\ Len(l) = Len(d) + Len(call.captures)
      /\ \A x \in 1..Len(d) + Len(call.captures) :
            l[x] = IF x <= Len(d) THEN d[x] ELSE call.captures[x - Len(d)]
  BY <1>2, <1>3, ConcatProperties
<1>6. ASSUME NEW i \in S
      PROVE  l[InputIndex(call, i)] = f[i]
  <2>1. Rank(S, i) \in 1..Len(d)
    BY <1>1, <1>2, RankInRange
  <2>2. l[Rank(S, i)] = d[Rank(S, i)]
    BY <2>1, <1>4, <1>5
  <2>3. d[Rank(S, i)] = f[i]
    BY <1>1, DenseLookup
  <2>4. QED
    BY <2>2, <2>3 DEF InputIndex
<1>7. ASSUME NEW x \in FirstCapture(call)..Len(l)
      PROVE  l[x] \in Object
  <2>1. x - Len(d) \in 1..Len(call.captures) /\ ~(x <= Len(d))
        /\ x \in 1..Len(d) + Len(call.captures)
    BY <1>2, <1>4, <1>5 DEF FirstCapture
  <2>2. l[x] = call.captures[x - Len(d)]
    BY <2>1, <1>5
  <2>3. QED
    BY <2>1, <2>2, <1>3, ElementOfSeq
<1>8. QED
  BY <1>5, <1>6, <1>7

(* The result list holds the value of each writable formal at the index    *)
(* the caller reads it back from.                                          *)
LEMMA ResultList ==
  ASSUME call \in Calls, NEW g, \A i \in Writable(call) : g[i] \in Base,
         NEW r \in FunctionResults,
         NEW l, l = r \o Dense(Writable(call), g)
  PROVE  /\ l \in Seq(Base)
         /\ \A i \in Writable(call) : l[ResultIndex(call, i)] = g[i]
         /\ call.isFunction => l[1] \in Base /\ r = <<l[1]>>
<1> DEFINE S == Writable(call)
           d == Dense(S, g)
<1>1. call.n \in Nat /\ S \in SUBSET (1..call.n)
  BY ProfileSets
<1>2. d \in Seq(Base) /\ Len(d) = Cardinality(S)
  BY <1>1, DenseType
<1>0. PICK k \in {0, 1} : k = IF call.isFunction THEN 1 ELSE 0
  OBVIOUS
<1>3. r \in Seq(Base) /\ Len(r) = k
      /\ (call.isFunction => r[1] \in Base /\ r = <<r[1]>>)
  <2>1. CASE call.isFunction
    <3>1. PICK v \in Base : r = <<v>>
      BY <2>1 DEF FunctionResults
    <3>2. QED
      BY <1>0, <2>1, <3>1
  <2>2. CASE ~call.isFunction
    <3>1. r = <<>>
      BY <2>2 DEF FunctionResults
    <3>2. QED
      BY <1>0, <2>2, <3>1
  <2>3. QED
    BY <2>1, <2>2
<1>4. Len(d) \in Nat
  BY <1>2, LenProperties
<1>5. /\ l \in Seq(Base)
      /\ \A x \in 1..Len(r) + Len(d) :
            l[x] = IF x <= Len(r) THEN r[x] ELSE d[x - Len(r)]
  BY <1>2, <1>3, ConcatProperties
<1>6. ASSUME NEW i \in S
      PROVE  l[ResultIndex(call, i)] = g[i]
  <2>1. Rank(S, i) \in 1..Len(d)
    BY <1>1, <1>2, RankInRange
  <2>. DEFINE m == Rank(S, i)
  <2>0. m \in 1..Len(d) => /\ k + m \in 1..(k + Len(d)) /\ ~(k + m <= k)
                           /\ (k + m) - k = m
    <3>. HIDE DEF m
    <3>. QED BY <1>4
  <2>2. l[k + Rank(S, i)] = d[Rank(S, i)]
    BY <2>1, <2>0, <1>3, <1>5
  <2>3. d[Rank(S, i)] = g[i]
    BY <1>1, DenseLookup
  <2>4. QED
    BY <1>0, <2>2, <2>3 DEF ResultIndex
<1>7. call.isFunction => l[1] = r[1]
  <2>1. k = 1 => 1 \in 1..(k + Len(d)) /\ 1 <= k
    BY <1>4
  <2>2. QED
    BY <1>0, <2>1, <1>3, <1>5
<1>8. QED
  BY <1>3, <1>5, <1>6, <1>7

-----------------------------------------------------------------------------
(* The data invariant, action by action *)

(* Side effects assign values. *)
LEMMA SideEffectType ==
  ASSUME NEW s \in [Object -> Base], NEW t \in SideEffect(s)
  PROVE  t \in [Object -> Base]
BY SubtypeAssumption DEF SideEffect

(* Stopping before the call disturbs nothing the invariant speaks of. *)
LEMMA RaisePreservesData ==
  ASSUME DataInv, Stop("raised"), store' \in [Object -> Base]
  PROVE  DataInv'
<1> USE DEF DataInv, Stop
<1>1. TypeOK'
  BY DEF TypeOK, Pcs
<1>2. SlotsFilled' /\ InputsMatch' /\ LocalsFilled' /\ ResultsMatch'
  BY DEF SlotsFilled, InputsMatch, LocalsFilled, ResultsMatch, Called, Returned
<1>3. RangesMatch'
  BY DEF RangesMatch, Formals, Writable
<1>4. QED
  BY <1>1, <1>2, <1>3

(* Evaluating an actual fills the slots of its formal only. *)
LEMMA EvaluatePreservesData ==
  ASSUME DataInv, Evaluate
  PROVE  DataInv'
<1> USE DEF DataInv
<1>1. call \in Calls /\ pc = "evaluate" /\ pos \in 1..call.n
  BY DEF TypeOK, Evaluate
<1>0. PICK i : i = call.order[pos]
  OBVIOUS
<1>2. /\ call.n \in Nat /\ i \in 1..call.n /\ i \in Formals(call)
      /\ \A p \in 1..call.n : call.order[p] \in 1..call.n
      /\ \A p \in 1..call.n : call.order[p] = i => p = pos
      /\ call.subtype[i] \in SUBSET Base
  BY <1>0, <1>1, CallsAssumption DEF WellFormed, Formals
<1>3. store' \in [Object -> Base]
  BY SideEffectType DEF Evaluate, TypeOK
<1>4. ASSUME NEW v \in Base, EvaluateIn(i, v), v \in call.subtype[i]
      PROVE  DataInv'
  <2>1. i \notin Writable(call) /\ args' = [args EXCEPT ![i] = v]
        /\ pos' = pos + 1
        /\ UNCHANGED <<call, pc, snapshots, ranges, inputs, locals, results,
                       returned>>
    BY <1>4 DEF EvaluateIn
  <2>2. TypeOK'
    BY <1>1, <1>2, <1>3, <2>1 DEF TypeOK
  <2>3. SlotsFilled'
    BY <1>0, <1>1, <1>2, <2>1 DEF SlotsFilled, Filled, TypeOK, Called
  <2>4. RangesMatch'
    BY <1>2, <2>1 DEF RangesMatch, TypeOK
  <2>5. InputsMatch' /\ LocalsFilled' /\ ResultsMatch'
    BY <1>1, <2>1 DEF InputsMatch, LocalsFilled, ResultsMatch, Called, Returned
  <2>6. QED
    BY <2>2, <2>3, <2>4, <2>5
<1>5. ASSUME NEW o \in Object, EvaluateWritable(i, o),
             ~(call.mode[i] = "in_out" /\ store'[o] \notin call.subtype[i])
      PROVE  DataInv'
  <2>1. /\ i \in Writable(call) /\ args' = [args EXCEPT ![i] = o]
        /\ pos' = pos + 1
        /\ snapshots' = IF i \in NeedsInput(call)
                          THEN [snapshots EXCEPT ![i] = store'[o]]
                          ELSE snapshots
        /\ ranges' = IF o \in Dynamic
                       THEN [ranges EXCEPT ![i] = Subtype[o]] ELSE ranges
        /\ UNCHANGED <<call, pc, inputs, locals, results, returned>>
    BY <1>5 DEF EvaluateWritable
  <2>2. TypeOK'
    <3>1. store'[o] \in Base /\ Subtype[o] \in SUBSET Base
      BY <1>3, SubtypeAssumption
    <3>2. snapshots' \in [Formals(call) -> Base \cup {None}]
      BY <2>1, <3>1 DEF TypeOK
    <3>3. ranges' \in [Formals(call) -> (SUBSET Base) \cup {None}]
      BY <2>1, <3>1 DEF TypeOK
    <3>4. args' \in [Formals(call) -> Base \cup Object \cup {None}]
      BY <2>1 DEF TypeOK
    <3>5. QED
      BY <1>1, <1>2, <1>3, <2>1, <3>2, <3>3, <3>4 DEF TypeOK
  <2>3. SlotsFilled'
    <3>1. store'[o] \in Base
      BY <1>3
    <3>2. Filled(i)'
      BY <1>2, <2>1, <3>1 DEF Filled, TypeOK
    <3>3. ASSUME NEW p \in 1..(pos - 1)
          PROVE  Filled(call.order[p])'
      <4>1. p \in 1..call.n /\ call.order[p] # i
        BY <1>1, <1>2
      <4>2. Filled(call.order[p])
        BY <1>1 DEF SlotsFilled
      <4>3. QED
        BY <1>2, <2>1, <4>1, <4>2 DEF Filled, TypeOK
    <3>4. ASSUME NEW p \in (pos + 1)..call.n
          PROVE  ranges'[call.order[p]] = None
      <4>1. p \in 1..call.n /\ p \in pos..call.n /\ call.order[p] # i
        BY <1>1, <1>2
      <4>2. ranges[call.order[p]] = None
        BY <1>1, <4>1 DEF SlotsFilled
      <4>3. QED
        BY <1>2, <2>1, <4>1, <4>2 DEF TypeOK
    <3>5. \A p \in 1..pos : p = pos \/ p \in 1..(pos - 1)
      BY <1>1
    <3>6. (pos + 1) - 1 = pos /\ pc' # "call" /\ pc' \notin Called
      BY <1>1, <2>1 DEF Called
    <3>7. QED
      BY <1>0, <2>1, <3>2, <3>3, <3>4, <3>5, <3>6 DEF SlotsFilled
  <2>4. RangesMatch'
    <3>1. ASSUME NEW j \in Formals(call), ranges'[j] # None
          PROVE  j \in Writable(call) /\ args'[j] \in Object
                 /\ ranges'[j] = Subtype[args'[j]]
      <4>1. CASE j = i
        <5>1. pos \in pos..call.n
          BY <1>1
        <5>2. ranges[i] = None
          BY <1>0, <1>1, <5>1 DEF SlotsFilled
        <5>3. o \in Dynamic
          BY <2>1, <3>1, <4>1, <5>2
        <5>4. QED
          BY <1>2, <2>1, <4>1, <5>3 DEF TypeOK
      <4>2. CASE j # i
        <5>1. ranges'[j] = ranges[j] /\ args'[j] = args[j]
          BY <2>1, <4>2 DEF TypeOK
        <5>2. QED
          BY <3>1, <5>1 DEF RangesMatch
      <4>3. QED
        BY <4>1, <4>2
    <3>2. QED
      BY <2>1, <3>1 DEF RangesMatch
  <2>5. InputsMatch' /\ LocalsFilled' /\ ResultsMatch'
    BY <1>1, <2>1 DEF InputsMatch, LocalsFilled, ResultsMatch, Called, Returned
  <2>6. QED
    BY <2>2, <2>3, <2>4, <2>5
<1>6. CASE Stop("raised")
  BY <1>3, <1>6, RaisePreservesData
<1>7. QED
  BY <1>0, <1>4, <1>5, <1>6 DEF Evaluate, EvaluateIn, EvaluateWritable

(* Once every association is evaluated every operand is there.             *)
LEMMA OperandsFilled ==
  ASSUME DataInv, \A i \in Formals(call) : Filled(i)
  PROVE  \A i \in NeedsInput(call) :
           /\ CallOperand(i) =
                IF i \in Writable(call) THEN snapshots[i] ELSE args[i]
           /\ CallOperand(i) \in Base
<1> SUFFICES ASSUME NEW i \in NeedsInput(call)
             PROVE  /\ CallOperand(i) =
                         IF i \in Writable(call) THEN snapshots[i] ELSE args[i]
                    /\ CallOperand(i) \in Base
  OBVIOUS
<1>1. call \in Calls /\ i \in 1..call.n /\ i \in Formals(call)
  BY ProfileSets DEF DataInv, TypeOK, Formals
<1>2. Filled(i)
  BY <1>1
<1>3. CASE i \notin Writable(call)
  BY <1>1, <1>2, <1>3, ProfileSets DEF CallOperand, Filled
<1>4. CASE i \in Writable(call)
  <2>1. call.mode[i] # "in"
    BY <1>1, <1>4, ProfileSets
  <2>2. InitialFormals \in SUBSET (1..call.n) /\ call.n \in Nat
        /\ i \in InitialFormals
    BY <1>1, <1>4, ProfileSets DEF InitialFormals
  <2>3. InitialValues[Rank(InitialFormals, i)] = snapshots[i]
    BY <2>2, DenseLookup DEF InitialValues
  <2>4. QED
    BY <1>2, <1>4, <2>1, <2>3 DEF CallOperand, Filled
<1>5. QED
  BY <1>3, <1>4

(* Gathering the operands builds the input list the invariant describes. *)
LEMMA CallPreservesData ==
  ASSUME DataInv, Call
  PROVE  DataInv'
<1> DEFINE f == [i \in NeedsInput(call) |-> CallOperand(i)]
<1>1. call \in Calls /\ pc = "evaluate" /\ pos = call.n + 1
      /\ call.n \in Nat
      /\ inputs' = Dense(NeedsInput(call), f) \o call.captures /\ pc' = "call"
      /\ UNCHANGED <<call, pos, store, args, snapshots, ranges, locals, results,
                     returned>>
  BY ProfileSets DEF Call, DataInv, TypeOK
<1>2. \A i \in Formals(call) : Filled(i)
  <2>1. ASSUME NEW i \in 1..call.n
        PROVE  Filled(i)
    <3>1. PICK p \in 1..call.n : call.order[p] = i
      BY <1>1, OrderOnto
    <3>2. p \in 1..(pos - 1)
      BY <1>1
    <3>3. QED
      BY <1>1, <3>1, <3>2 DEF DataInv, SlotsFilled
  <2>2. QED
    BY <2>1 DEF Formals
<1>3. \A i \in NeedsInput(call) : f[i] \in Base
  BY <1>2, OperandsFilled
<1>4. inputs' \in Seq(Base \cup Object)
  <2> HIDE DEF f
  <2>1. QED BY <1>1, <1>3, InputList
<1>5. TypeOK'
  BY <1>1, <1>4 DEF DataInv, TypeOK, Pcs
<1>6. SlotsFilled'
  BY <1>1, <1>2 DEF SlotsFilled, Filled
<1>7. RangesMatch'
  BY <1>1 DEF DataInv, RangesMatch
<1>8. InputsMatch'
  BY <1>1 DEF InputsMatch, CallOperand, InitialValues, InitialFormals
<1>9. LocalsFilled' /\ ResultsMatch'
  BY <1>1 DEF LocalsFilled, ResultsMatch, Returned
<1>10. QED
  BY <1>5, <1>6, <1>7, <1>8, <1>9 DEF DataInv

(* What the operands look like while the call is active. *)
LEMMA ActiveInputs ==
  ASSUME DataInv, pc \in Called
  PROVE  /\ \A i \in NeedsInput(call) :
              /\ inputs[InputIndex(call, i)] =
                   IF i \in Writable(call) THEN snapshots[i] ELSE args[i]
              /\ inputs[InputIndex(call, i)] \in Base
         /\ \A x \in FirstCapture(call)..Len(inputs) : inputs[x] \in Object
<1> DEFINE f == [i \in NeedsInput(call) |-> CallOperand(i)]
<1>1. call \in Calls /\ \A i \in Formals(call) : Filled(i)
  BY DEF DataInv, TypeOK, SlotsFilled
<1>2. \A i \in NeedsInput(call) :
        f[i] = (IF i \in Writable(call) THEN snapshots[i] ELSE args[i])
        /\ f[i] \in Base
  BY <1>1, OperandsFilled
<1>3. inputs = Dense(NeedsInput(call), f) \o call.captures
  BY DEF DataInv, InputsMatch
<1> HIDE DEF f
<1>4. /\ \A i \in NeedsInput(call) : inputs[InputIndex(call, i)] = f[i]
      /\ \A x \in FirstCapture(call)..Len(inputs) : inputs[x] \in Object
  BY <1>1, <1>2, <1>3, InputList
<1>5. QED
  BY <1>2, <1>4

(* The operands after the formals are the captures.                        *)
LEMMA InputCaptures ==
  ASSUME DataInv, pc \in Called, NEW x \in FirstCapture(call)..Len(inputs)
  PROVE  \E y \in 1..Len(call.captures) : call.captures[y] = inputs[x]
<1> DEFINE S == NeedsInput(call)
           d == Dense(S, [i \in S |-> CallOperand(i)])
           V == Base \cup Object
<1>1. call \in Calls /\ \A i \in Formals(call) : Filled(i)
  BY DEF DataInv, TypeOK, SlotsFilled
<1>2. call.n \in Nat /\ S \in SUBSET (1..call.n)
      /\ call.captures \in Seq(Object)
  BY <1>1, ProfileSets DEF WellFormed
<1>3. d \in Seq(V) /\ Len(d) = Cardinality(S)
  <2>1. \A i \in S : [j \in S |-> CallOperand(j)][i] \in V
    BY <1>1, OperandsFilled
  <2>2. QED
    BY <1>2, <2>1, DenseType
<1>4. call.captures \in Seq(V)
  BY <1>2, SeqMonotonic
<1>5. Len(d) \in Nat /\ Len(call.captures) \in Nat
  BY <1>3, <1>4, LenProperties
<1>6. inputs = d \o call.captures
  BY DEF DataInv, InputsMatch
<1> HIDE DEF d
<1>7. /\ Len(inputs) = Len(d) + Len(call.captures)
      /\ \A y \in 1..Len(d) + Len(call.captures) :
            inputs[y] = IF y <= Len(d) THEN d[y] ELSE call.captures[y - Len(d)]
  BY <1>3, <1>4, <1>6, ConcatProperties
<1>8. x - Len(d) \in 1..Len(call.captures) /\ ~(x <= Len(d))
      /\ x \in 1..Len(d) + Len(call.captures)
  BY <1>3, <1>5, <1>7 DEF FirstCapture
<1>9. QED
  BY <1>7, <1>8

(* Entering the callee gives every writable formal an object with a value. *)
LEMMA EnterPreservesData ==
  ASSUME DataInv, Enter
  PROVE  DataInv'
<1>1. call \in Calls /\ pc = "call" /\ pc' = "body"
      /\ UNCHANGED <<call, pos, store, args, snapshots, ranges, inputs, results,
                     returned>>
  BY DEF Enter, DataInv, TypeOK
<1>2. PICK g \in [Uninitialized(call) -> Base] :
        locals' = [i \in Formals(call) |->
                     IF i \notin Writable(call) THEN None
                     ELSE IF i \in NeedsInput(call)
                            THEN inputs[InputIndex(call, i)] ELSE g[i]]
  BY DEF Enter
<1>3. \A i \in NeedsInput(call) : inputs[InputIndex(call, i)] \in Base
  BY <1>1, ActiveInputs DEF Called
<1>4. \A i \in Formals(call) :
        IF i \in Writable(call) THEN locals'[i] \in Base ELSE locals'[i] = None
  BY <1>2, <1>3 DEF Uninitialized
<1>5. locals' \in [Formals(call) -> Base \cup {None}]
  BY <1>2, <1>4
<1>6. TypeOK'
  BY <1>1, <1>5 DEF DataInv, TypeOK, Pcs
<1>7. SlotsFilled' /\ RangesMatch'
  BY <1>1 DEF DataInv, SlotsFilled, Filled, RangesMatch, Called
<1>8. InputsMatch'
  BY <1>1 DEF DataInv, InputsMatch, CallOperand, InitialValues, InitialFormals,
              Called
<1>9. LocalsFilled' /\ ResultsMatch'
  BY <1>1, <1>4 DEF LocalsFilled, ResultsMatch, Returned, Writable
<1>10. QED
  BY <1>6, <1>7, <1>8, <1>9 DEF DataInv

(* A body step changes the objects of the formals, or the store.           *)
LEMMA BodyPreservesData ==
  ASSUME DataInv, AssignFormal \/ AssignUpLevel \/ BodyRaises
  PROVE  DataInv'
<1>1. call \in Calls /\ pc = "body" /\ WellFormed(call)
  BY ProfileSets DEF AssignFormal, AssignUpLevel, BodyRaises, DataInv, TypeOK
<1>2. CASE AssignFormal
  <2>0. PICK i \in Writable(call) :
          \E v \in call.subtype[i] : locals' = [locals EXCEPT ![i] = v]
    BY <1>2 DEF AssignFormal
  <2>1. PICK v \in call.subtype[i] : locals' = [locals EXCEPT ![i] = v]
    BY <2>0
  <2>2. v \in Base /\ i \in Formals(call)
    BY <1>1, <2>1 DEF WellFormed, Writable, Formals
  <2>3. UNCHANGED <<call, pc, pos, store, args, snapshots, ranges, inputs,
                    results, returned>>
    BY <1>2 DEF AssignFormal
  <2>4. TypeOK'
    BY <2>1, <2>2, <2>3 DEF DataInv, TypeOK
  <2>5. SlotsFilled' /\ RangesMatch'
    BY <2>3 DEF DataInv, SlotsFilled, Filled, RangesMatch
  <2>6. InputsMatch'
    BY <2>3 DEF DataInv, InputsMatch, CallOperand, InitialValues, InitialFormals
  <2>7. LocalsFilled'
    BY <1>1, <2>1, <2>2, <2>3 DEF DataInv, TypeOK, LocalsFilled, Writable
  <2>8. ResultsMatch'
    BY <1>1, <2>3 DEF ResultsMatch, Returned
  <2>9. QED
    BY <2>4, <2>5, <2>6, <2>7, <2>8 DEF DataInv
<1>3. CASE AssignUpLevel
  <2>1. PICK x \in FirstCapture(call)..Len(inputs) :
          \E v \in Subtype[inputs[x]] : store' = [store EXCEPT ![inputs[x]] = v]
    BY <1>3 DEF AssignUpLevel
  <2>2. inputs[x] \in Object
    BY <1>1, ActiveInputs DEF Called
  <2>3. store' \in [Object -> Base]
    <3>1. PICK v \in Subtype[inputs[x]] : store' = [store EXCEPT ![inputs[x]] = v]
      BY <2>1
    <3>2. v \in Base
      BY <2>2, <3>1, SubtypeAssumption
    <3>3. QED
      BY <3>1, <3>2 DEF DataInv, TypeOK
  <2>4. UNCHANGED <<call, pc, pos, args, snapshots, ranges, inputs, locals,
                    results, returned>>
    BY <1>3 DEF AssignUpLevel
  <2>5. TypeOK'
    BY <2>3, <2>4 DEF DataInv, TypeOK
  <2>6. SlotsFilled' /\ RangesMatch' /\ LocalsFilled' /\ ResultsMatch'
    BY <1>1, <2>4 DEF DataInv, SlotsFilled, Filled, RangesMatch, LocalsFilled,
                      ResultsMatch, Returned
  <2>7. InputsMatch'
    BY <2>4 DEF DataInv, InputsMatch, CallOperand, InitialValues, InitialFormals
  <2>8. QED
    BY <2>5, <2>6, <2>7 DEF DataInv
<1>4. CASE BodyRaises
  BY <1>4, RaisePreservesData DEF BodyRaises, DataInv, TypeOK
<1>5. QED
  BY <1>2, <1>3, <1>4

(* The return lists the values of the writable formals.                    *)
LEMMA ReturnPreservesData ==
  ASSUME DataInv, Return
  PROVE  DataInv'
<1>1. call \in Calls /\ call.n \in Nat /\ pc = "body" /\ pc' = "copyback"
      /\ pos' = 1 /\ returned' = store
      /\ UNCHANGED <<call, store, args, snapshots, ranges, inputs, locals>>
  BY ProfileSets DEF Return, DataInv, TypeOK
<1>2. PICK r \in FunctionResults :
        results' = r \o Dense(Writable(call), locals)
  BY DEF Return
<1>3. \A i \in Writable(call) : locals[i] \in Base
  BY <1>1 DEF DataInv, LocalsFilled
<1>4. results' \in Seq(Base)
  BY <1>1, <1>2, <1>3, ResultList
<1>5. TypeOK'
  BY <1>1, <1>4 DEF DataInv, TypeOK, Pcs
<1>6. SlotsFilled' /\ RangesMatch' /\ LocalsFilled'
  BY <1>1, <1>3 DEF DataInv, SlotsFilled, Filled, RangesMatch, LocalsFilled, Called
<1>7. InputsMatch'
  BY <1>1 DEF DataInv, InputsMatch, CallOperand, InitialValues, InitialFormals,
              Called
<1>8. ResultsMatch'
  BY <1>1, <1>2 DEF ResultsMatch, FunctionResults
<1>9. QED
  BY <1>5, <1>6, <1>7, <1>8 DEF DataInv

(* What the caller reads back is what the callee's objects held.           *)
LEMMA ReturnedOutputs ==
  ASSUME DataInv, pc \in Returned
  PROVE  /\ \A i \in Writable(call) : Output(i) = locals[i] /\ Output(i) \in Base
         /\ call.isFunction => results[1] \in Base
<1>1. call \in Calls /\ \A i \in Writable(call) : locals[i] \in Base
  BY DEF DataInv, TypeOK, LocalsFilled
<1>2. PICK r \in FunctionResults : results = r \o Dense(Writable(call), locals)
  BY DEF DataInv, ResultsMatch
<1>3. \A i \in Writable(call) : results[ResultIndex(call, i)] = locals[i]
      /\ (call.isFunction => results[1] \in Base)
  BY <1>1, <1>2, ResultList
<1>4. call.isFunction => results[1] \in Base
  BY <1>1, <1>2, ResultList
<1>5. QED
  BY <1>1, <1>3, <1>4 DEF Output

(* The check of a copy-back is the check of the actual's own subtype.      *)
LEMMA ConstraintIsActualSubtype ==
  ASSUME DataInv, pc \in Returned, NEW i \in Writable(call)
  PROVE  args[i] \in Object /\ Constraint(i) = Subtype[args[i]]
<1>1. call \in Calls /\ i \in Formals(call) /\ i \in 1..call.n
      /\ call.n \in Nat
  BY ProfileSets DEF DataInv, TypeOK, Formals
<1>2. args[i] \in Object
  BY <1>1 DEF DataInv, SlotsFilled, Filled, Called, Returned
<1>3. CASE i \in RangeFormals
  <2>1. RangeFormals \in SUBSET (1..call.n)
    BY DEF RangeFormals, Formals
  <2>2. CopybackRanges[Rank(RangeFormals, i)] = ranges[i]
    BY <1>1, <1>3, <2>1, DenseLookup DEF CopybackRanges
  <2>3. ranges[i] = Subtype[args[i]]
    BY <1>1, <1>3 DEF DataInv, RangesMatch, RangeFormals
  <2>4. QED
    BY <1>2, <1>3, <2>2, <2>3 DEF Constraint
<1>4. CASE i \notin RangeFormals
  BY <1>2, <1>4 DEF Constraint
<1>5. QED
  BY <1>3, <1>4

(* One step of the copy-back, its indices resolved.                        *)
LEMMA CopyBackStep ==
  ASSUME DataInv, CopyBack
  PROVE  LET i == call.order[pos]
         IN  /\ pc = "copyback" /\ pos \in 1..call.n /\ i \in Formals(call)
             /\ UNCHANGED <<call, args, snapshots, ranges, inputs, locals,
                            results, returned>>
             /\ \/ /\ i \notin Writable(call)
                   /\ pos' = pos + 1 /\ pc' = pc /\ store' = store
                \/ /\ i \in Writable(call) /\ args[i] \in Object
                   /\ Output(i) \in Base /\ Output(i) \in Subtype[args[i]]
                   /\ store' = [store EXCEPT ![args[i]] = Output(i)]
                   /\ pos' = pos + 1 /\ pc' = pc
                \/ /\ i \in Writable(call)
                   /\ Output(i) \notin Subtype[args[i]]
                   /\ pos' = pos /\ pc' = "partial" /\ store' = store
<1> DEFINE i == call.order[pos]
<1>1. call \in Calls /\ pc = "copyback" /\ pos \in 1..call.n
      /\ i \in Formals(call) /\ pc \in Returned
  BY CallsAssumption DEF CopyBack, DataInv, TypeOK, WellFormed, Formals, Returned
<1>2. CopyBackOrder[pos] = i
  BY <1>1, CopyBackOrderIsAssociationOrder
<1>3. Pass(i) \/ CopyOut(i)
  BY <1>2 DEF CopyBack
<1>4. CASE Pass(i)
  BY <1>1, <1>4 DEF Pass
<1>5. CASE CopyOut(i)
  <2>1. i \in Writable(call)
    BY <1>5 DEF CopyOut
  <2>2. args[i] \in Object /\ Constraint(i) = Subtype[args[i]] /\ Output(i) \in Base
    BY <1>1, <2>1, ConstraintIsActualSubtype, ReturnedOutputs
  <2>3. QED
    BY <1>1, <1>5, <2>1, <2>2 DEF CopyOut, Stop
<1>6. QED
  BY <1>3, <1>4, <1>5

(* A copy-back step moves the position and the store only. *)
LEMMA CopyBackPreservesData ==
  ASSUME DataInv, CopyBack \/ Finish
  PROVE  DataInv'
<1>1. /\ UNCHANGED <<call, args, snapshots, ranges, inputs, locals, results,
                     returned>>
      /\ pc = "copyback" /\ pc' \in Returned
      /\ pos' \in 1..(call.n + 1) /\ store' \in [Object -> Base]
  <2>1. CASE CopyBack
    <3>1. call.n \in Nat /\ pos \in 1..(call.n + 1)
          /\ store \in [Object -> Base]
      BY ProfileSets DEF DataInv, TypeOK
    <3>2. QED
      BY <2>1, <3>1, CopyBackStep DEF Returned
  <2>2. CASE Finish
    BY <2>2 DEF Finish, Stop, DataInv, TypeOK, Returned
  <2>3. QED
    BY <2>1, <2>2
<1>2. TypeOK'
  BY <1>1 DEF DataInv, TypeOK, Pcs, Returned
<1>3. SlotsFilled' /\ RangesMatch' /\ LocalsFilled' /\ ResultsMatch'
  BY <1>1 DEF DataInv, SlotsFilled, Filled, RangesMatch, LocalsFilled,
              ResultsMatch, FunctionResults, Called, Returned
<1>4. InputsMatch'
  BY <1>1 DEF DataInv, InputsMatch, CallOperand, InitialValues, InitialFormals,
              Called, Returned
<1>5. QED
  BY <1>2, <1>3, <1>4 DEF DataInv

-----------------------------------------------------------------------------
(* Theorems *)

(* An execution starts with every slot empty. *)
LEMMA DataInvInit == Init => DataInv
<1> SUFFICES ASSUME Init PROVE DataInv
  OBVIOUS
<1>1. call \in Calls /\ call.n \in Nat
  BY ProfileSets DEF Init
<1>2. TypeOK
  BY <1>1, EmptySeq DEF Init, TypeOK, Pcs, NoFormals
<1>3. SlotsFilled
  <2>1. call.order \in [1..call.n -> 1..call.n]
    BY <1>1, CallsAssumption DEF WellFormed
  <2>2. \A p \in 1..call.n : ranges[call.order[p]] = None
    BY <2>1 DEF Init, NoFormals, Formals
  <2>3. pos = 1 /\ 1..(1 - 1) = {} /\ pc = "evaluate"
    BY DEF Init
  <2>4. QED
    BY <2>2, <2>3 DEF SlotsFilled, Called
<1>4. RangesMatch /\ InputsMatch /\ LocalsFilled /\ ResultsMatch
  BY DEF Init, RangesMatch, InputsMatch, LocalsFilled, ResultsMatch, NoFormals,
         Called, Returned
<1>5. QED
  BY <1>2, <1>3, <1>4 DEF DataInv

(* No action disturbs the data invariant. *)
LEMMA DataInvStep == DataInv /\ [Next]_vars => DataInv'
<1> SUFFICES ASSUME DataInv, [Next]_vars PROVE DataInv'
  OBVIOUS
<1>1. CASE UNCHANGED vars
  <2>1. TypeOK' /\ SlotsFilled' /\ RangesMatch'
    BY <1>1 DEF DataInv, vars, TypeOK, SlotsFilled, Filled, RangesMatch
  <2>2. InputsMatch' /\ LocalsFilled' /\ ResultsMatch'
    BY <1>1 DEF DataInv, vars, InputsMatch, CallOperand, InitialValues,
                InitialFormals, LocalsFilled, ResultsMatch, FunctionResults
  <2>3. QED
    BY <2>1, <2>2 DEF DataInv
<1>2. QED
  BY <1>1, EvaluatePreservesData, CallPreservesData, EnterPreservesData,
     BodyPreservesData, ReturnPreservesData, CopyBackPreservesData DEF Next

(* Every operand, snapshot, local object, result and range descriptor of a *)
(* lowered call has the type of its slot.                                  *)
THEOREM TypeCorrect == Spec => []TypeOK
<1>1. DataInv => TypeOK
  BY DEF DataInv
<1>2. QED
  BY <1>1, DataInvInit, DataInvStep, PTL DEF Spec

(* Copy-back keeps the account CopyBackPrefix gives of the store, and      *)
(* leaves a valid actual behind at every association.                      *)
LEMMA CallInvStep == CallInv /\ [Next]_vars => CallInv'
<1> SUFFICES ASSUME CallInv, [Next]_vars PROVE CallInv'
  OBVIOUS
<1>0. DataInv /\ DataInv' /\ AssignedActualsValid /\ CopyBackPrefix
  BY DataInvStep DEF CallInv
<1>1. CASE UNCHANGED vars
  BY <1>0, <1>1 DEF vars, CallInv, AssignedActualsValid, CopyBackPrefix, Copied,
                    Output, Returned
<1>2. CASE pc' \notin Returned
  BY <1>0, <1>2 DEF CallInv, AssignedActualsValid, CopyBackPrefix, Returned
<1>3. CASE Return
  <2>1. pc' = "copyback" /\ pos' = 1 /\ returned' = store /\ store' = store
        /\ call' = call /\ args' = args
    BY <1>3 DEF Return
  <2>2. 1..(1 - 1) = {}
    OBVIOUS
  <2>3. QED
    BY <1>0, <2>1, <2>2 DEF CallInv, AssignedActualsValid, CopyBackPrefix, Copied
<1>4. CASE Finish
  <2>1. pc = "copyback" /\ pc' = "done" /\ pos = call.n + 1
        /\ UNCHANGED <<call, pos, store, args, results, returned>>
    BY <1>4 DEF Finish, Stop
  <2>2. QED
    BY <1>0, <2>1 DEF CallInv, AssignedActualsValid, CopyBackPrefix, Copied,
                      Output, Returned
<1>5. CASE CopyBack
  <2>1. PICK i : i = call.order[pos]
    OBVIOUS
  <2>2. /\ pc = "copyback" /\ pos \in 1..call.n /\ call.n \in Nat
        /\ UNCHANGED <<call, args, results, returned>>
        /\ store \in [Object -> Base]
        /\ \A p \in 1..call.n : call.order[p] \in Formals(call)
    BY <1>0, <1>5, CopyBackStep, CallsAssumption
       DEF DataInv, TypeOK, WellFormed, Formals
  <2>3. \A p \in 1..(pos - 1) : call.order[p] \in Writable(call) =>
          args[call.order[p]] \in Object
    BY <1>0, <2>2, ConstraintIsActualSubtype DEF Returned
  <2>4. CASE /\ i \notin Writable(call)
             /\ pos' = pos + 1 /\ pc' = pc /\ store' = store
    <3>1. (pos + 1) - 1 = pos /\ 1..pos = 1..(pos - 1) \cup {pos}
      BY <2>2
    <3>2. \A o \in Object : ~Copied(pos, o)
      BY <2>1, <2>4 DEF Copied
    <3>3. AssignedActualsValid'
      BY <1>0, <2>1, <2>2, <2>4, <3>1 DEF AssignedActualsValid, Returned
    <3>4. CopyBackPrefix'
      <4>1. ASSUME NEW o \in Object
            PROVE  \/ /\ store[o] = returned[o]
                      /\ \A p \in 1..pos : ~Copied(p, o)
                   \/ \E p \in 1..pos :
                        /\ Copied(p, o)
                        /\ store[o] = Output(call.order[p])
                        /\ \A q \in (p + 1)..pos : ~Copied(q, o)
        <5>1. CASE /\ store[o] = returned[o]
                   /\ \A p \in 1..(pos - 1) : ~Copied(p, o)
          BY <3>1, <3>2, <5>1
        <5>2. CASE \E p \in 1..(pos - 1) :
                     /\ Copied(p, o)
                     /\ store[o] = Output(call.order[p])
                     /\ \A q \in (p + 1)..(pos - 1) : ~Copied(q, o)
          <6>1. PICK p \in 1..(pos - 1) :
                  /\ Copied(p, o)
                  /\ store[o] = Output(call.order[p])
                  /\ \A q \in (p + 1)..(pos - 1) : ~Copied(q, o)
            BY <5>2
          <6>2. p \in 1..pos
                /\ \A q \in (p + 1)..pos : q = pos \/ q \in (p + 1)..(pos - 1)
            BY <2>2
          <6>3. QED
            BY <3>2, <6>1, <6>2
        <5>3. QED
          BY <1>0, <2>2, <5>1, <5>2 DEF CopyBackPrefix
      <4>2. QED
        BY <2>2, <2>4, <3>1, <4>1 DEF CopyBackPrefix, Copied, Output
    <3>5. QED
      BY <1>0, <3>3, <3>4 DEF CallInv
  <2>5. CASE /\ i \in Writable(call) /\ args[i] \in Object
             /\ Output(i) \in Base /\ Output(i) \in Subtype[args[i]]
             /\ store' = [store EXCEPT ![args[i]] = Output(i)]
             /\ pos' = pos + 1 /\ pc' = pc
    <3>1. (pos + 1) - 1 = pos /\ 1..pos = 1..(pos - 1) \cup {pos}
      BY <2>2
    <3>2. AssignedActualsValid'
      <4>1. ASSUME NEW p \in 1..pos, call.order[p] \in Writable(call)
            PROVE  store'[args[call.order[p]]] \in Subtype[args[call.order[p]]]
        <5>1. CASE args[call.order[p]] = args[i]
          BY <2>2, <2>5, <5>1
        <5>2. CASE args[call.order[p]] # args[i]
          <6>1. p \in 1..(pos - 1)
            BY <2>1, <3>1, <5>2
          <6>2. args[call.order[p]] \in Object
                /\ store[args[call.order[p]]] \in Subtype[args[call.order[p]]]
            BY <1>0, <2>2, <2>3, <4>1, <6>1 DEF AssignedActualsValid, Returned
          <6>3. QED
            BY <2>2, <2>5, <5>2, <6>2
        <5>3. QED
          BY <5>1, <5>2
      <4>2. QED
        BY <2>2, <2>5, <3>1, <4>1 DEF AssignedActualsValid, Returned
    <3>3. CopyBackPrefix'
      <4>1. ASSUME NEW o \in Object
            PROVE  \/ /\ store'[o] = returned[o]
                      /\ \A p \in 1..pos : ~Copied(p, o)
                   \/ \E p \in 1..pos :
                        /\ Copied(p, o)
                        /\ store'[o] = Output(call.order[p])
                        /\ \A q \in (p + 1)..pos : ~Copied(q, o)
        <5>1. CASE o = args[i]
          <6>1. Copied(pos, o) /\ store'[o] = Output(call.order[pos])
            BY <2>1, <2>2, <2>5, <5>1 DEF Copied
          <6>2. pos \in 1..pos /\ (pos + 1)..pos = {}
            BY <2>2
          <6>3. QED
            BY <6>1, <6>2
        <5>2. CASE o # args[i]
          <6>1. store'[o] = store[o] /\ ~Copied(pos, o)
            BY <2>1, <2>2, <2>5, <5>2 DEF Copied
          <6>2. CASE /\ store[o] = returned[o]
                     /\ \A p \in 1..(pos - 1) : ~Copied(p, o)
            BY <3>1, <6>1, <6>2
          <6>3. CASE \E p \in 1..(pos - 1) :
                       /\ Copied(p, o)
                       /\ store[o] = Output(call.order[p])
                       /\ \A q \in (p + 1)..(pos - 1) : ~Copied(q, o)
            <7>1. PICK p \in 1..(pos - 1) :
                    /\ Copied(p, o)
                    /\ store[o] = Output(call.order[p])
                    /\ \A q \in (p + 1)..(pos - 1) : ~Copied(q, o)
              BY <6>3
            <7>2. p \in 1..pos
                  /\ \A q \in (p + 1)..pos : q = pos \/ q \in (p + 1)..(pos - 1)
              BY <2>2
            <7>3. QED
              BY <6>1, <7>1, <7>2
          <6>4. QED
            BY <1>0, <2>2, <6>2, <6>3 DEF CopyBackPrefix
        <5>3. QED
          BY <5>1, <5>2
      <4>2. QED
        BY <2>2, <2>5, <3>1, <4>1 DEF CopyBackPrefix, Copied, Output
    <3>4. QED
      BY <1>0, <3>2, <3>3 DEF CallInv
  <2>6. CASE pos' = pos /\ pc' = "partial" /\ store' = store
    BY <1>0, <2>2, <2>6 DEF CallInv, AssignedActualsValid, CopyBackPrefix, Copied,
                            Output, Returned
  <2>7. QED
    BY <1>0, <1>5, <2>1, <2>4, <2>5, <2>6, CopyBackStep
<1>6. pc' \notin Returned \/ UNCHANGED vars \/ Return \/ Finish \/ CopyBack
  BY <1>0 DEF Next, Evaluate, EvaluateIn, EvaluateWritable, Call, Enter,
      AssignFormal, AssignUpLevel, BodyRaises, Stop, Returned
<1>7. QED
  BY <1>1, <1>2, <1>3, <1>4, <1>5, <1>6

(* The invariant of the whole execution, data and copy-back. *)
LEMMA CallInvInvariant == Spec => []CallInv
<1>1. Init => CallInv
  BY DataInvInit DEF CallInv, Init, AssignedActualsValid, CopyBackPrefix, Returned
<1>2. QED
  BY <1>1, CallInvStep, PTL DEF Spec

(* At every point of a copy-back, finished or cut short by a failed check, *)
(* the store is the one the callee left with exactly the assignments of    *)
(* the associations before that point made, the last one winning.          *)
THEOREM CopyBackCorrect == Spec => []CopyBackPrefix
<1>1. CallInv => CopyBackPrefix
  BY DEF CallInv
<1>2. QED
  BY <1>1, CallInvInvariant, PTL

(* After a call that completes every writable actual holds a value of its  *)
(* subtype.                                                                *)
THEOREM ActualsValid == Spec => []CompletedActualsValid
<1>1. CallInv => CompletedActualsValid
  <2> SUFFICES ASSUME CallInv, pc = "done", NEW i \in Writable(call)
               PROVE  store[args[i]] \in Subtype[args[i]]
    BY DEF CompletedActualsValid
  <2>1. call \in Calls /\ i \in 1..call.n /\ call.n \in Nat
    BY ProfileSets DEF CallInv, DataInv, TypeOK
  <2>2. PICK p \in 1..call.n : call.order[p] = i
    BY <2>1, OrderOnto
  <2>3. pos = call.n + 1 /\ p \in 1..(pos - 1)
    BY <2>1 DEF CallInv, AssignedActualsValid
  <2>4. QED
    BY <2>2, <2>3 DEF CallInv, AssignedActualsValid, Returned
<1>2. QED
  BY <1>1, CallInvInvariant, PTL

-----------------------------------------------------------------------------
(* Refinement *)

(* The refinement mapping, phase by phase.                                 *)
MappedPhases ==
  /\ pc \in {"evaluate", "call"} =>
       /\ PhaseBar = "evaluate" /\ ResultBar = None
       /\ FormalBar = [i \in Formals(call) |->
                        IF i \in Writable(call) THEN snapshots[i] ELSE args[i]]
  /\ pc = "body" =>
       /\ PhaseBar = "body" /\ ResultBar = None
       /\ FormalBar = [i \in Formals(call) |->
                        IF i \in Writable(call) THEN locals[i]
                        ELSE inputs[InputIndex(call, i)]]
  /\ pc = "copyback" =>
       /\ PhaseBar = "copyback"
       /\ ResultBar = IF call.isFunction THEN results[1] ELSE None
       /\ FormalBar = [i \in Formals(call) |->
                        IF i \in Writable(call) THEN Output(i)
                        ELSE inputs[InputIndex(call, i)]]
  /\ pc = "done" =>
       /\ PhaseBar = "done" /\ FormalBar = NoFormals(call)
       /\ ResultBar = IF call.isFunction THEN results[1] ELSE None
  /\ pc \in {"raised", "partial"} =>
       /\ PhaseBar = "raised" /\ FormalBar = NoFormals(call)
       /\ ResultBar = None

(* PhaseBar, FormalBar and ResultBar, one pc at a time. *)
LEMMA MappedPhasesHold == MappedPhases /\ MappedPhases'
<1>1. MappedPhases
  BY DEF MappedPhases, PhaseBar, FormalBar, ResultBar, NoFormals
<1>2. MappedPhases'
  BY DEF MappedPhases, PhaseBar, FormalBar, ResultBar, NoFormals
<1>3. QED
  BY <1>1, <1>2

(* A raise of the lowered code is a raise of the call.                     *)
LEMMA RaiseRefines ==
  ASSUME call \in Calls, Stop("raised") \/ Stop("partial")
  PROVE  AbstractCall!Raise
<1>1. call' = call /\ pos' = pos /\ args' = args
  BY DEF Stop
<1>2. PhaseBar' = "raised" /\ FormalBar' = NoFormals(call') /\ ResultBar' = None
  BY MappedPhasesHold DEF MappedPhases, Stop
<1>3. TargetBar' = TargetBar
  BY <1>1 DEF TargetBar
<1>4. QED
  BY <1>1, <1>2, <1>3 DEF AbstractCall!Raise, NoFormals, AbstractCall!NoFormals,
     Formals, AbstractCall!Formals

(* Evaluating an actual for the lowered call evaluates it for the call. *)
LEMMA EvaluateRefines ==
  ASSUME DataInv, Evaluate
  PROVE  AbstractCall!Evaluate
<1>1. call \in Calls /\ pc = "evaluate" /\ pos \in 1..call.n
      /\ store' \in SideEffect(store)
  BY DEF DataInv, TypeOK, Evaluate
<1>2. PICK i : i = call.order[pos]
  OBVIOUS
<1>3. call.n \in Nat /\ i \in 1..call.n /\ i \in Formals(call)
      /\ (i \notin Writable(call) <=> call.mode[i] = "in")
  BY <1>1, <1>2, CallsAssumption, ProfileSets DEF WellFormed, Formals
<1>4. /\ PhaseBar = "evaluate" /\ ResultBar = None
      /\ FormalBar = [j \in Formals(call) |->
                       IF j \in Writable(call) THEN snapshots[j] ELSE args[j]]
  BY <1>1, MappedPhasesHold DEF MappedPhases
<1>5. args \in [Formals(call) -> Base \cup Object \cup {None}]
      /\ snapshots \in [Formals(call) -> Base \cup {None}]
  BY DEF DataInv, TypeOK
<1>6. ASSUME NEW v \in Base, EvaluateIn(i, v), v \in call.subtype[i]
      PROVE  AbstractCall!EvaluateIn(i, v)
  <2>1. i \notin Writable(call) /\ args' = [args EXCEPT ![i] = v]
        /\ pos' = pos + 1 /\ UNCHANGED <<call, pc, snapshots>>
    BY <1>6 DEF EvaluateIn
  <2>2. /\ PhaseBar' = "evaluate" /\ ResultBar' = None
        /\ FormalBar' = [j \in Formals(call) |->
                          IF j \in Writable(call) THEN snapshots[j] ELSE args'[j]]
    BY <1>1, <2>1, MappedPhasesHold DEF MappedPhases
  <2>3. FormalBar' = [FormalBar EXCEPT ![i] = v]
    BY <1>3, <1>4, <1>5, <2>1, <2>2
  <2>4. TargetBar' = TargetBar
    BY <1>5, <2>1 DEF TargetBar
  <2>5. QED
    BY <1>3, <1>4, <1>6, <2>1, <2>2, <2>3, <2>4 DEF AbstractCall!EvaluateIn
<1>7. ASSUME NEW o \in Object, EvaluateWritable(i, o),
             ~(call.mode[i] = "in_out" /\ store'[o] \notin call.subtype[i])
      PROVE  AbstractCall!EvaluateWritable(i, o)
  <2>1. /\ i \in Writable(call) /\ args' = [args EXCEPT ![i] = o]
        /\ pos' = pos + 1 /\ UNCHANGED <<call, pc>>
        /\ snapshots' = IF i \in NeedsInput(call)
                          THEN [snapshots EXCEPT ![i] = store'[o]]
                          ELSE snapshots
    BY <1>7 DEF EvaluateWritable
  <2>2. /\ PhaseBar' = "evaluate" /\ ResultBar' = None
        /\ FormalBar' = [j \in Formals(call) |->
                          IF j \in Writable(call) THEN snapshots'[j] ELSE args'[j]]
    BY <1>1, <2>1, MappedPhasesHold DEF MappedPhases
  <2>3. FormalBar' = IF i \in NeedsInput(call)
                       THEN [FormalBar EXCEPT ![i] = store'[o]] ELSE FormalBar
    BY <1>3, <1>4, <1>5, <2>1, <2>2
  <2>4. TargetBar' = [TargetBar EXCEPT ![i] = o]
    BY <1>3, <1>5, <2>1 DEF TargetBar
  <2>5. QED
    BY <1>4, <1>7, <2>1, <2>2, <2>3, <2>4
       DEF AbstractCall!EvaluateWritable, AbstractCall!Writable, Writable,
           AbstractCall!NeedsInput, NeedsInput, AbstractCall!Formals, Formals
<1>8. CASE Stop("raised")
  BY <1>1, <1>4, <1>8, RaiseRefines
     DEF AbstractCall!Evaluate, AbstractCall!Formals, AbstractCall!SideEffect,
         SideEffect
<1>9. AbstractCall!Evaluate \/ Stop("raised")
  <2>1. CASE \E v \in Base : EvaluateIn(i, v) /\ v \in call.subtype[i]
    BY <1>1, <1>2, <1>3, <1>4, <1>6, <2>1
       DEF AbstractCall!Evaluate, AbstractCall!Formals, Formals,
           AbstractCall!SideEffect, SideEffect
  <2>2. CASE \E o \in Object :
               EvaluateWritable(i, o)
               /\ ~(call.mode[i] = "in_out" /\ store'[o] \notin call.subtype[i])
    BY <1>1, <1>2, <1>3, <1>4, <1>7, <2>2
       DEF AbstractCall!Evaluate, AbstractCall!Formals, Formals,
           AbstractCall!SideEffect, SideEffect
  <2>3. QED
    BY <1>2, <2>1, <2>2 DEF Evaluate, EvaluateIn, EvaluateWritable
<1>10. QED
  BY <1>1, <1>8, <1>9

(* Gathering the operands is no step of the abstract call.                 *)
LEMMA CallRefines ==
  ASSUME DataInv, Call
  PROVE  UNCHANGED AbstractCall!vars
<1>1. pc = "evaluate" /\ pc' = "call"
      /\ UNCHANGED <<call, pos, store, args, snapshots>>
  BY DEF Call
<1>2. TargetBar' = TargetBar
  BY <1>1 DEF TargetBar
<1>3. PhaseBar' = PhaseBar /\ ResultBar' = ResultBar /\ FormalBar' = FormalBar
  BY <1>1, MappedPhasesHold DEF MappedPhases
<1>4. QED
  BY <1>1, <1>2, <1>3 DEF AbstractCall!vars

(* Creating the callee's objects starts the body on formals of its own. *)
LEMMA EnterRefines ==
  ASSUME DataInv, Enter, pos = call.n + 1
  PROVE  AbstractCall!Enter
<1>1. call \in Calls /\ pc = "call" /\ pc' = "body"
      /\ UNCHANGED <<call, pos, store, args, snapshots, inputs>>
  BY DEF Enter, DataInv, TypeOK
<1>2. PICK g \in [Uninitialized(call) -> Base] :
        locals' = [i \in Formals(call) |->
                     IF i \notin Writable(call) THEN None
                     ELSE IF i \in NeedsInput(call)
                            THEN inputs[InputIndex(call, i)] ELSE g[i]]
  BY DEF Enter
<1>3. \A i \in NeedsInput(call) :
        inputs[InputIndex(call, i)] =
          IF i \in Writable(call) THEN snapshots[i] ELSE args[i]
  BY <1>1, ActiveInputs DEF Called
<1>4. \A i \in Formals(call) : i \notin Writable(call) => i \in NeedsInput(call)
  BY <1>1, ProfileSets DEF Formals
<1>5. /\ PhaseBar = "evaluate" /\ ResultBar = None
      /\ FormalBar = [i \in Formals(call) |->
                       IF i \in Writable(call) THEN snapshots[i] ELSE args[i]]
      /\ PhaseBar' = "body" /\ ResultBar' = None
      /\ FormalBar' = [i \in Formals(call) |->
                        IF i \in Writable(call) THEN locals'[i]
                        ELSE inputs[InputIndex(call, i)]]
  BY <1>1, MappedPhasesHold DEF MappedPhases
<1>6. FormalBar' = [i \in Formals(call) |->
                      IF i \in Uninitialized(call) THEN g[i] ELSE FormalBar[i]]
  BY <1>2, <1>3, <1>4, <1>5 DEF Uninitialized
<1>7. TargetBar' = TargetBar
  BY <1>1 DEF TargetBar
<1>8. QED
  BY <1>1, <1>5, <1>6, <1>7
     DEF AbstractCall!Enter, AbstractCall!Uninitialized, Uninitialized,
         AbstractCall!NeedsInput, NeedsInput, AbstractCall!Formals, Formals

(* What the body does to its objects it does to the formals. *)
LEMMA BodyRefines ==
  ASSUME DataInv, AssignFormal \/ AssignUpLevel \/ BodyRaises
  PROVE  AbstractCall!AssignFormal \/ AbstractCall!AssignUpLevel
         \/ AbstractCall!BodyRaises
<1>1. call \in Calls /\ pc = "body" /\ WellFormed(call)
  BY ProfileSets DEF AssignFormal, AssignUpLevel, BodyRaises, DataInv, TypeOK
<1>2. /\ PhaseBar = "body" /\ ResultBar = None
      /\ FormalBar = [i \in Formals(call) |->
                       IF i \in Writable(call) THEN locals[i]
                       ELSE inputs[InputIndex(call, i)]]
  BY <1>1, MappedPhasesHold DEF MappedPhases
<1>3. CASE AssignFormal
  <2>1. UNCHANGED <<call, pc, pos, store, args, inputs>>
    BY <1>3 DEF AssignFormal
  <2>2. /\ PhaseBar' = "body" /\ ResultBar' = None
        /\ FormalBar' = [i \in Formals(call) |->
                          IF i \in Writable(call) THEN locals'[i]
                          ELSE inputs[InputIndex(call, i)]]
    BY <1>1, <2>1, MappedPhasesHold DEF MappedPhases
  <2>3. PICK i \in Writable(call) :
          \E v \in call.subtype[i] : locals' = [locals EXCEPT ![i] = v]
    BY <1>3 DEF AssignFormal
  <2>4. PICK v \in call.subtype[i] : locals' = [locals EXCEPT ![i] = v]
    BY <2>3
  <2>5. i \in Formals(call) /\ locals \in [Formals(call) -> Base \cup {None}]
    BY <2>3 DEF Writable, DataInv, TypeOK
  <2>6. FormalBar' = [FormalBar EXCEPT ![i] = v]
    BY <1>2, <2>2, <2>4, <2>5
  <2>7. TargetBar' = TargetBar
    BY <2>1 DEF TargetBar
  <2>8. AbstractCall!AssignFormal
    BY <1>2, <2>1, <2>2, <2>3, <2>4, <2>6, <2>7
       DEF AbstractCall!AssignFormal, AbstractCall!Writable, Writable,
           AbstractCall!Formals, Formals
  <2>9. QED
    BY <2>8
<1>4. CASE AssignUpLevel
  <2>1. UNCHANGED <<call, pc, pos, args, inputs, locals>>
    BY <1>4 DEF AssignUpLevel
  <2>2. PhaseBar' = PhaseBar /\ ResultBar' = ResultBar /\ FormalBar' = FormalBar
    BY <1>1, <1>2, <2>1, MappedPhasesHold DEF MappedPhases
  <2>3. TargetBar' = TargetBar
    BY <2>1 DEF TargetBar
  <2>4. PICK x \in FirstCapture(call)..Len(inputs) :
          \E v \in Subtype[inputs[x]] : store' = [store EXCEPT ![inputs[x]] = v]
    BY <1>4 DEF AssignUpLevel
  <2>5. \E y \in 1..Len(call.captures) : call.captures[y] = inputs[x]
    BY <1>1, <2>4, InputCaptures DEF Called
  <2>6. AbstractCall!AssignUpLevel
    BY <1>2, <2>1, <2>2, <2>3, <2>4, <2>5 DEF AbstractCall!AssignUpLevel
  <2>7. QED
    BY <2>6
<1>5. CASE BodyRaises
  BY <1>1, <1>2, <1>5, RaiseRefines DEF BodyRaises, AbstractCall!BodyRaises
<1>6. QED
  BY <1>3, <1>4, <1>5

(* The list of results carries every formal to the copy-back. *)
LEMMA ReturnRefines ==
  ASSUME DataInv, Return
  PROVE  AbstractCall!Return
<1>1. call \in Calls /\ pc = "body" /\ pc' = "copyback" /\ pos' = 1
      /\ UNCHANGED <<call, store, args, inputs, locals>>
  BY DEF Return, DataInv, TypeOK
<1>2. DataInv' /\ pc' \in Returned
  BY <1>1, ReturnPreservesData DEF Returned
<1>3. PICK r \in FunctionResults :
        results' = r \o Dense(Writable(call), locals)
  BY DEF Return
<1>4. \A i \in Writable(call) : locals[i] \in Base
  BY <1>1 DEF DataInv, LocalsFilled
<1>5. /\ \A i \in Writable(call) : results'[ResultIndex(call, i)] = locals[i]
      /\ call.isFunction => results'[1] \in Base
  BY <1>1, <1>3, <1>4, ResultList
<1>6. /\ PhaseBar = "body" /\ ResultBar = None
      /\ FormalBar = [i \in Formals(call) |->
                       IF i \in Writable(call) THEN locals[i]
                       ELSE inputs[InputIndex(call, i)]]
      /\ PhaseBar' = "copyback"
      /\ ResultBar' = IF call.isFunction THEN results'[1] ELSE None
      /\ FormalBar' = [i \in Formals(call) |->
                        IF i \in Writable(call) THEN Output(i)'
                        ELSE inputs[InputIndex(call, i)]]
  BY <1>1, MappedPhasesHold DEF MappedPhases
<1>7. FormalBar' = FormalBar
  BY <1>1, <1>5, <1>6 DEF Output
<1>8. TargetBar' = TargetBar
  BY <1>1 DEF TargetBar
<1>9. QED
  BY <1>1, <1>5, <1>6, <1>7, <1>8 DEF AbstractCall!Return

(* A store of a result is the assignment of a formal to its actual. *)
LEMMA CopyBackRefines ==
  ASSUME DataInv, CopyBack
  PROVE  AbstractCall!CopyBack
<1>1. PICK i : i = call.order[pos]
  OBVIOUS
<1>2. /\ pc = "copyback" /\ pos \in 1..call.n /\ i \in Formals(call)
      /\ UNCHANGED <<call, args, inputs, results>>
  BY <1>1, CopyBackStep
<1>3. /\ PhaseBar = "copyback"
      /\ ResultBar = IF call.isFunction THEN results[1] ELSE None
      /\ FormalBar = [j \in Formals(call) |->
                       IF j \in Writable(call) THEN Output(j)
                       ELSE inputs[InputIndex(call, j)]]
  BY <1>2, MappedPhasesHold DEF MappedPhases
<1>4. TargetBar' = TargetBar /\ (i \in Writable(call) => TargetBar[i] = args[i])
  BY <1>2 DEF TargetBar
<1>5. ASSUME pc' = pc
      PROVE  PhaseBar' = PhaseBar /\ ResultBar' = ResultBar
             /\ FormalBar' = FormalBar
  BY <1>2, <1>3, <1>5, MappedPhasesHold DEF MappedPhases, Output
<1>6. CASE /\ i \notin Writable(call)
           /\ pos' = pos + 1 /\ pc' = pc /\ store' = store
  <2>1. AbstractCall!Pass(i)
    BY <1>2, <1>4, <1>5, <1>6
       DEF AbstractCall!Pass, AbstractCall!Writable, Writable,
           AbstractCall!Formals, Formals
  <2>2. QED
    BY <1>1, <1>2, <1>3, <2>1
       DEF AbstractCall!CopyBack, AbstractCall!Formals
<1>7. CASE /\ i \in Writable(call) /\ Output(i) \in Subtype[args[i]]
           /\ store' = [store EXCEPT ![args[i]] = Output(i)]
           /\ pos' = pos + 1 /\ pc' = pc
  <2>1. FormalBar[i] = Output(i)
    BY <1>2, <1>3, <1>7
  <2>2. AbstractCall!Assign(i)
    BY <1>2, <1>4, <1>5, <1>7, <2>1
       DEF AbstractCall!Assign, AbstractCall!Writable, Writable,
           AbstractCall!Formals, Formals
  <2>3. QED
    BY <1>1, <1>2, <1>3, <2>2
       DEF AbstractCall!CopyBack, AbstractCall!Formals
<1>8. CASE /\ i \in Writable(call) /\ Output(i) \notin Subtype[args[i]]
           /\ pos' = pos /\ pc' = "partial" /\ store' = store
  <2>1. FormalBar[i] = Output(i)
    BY <1>2, <1>3, <1>8
  <2>2. /\ PhaseBar' = "raised" /\ FormalBar' = NoFormals(call')
        /\ ResultBar' = None
    BY <1>8, MappedPhasesHold DEF MappedPhases
  <2>3. AbstractCall!Raise
    BY <1>2, <1>4, <1>8, <2>2
       DEF AbstractCall!Raise, NoFormals, AbstractCall!NoFormals, Formals,
           AbstractCall!Formals
  <2>4. AbstractCall!Assign(i)
    BY <1>4, <1>8, <2>1, <2>3
       DEF AbstractCall!Assign, AbstractCall!Writable, Writable,
           AbstractCall!Formals, Formals
  <2>5. QED
    BY <1>1, <1>2, <1>3, <2>4
       DEF AbstractCall!CopyBack, AbstractCall!Formals
<1>9. QED
  BY <1>1, <1>6, <1>7, <1>8, CopyBackStep

(* The end of the copy-back ends the call. *)
LEMMA FinishRefines ==
  ASSUME DataInv, Finish
  PROVE  AbstractCall!Finish
<1>1. pc = "copyback" /\ pc' = "done" /\ pos = call.n + 1
      /\ UNCHANGED <<call, pos, store, args, results>>
  BY DEF Finish, Stop
<1>2. /\ PhaseBar = "copyback" /\ PhaseBar' = "done"
      /\ ResultBar' = ResultBar /\ FormalBar' = NoFormals(call')
  BY <1>1, MappedPhasesHold DEF MappedPhases
<1>3. TargetBar' = TargetBar
  BY <1>1 DEF TargetBar
<1>4. QED
  BY <1>1, <1>2, <1>3
     DEF AbstractCall!Finish, NoFormals, AbstractCall!NoFormals, Formals,
         AbstractCall!Formals

(* At the call every association has been evaluated.                       *)
CallComplete == pc = "call" => pos = call.n + 1

(* The lowered value ABI implements the by-copy call: the same evaluation, *)
(* the same visible assignments in the same order, the same raises.        *)
THEOREM CallRefinement == Spec => ImplementsAdaCall
<1>1. Init => AbstractCall!Init
  <2> SUFFICES ASSUME Init PROVE AbstractCall!Init
    OBVIOUS
  <2>1. PhaseBar = "evaluate" /\ ResultBar = None
        /\ FormalBar = NoFormals(call) /\ TargetBar = NoFormals(call)
    BY MappedPhasesHold DEF Init, MappedPhases, TargetBar, NoFormals
  <2>2. QED
    BY <2>1 DEF Init, AbstractCall!Init, NoFormals, AbstractCall!NoFormals,
                Formals, AbstractCall!Formals
<1>2. Init => CallComplete
  BY DEF Init, CallComplete
<1>3. CallComplete /\ [Next]_vars => CallComplete'
  BY DEF CallComplete, Next, vars, Evaluate, EvaluateIn, EvaluateWritable, Call,
         Enter, AssignFormal, AssignUpLevel, BodyRaises, Return, CopyBack, Pass,
         CopyOut, Finish, Stop
<1>4. DataInv /\ CallComplete /\ [Next]_vars
        => [AbstractCall!Next]_(AbstractCall!vars)
  <2> SUFFICES ASSUME DataInv, CallComplete, [Next]_vars
               PROVE  [AbstractCall!Next]_(AbstractCall!vars)
    OBVIOUS
  <2>1. CASE UNCHANGED vars
    BY <2>1 DEF vars, AbstractCall!vars, PhaseBar, TargetBar, FormalBar,
                ResultBar, Output
  <2>2. CASE Evaluate
    <3>1. AbstractCall!Evaluate
      BY <2>2, EvaluateRefines
    <3>2. QED
      BY <3>1 DEF AbstractCall!Next
  <2>3. CASE Enter
    <3>1. AbstractCall!Enter
      BY <2>3, EnterRefines DEF CallComplete, Enter
    <3>2. QED
      BY <3>1 DEF AbstractCall!Next
  <2>4. CASE AssignFormal \/ AssignUpLevel \/ BodyRaises
    BY <2>4, BodyRefines DEF AbstractCall!Next
  <2>5. CASE Return
    BY <2>5, ReturnRefines DEF AbstractCall!Next
  <2>6. CASE CopyBack
    BY <2>6, CopyBackRefines DEF AbstractCall!Next
  <2>7. CASE Finish
    BY <2>7, FinishRefines DEF AbstractCall!Next
  <2>8. CASE Call
    BY <2>8, CallRefines
  <2>9. QED
    BY <2>1, <2>2, <2>3, <2>4, <2>5, <2>6, <2>7, <2>8 DEF Next
<1>5. QED
  BY <1>1, <1>2, <1>3, <1>4, DataInvInit, DataInvStep, PTL
     DEF Spec, ImplementsAdaCall, AbstractCall!Spec
=============================================================================
