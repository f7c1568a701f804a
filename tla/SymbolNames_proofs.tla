-------------------------- MODULE SymbolNames_proofs --------------------------
(***************************************************************************)
(* Proofs about SymbolNames, for every compilation unit: symbols are       *)
(* distinct at every stage, renaming one subprogram after the other never  *)
(* mixes up two of them, and the ABI names are those of the declarations.  *)
(***************************************************************************)
EXTENDS SymbolNames, Words_proofs

Sources == [name : Name, n : Nat, form : {"source"}]
SourcePaths == Seq(Sources)

(* What declareSymbol gives a declaration: a path of source segments, one  *)
(* exactly at library level, that ends in the declaration's own name.      *)
Dialect(d, s) ==
  /\ s = Symbol(".", s.path)
  /\ s.path \in SourcePaths
  /\ s.path # <<>>
  /\ s.path[Len(s.path)].name = unit.simple[d]
  /\ Len(s.path) = 1 <=> unit.scope[d] = 0

Named(d) == pc = "declare" => d < at

(* The subprograms that have their ABI name.                               *)
Turned(d) == d \in Subps /\ (pc = "done" \/ (pc = "rename" /\ d < at))

TypeInv ==
  /\ unit \in Units
  /\ pc \in {"declare", "lift", "collect", "rename", "done"}
  /\ at \in 1..(unit.n + 1)
  /\ IsFiniteSet(used)
  /\ DOMAIN symbol = Decls
  /\ DOMAIN target = unit.calls
  /\ inputs \in [Decls -> Nat]

DialectInv == \A d \in Decls : Named(d) /\ ~Turned(d) => Dialect(d, symbol[d])

UniqueInv ==
  \A d, e \in Decls :
    /\ Named(d) /\ ~Turned(d) /\ Named(e) /\ ~Turned(e)
    /\ symbol[d] = symbol[e]
    => d = e

UsedInv == pc = "declare" => \A d \in Decls : d < at => symbol[d] \in used

InputsInv ==
  /\ pc \in {"declare", "lift"} => inputs = unit.formals
  /\ pc = "lift" => \A d \in Subps : declared[d] = MangledName(d)
  /\ pc = "collect" =>
       \A d \in Subps : declared[d] = MangledName(d) \/ SignWithCaptures(d)

CallsInv == pc # "declare" => \A c \in unit.calls : target[c] = symbol[c[2]]

MangledInv ==
  pc \in {"rename", "done"} =>
    /\ \A d \in Subps :
         /\ mangled[d].join \in {"_ada_", "__"}
         /\ Turned(d) => symbol[d] = mangled[d]
         /\ declared[d] = mangled[d] \/ SignWithCaptures(d)
    /\ \A d, e \in Subps : mangled[d] = mangled[e] => d = e

ScopesInv ==
  pc \in {"rename", "done"} =>
    \A d \in Types :
      scopeRef[d] = IF ScopesOf(d) = {} THEN NoSymbol
                    ELSE mangled[EnclosingSubp(d)]

IInv ==
  /\ TypeInv /\ DialectInv /\ UniqueInv /\ UsedInv /\ InputsInv /\ CallsInv
  /\ MangledInv /\ ScopesInv

-----------------------------------------------------------------------------
(* Scopes *)

(* The subprogram around a type is one of the unit's.                      *)
LEMMA EnclosingIsSubp ==
  ASSUME unit.n \in Nat, NEW d \in Types, ScopesOf(d) # {}
  PROVE  EnclosingSubp(d) \in Subps
<1>1. ScopesOf(d) \subseteq Subps /\ Subps \subseteq 0..unit.n
  BY DEF ScopesOf, Subps, Decls
<1>2. \E s \in ScopesOf(d) : \A t \in ScopesOf(d) : t <= s
  BY <1>1, Greatest
<1>3. EnclosingSubp(d) \in ScopesOf(d)
  BY <1>2 DEF EnclosingSubp
<1>4. QED
  BY <1>1, <1>3

-----------------------------------------------------------------------------
(* Making names *)

LEMMA SymbolFields ==
  \A join, path :
    /\ Symbol(join, path).path = path
    /\ Symbol(join, path).join = IF Len(path) > 1 THEN join ELSE ""
BY DEF Symbol

(* makeUnique: among as many suffixes as there are symbols in use, and one *)
(* more, one is free.                                                      *)
LEMMA MakeUniqueFresh ==
  ASSUME IsFiniteSet(used), NEW scope, scope.path \in SourcePaths,
         NEW simple \in Name
  PROVE  /\ MakeUnique(scope, simple) \notin used
         /\ \E k \in Nat : MakeUnique(scope, simple) =
                             Symbol(".", Append(scope.path, Segment(simple, k)))
<1> DEFINE N == Cardinality(used)
           numbers == {0} \cup 2..(N + 2)
           candidate(k) == Symbol(".", Append(scope.path, Segment(simple, k)))
           free == {k \in numbers : candidate(k) \notin used}
<1>1. N \in Nat
  BY FS_CardinalityType
<1>2. numbers \subseteq Nat
  BY <1>1
<1>3. \A k \in Nat : Append(scope.path, Segment(simple, k)) \in SourcePaths
  <2>1. \A k \in Nat : Segment(simple, k) \in Sources
    BY DEF Segment, Sources
  <2>2. QED
    BY <2>1 DEF SourcePaths
<1>4. ASSUME NEW j \in Nat, NEW k \in Nat, candidate(j) = candidate(k)
      PROVE  j = k
  <2> DEFINE p(i) == Append(scope.path, Segment(simple, i))
  <2>1. p(j) = p(k)
    BY <1>4 DEF Symbol
  <2>2. Len(scope.path) \in Nat
    BY DEF SourcePaths
  <2>3. \A i \in Nat : p(i)[Len(scope.path) + 1] = Segment(simple, i)
    BY DEF SourcePaths
  <2>4. Segment(simple, j) = Segment(simple, k)
    BY <2>1, <2>3
  <2>5. QED
    BY <2>4 DEF Segment
<1>5. free # {}
  <2> SUFFICES ASSUME free = {} PROVE FALSE
    OBVIOUS
  <2> DEFINE S == 2..(N + 2)
  <2>1. PICK f \in [S -> used] : \A k \in S : f[k] = candidate(k)
    <3>1. [k \in S |-> candidate(k)] \in [S -> used]
      OBVIOUS
    <3>2. QED
      BY <3>1
  <2>2. IsFiniteSet(S) /\ Cardinality(S) = N + 1
    BY <1>1, FS_Interval
  <2>3. Cardinality(used) < Cardinality(S)
    BY <1>1, <2>2
  <2>4. \E j, k \in S : j # k /\ f[j] = f[k]
    <3> HIDE DEF S
    <3>1. IsFiniteSet(S)
      BY <2>2
    <3>2. QED
      BY <2>3, <3>1, FS_PigeonHole
  <2>5. QED
    BY <1>1, <1>4, <2>1, <2>4
<1>6. PICK k \in free : \A j \in free : k <= j
  BY <1>2, <1>5, LeastNat
<1> DEFINE first == CHOOSE i \in numbers :
                      /\ candidate(i) \notin used
                      /\ \A j \in numbers : candidate(j) \notin used => i <= j
<1>7. first \in numbers /\ candidate(first) \notin used
  BY <1>6
<1>8. MakeUnique(scope, simple) = candidate(first)
  BY DEF MakeUnique
<1>9. QED
  BY <1>2, <1>7, <1>8

(* A new symbol is that of a declaration in its scope.                     *)
LEMMA DeclaredIsDialect ==
  ASSUME TypeInv, DialectInv, pc = "declare", at \in Decls
  PROVE  /\ Dialect(at, MakeUnique(ScopeSymbol(at), unit.simple[at]))
         /\ MakeUnique(ScopeSymbol(at), unit.simple[at]) \notin used
<1> DEFINE p == ScopeSymbol(at).path
           x == unit.simple[at]
           new == MakeUnique(ScopeSymbol(at), x)
<1>1. WellFormed(unit)
  BY UnitsAssumption DEF TypeInv
<1>2. /\ unit.n \in Nat /\ x \in Name /\ unit.scope[at] \in 0..unit.n
      /\ unit.scope[at] < at
  BY <1>1 DEF WellFormed, Decls
<1>3. p \in SourcePaths /\ (Len(p) = 0 <=> unit.scope[at] = 0) /\ Len(p) \in Nat
  <2>1. CASE unit.scope[at] = 0
    BY <2>1 DEF ScopeSymbol, NoSymbol, Symbol, SourcePaths
  <2>2. CASE unit.scope[at] # 0
    <3>1. unit.scope[at] \in Decls /\ Named(unit.scope[at])
      BY <1>2, <2>2 DEF Decls, Named
    <3>2. Dialect(unit.scope[at], symbol[unit.scope[at]])
      BY <3>1 DEF DialectInv, Turned
    <3>3. QED
      BY <2>2, <3>2 DEF Dialect, ScopeSymbol, SourcePaths
  <2>3. QED
    BY <2>1, <2>2
<1>4. /\ new \notin used
      /\ \E k \in Nat : new = Symbol(".", Append(p, Segment(x, k)))
  BY <1>2, <1>3, MakeUniqueFresh DEF TypeInv
<1>5. PICK k \in Nat : new = Symbol(".", Append(p, Segment(x, k)))
  BY <1>4
<1>6. new.path = Append(p, Segment(x, k))
  BY <1>5, SymbolFields
<1>7. Segment(x, k) \in Sources /\ Segment(x, k).name = x
  BY <1>2 DEF Segment, Sources
<1>8. /\ new.path \in SourcePaths /\ Len(new.path) = Len(p) + 1
      /\ new.path[Len(p) + 1] = Segment(x, k)
  BY <1>3, <1>6, <1>7 DEF SourcePaths
<1>9. new = Symbol(".", new.path)
  BY <1>5, <1>6
<1>10. new.path # <<>> /\ (Len(new.path) = 1 <=> unit.scope[at] = 0)
  BY <1>3, <1>8
<1>11. new.path[Len(new.path)].name = x
  BY <1>7, <1>8
<1>12. QED
  BY <1>4, <1>8, <1>9, <1>10, <1>11 DEF Dialect

(* A mangled name keeps the names and suffixes of the segments, and its    *)
(* joint shows it is one.                                                  *)
LEMMA Mangling ==
  ASSUME NEW d \in Decls, Dialect(d, symbol[d])
  PROVE  /\ MangledName(d).join \in {"_ada_", "__"}
         /\ Len(MangledName(d).path) = Len(symbol[d].path)
         /\ \A k \in 1..Len(symbol[d].path) :
              /\ MangledName(d).path[k].name = symbol[d].path[k].name
              /\ MangledName(d).path[k].n = symbol[d].path[k].n
<1> DEFINE segs == symbol[d].path
           arity(k) == IF k = Len(segs) THEN inputs[d] ELSE 2
           gnat == [k \in 1..Len(segs) |-> GnatSegment(segs[k], arity(k))]
<1>1. segs \in SourcePaths /\ Len(segs) \in Nat /\ Len(segs) # 0
  BY DEF Dialect, SourcePaths
<1>2. MangledName(d) = IF Public(d) /\ Len(segs) = 1
                         THEN [join |-> "_ada_", path |-> gnat]
                         ELSE Symbol("__", gnat)
  BY DEF MangledName
<1>3. Len(gnat) = Len(segs)
  BY <1>1
<1>4. MangledName(d).path = gnat
  <2>1. CASE Public(d) /\ Len(segs) = 1
    BY <1>2, <2>1
  <2>2. CASE ~(Public(d) /\ Len(segs) = 1)
    BY <1>2, <2>2, SymbolFields
  <2>3. QED
    BY <2>1, <2>2
<1>5. MangledName(d).join \in {"_ada_", "__"}
  <2>1. CASE Public(d)
    <3>1. Len(segs) = 1
      BY <2>1 DEF Dialect, Public
    <3>2. QED
      BY <1>2, <2>1, <3>1
  <2>2. CASE ~Public(d)
    <3>1. Len(segs) # 1
      BY <2>2 DEF Dialect, Public
    <3>2. Len(gnat) > 1
      <4>1. Len(segs) > 1
        <5>1. \A m \in Nat : m # 0 /\ m # 1 => m > 1
          OBVIOUS
        <5>2. QED
          BY <1>1, <3>1, <5>1, Zenon
      <4>2. QED
        BY <1>3, <4>1
    <3>3. MangledName(d) = Symbol("__", gnat)
      BY <1>2, <2>2
    <3>4. QED
      BY <3>2, <3>3, SymbolFields
  <2>3. QED
    BY <2>1, <2>2
<1>6. ASSUME NEW k \in 1..Len(segs)
      PROVE  gnat[k].name = segs[k].name /\ gnat[k].n = segs[k].n
  <2>1. segs[k] \in Sources
    BY <1>1 DEF SourcePaths
  <2>2. gnat[k] = GnatSegment(segs[k], arity(k))
    OBVIOUS
  <2>3. QED
    BY <2>1, <2>2 DEF GnatSegment, Sources
<1>7. QED
  BY <1>3, <1>4, <1>5, <1>6

LEMMA ManglingInjective ==
  ASSUME NEW d \in Decls, NEW e \in Decls,
         Dialect(d, symbol[d]), Dialect(e, symbol[e]),
         MangledName(d) = MangledName(e)
  PROVE  symbol[d] = symbol[e]
<1> DEFINE p == symbol[d].path
           q == symbol[e].path
<1>1. p \in SourcePaths /\ q \in SourcePaths
  BY DEF Dialect
<1>2. Len(p) = Len(q) /\ Len(p) \in Nat
  BY <1>1, Mangling DEF SourcePaths
<1>3. ASSUME NEW k \in 1..Len(p)
      PROVE  p[k] = q[k]
  <2>1. p[k] \in Sources /\ q[k] \in Sources
    BY <1>1, <1>2 DEF SourcePaths
  <2>2. p[k].name = q[k].name /\ p[k].n = q[k].n
    BY <1>2, Mangling
  <2>3. QED
    BY <2>1, <2>2 DEF Sources
<1>4. p = q
  <2>1. p = [k \in 1..Len(p) |-> p[k]] /\ q = [k \in 1..Len(q) |-> q[k]]
    BY <1>1 DEF SourcePaths
  <2>2. QED
    BY <1>2, <1>3, <2>1
<1>5. QED
  BY <1>4 DEF Dialect

-----------------------------------------------------------------------------
(* The invariant holds and is preserved *)

LEMMA UnitFacts ==
  ASSUME TypeInv
  PROVE  /\ WellFormed(unit) /\ unit.n \in Nat /\ at \in Nat
         /\ \A d \in Decls : d \in Nat /\ 1 <= d /\ d <= unit.n
         /\ \A c \in unit.calls : c[2] \in Subps
         /\ Subps \subseteq Decls /\ Types \subseteq Decls
<1>1. WellFormed(unit)
  BY UnitsAssumption DEF TypeInv
<1>2. unit.n \in Nat
  BY <1>1 DEF WellFormed
<1>3. \A c \in unit.calls : c[2] \in Subps
  BY <1>1 DEF WellFormed, Subps, Decls
<1>4. QED
  BY <1>1, <1>2, <1>3 DEF TypeInv, Decls, Subps, Types

LEMMA UnitKept ==
  ASSUME unit' = unit
  PROVE  /\ Decls' = Decls /\ Subps' = Subps /\ Types' = Types
         /\ \A d, s : Dialect(d, s)' = Dialect(d, s)
         /\ \A d : SignWithCaptures(d)' = SignWithCaptures(d)
         /\ \A d : ScopesOf(d)' = ScopesOf(d) /\ EnclosingSubp(d)' = EnclosingSubp(d)
<1>1. Decls' = Decls /\ Subps' = Subps /\ Types' = Types
  BY DEF Decls, Subps, Types
<1>2. \A d, s : Dialect(d, s)' = Dialect(d, s)
  BY DEF Dialect
<1>3. \A d : SignWithCaptures(d)' = SignWithCaptures(d)
  BY DEF SignWithCaptures
<1>4. \A d : ScopesOf(d)' = ScopesOf(d)
  BY <1>1 DEF ScopesOf
<1>5. \A d : EnclosingSubp(d)' = EnclosingSubp(d)
  BY <1>4 DEF EnclosingSubp
<1>6. QED
  BY <1>1, <1>2, <1>3, <1>4, <1>5

LEMMA InitInv == Init => IInv
<1> SUFFICES ASSUME Init PROVE IInv
  OBVIOUS
<1>1. /\ unit \in Units /\ pc = "declare" /\ at = 1 /\ used = {}
      /\ symbol = [d \in Decls |-> NoSymbol] /\ inputs = unit.formals
      /\ target = [c \in unit.calls |-> NoSymbol]
  BY DEF Init
<1>2. WellFormed(unit)
  BY <1>1, UnitsAssumption
<1>3. unit.n \in Nat /\ unit.formals \in [Decls -> Nat]
  BY <1>2 DEF WellFormed, Decls
<1>4. TypeInv
  BY <1>1, <1>3, FS_EmptySet DEF TypeInv
<1>5. \A d \in Decls : ~(d < at)
  BY <1>1, <1>3 DEF Decls
<1>6. DialectInv /\ UniqueInv /\ UsedInv
  BY <1>1, <1>5 DEF DialectInv, UniqueInv, UsedInv, Named
<1>7. InputsInv /\ CallsInv /\ MangledInv /\ ScopesInv
  BY <1>1 DEF InputsInv, CallsInv, MangledInv, ScopesInv
<1>8. QED
  BY <1>4, <1>6, <1>7 DEF IInv

LEMMA DeclareInv == IInv /\ Declare => IInv'
<1> SUFFICES ASSUME IInv, Declare PROVE IInv'
  OBVIOUS
<1> DEFINE new == MakeUnique(ScopeSymbol(at), unit.simple[at])
<1>1. /\ pc = "declare" /\ at \in Decls /\ at' = at + 1 /\ pc' = "declare"
      /\ used' = used \cup {new} /\ symbol' = [symbol EXCEPT ![at] = new]
      /\ UNCHANGED <<unit, inputs, mangled, scopeRef, target, declared>>
  BY DEF Declare
<1>2. /\ TypeInv /\ DialectInv /\ UniqueInv /\ UsedInv /\ InputsInv
  BY DEF IInv
<1>3. Dialect(at, new) /\ new \notin used
  BY <1>1, <1>2, DeclaredIsDialect
<1>4. /\ unit.n \in Nat /\ at \in Nat
      /\ \A d \in Decls : d \in Nat /\ 1 <= d /\ d <= unit.n
  BY <1>2, UnitFacts
<1>5. Decls' = Decls /\ \A d, s : Dialect(d, s)' = Dialect(d, s)
  BY <1>1, UnitKept
<1>6. \A d \in Decls : symbol'[d] = IF d = at THEN new ELSE symbol[d]
  BY <1>1, <1>2 DEF TypeInv
<1>7. \A d \in Decls : /\ ~Turned(d) /\ ~Turned(d)'
                       /\ Named(d) <=> d < at
                       /\ Named(d)' <=> d < at \/ d = at
  BY <1>1, <1>4 DEF Named, Turned
<1>8. TypeInv'
  <2>1. IsFiniteSet(used')
    BY <1>1, <1>2, FS_AddElement DEF TypeInv
  <2>2. at' \in 1..(unit.n + 1)
    BY <1>1, <1>4
  <2>3. DOMAIN symbol' = Decls
    BY <1>1, <1>2 DEF TypeInv
  <2>4. QED
    BY <1>1, <1>2, <1>5, <2>1, <2>2, <2>3 DEF TypeInv
<1>9. DialectInv'
  <2>1. ASSUME NEW d \in Decls, Named(d)'
        PROVE  Dialect(d, symbol'[d])
    BY <1>2, <1>3, <1>6, <1>7, <2>1 DEF DialectInv
  <2>2. ASSUME NEW d \in Decls, Named(d)'
        PROVE  Dialect(d, symbol[d])'
    <3>1. \A s : Dialect(d, s)' <=> Dialect(d, s)
      BY <1>5
    <3>2. QED
      BY <1>1, <2>1, <2>2 DEF Dialect
  <2>3. QED
    BY <1>5, <2>2 DEF DialectInv
<1>10. \A d \in Decls : d < at => symbol[d] \in used /\ symbol[d] # new
  BY <1>1, <1>2, <1>3 DEF UsedInv
<1>11. UniqueInv'
  <2>1. ASSUME NEW d \in Decls, NEW e \in Decls, Named(d)', Named(e)',
               symbol'[d] = symbol'[e]
        PROVE  d = e
    BY <1>2, <1>6, <1>7, <1>10, <2>1 DEF UniqueInv
  <2>2. QED
    BY <1>5, <2>1 DEF UniqueInv
<1>12. UsedInv'
  <2>1. ASSUME NEW d \in Decls, d < at + 1
        PROVE  symbol'[d] \in used \cup {new}
    BY <1>4, <1>6, <1>10, <2>1
  <2>2. QED
    BY <1>1, <1>5, <2>1 DEF UsedInv
<1>13. InputsInv' /\ CallsInv' /\ MangledInv' /\ ScopesInv'
  BY <1>1, <1>2 DEF InputsInv, CallsInv, MangledInv, ScopesInv
<1>14. QED
  BY <1>8, <1>9, <1>11, <1>12, <1>13 DEF IInv

(* Between the stages every declaration has its dialect symbol still.      *)
LEMMA NothingTurned ==
  ASSUME IInv, UNCHANGED <<unit, symbol>>,
         pc = "declare" => at = unit.n + 1,
         pc \in {"declare", "lift", "collect"},
         pc' \in {"lift", "collect"} \/ (pc' = "rename" /\ at' = 1)
  PROVE  /\ DialectInv' /\ UniqueInv' /\ UsedInv'
         /\ \A d \in Decls : Dialect(d, symbol[d]) /\ ~Turned(d)'
         /\ \A d, e \in Decls : symbol[d] = symbol[e] => d = e
<1>1. TypeInv /\ DialectInv /\ UniqueInv
  BY DEF IInv
<1>2. /\ unit.n \in Nat /\ at \in Nat
      /\ \A d \in Decls : d \in Nat /\ 1 <= d /\ d <= unit.n
  BY <1>1, UnitFacts
<1>3. \A d \in Decls : Named(d) /\ ~Turned(d) /\ ~Turned(d)'
  BY <1>2 DEF Named, Turned
<1>4. Decls' = Decls
  BY UnitKept
<1>5. \A d \in Decls : Dialect(d, symbol[d])
  BY <1>1, <1>3 DEF DialectInv
<1>6. \A d, e \in Decls : symbol[d] = symbol[e] => d = e
  BY <1>1, <1>3 DEF UniqueInv
<1>7. DialectInv'
  <2>1. ASSUME NEW d \in Decls
        PROVE  Dialect(d, symbol[d])'
    BY <1>5 DEF Dialect
  <2>2. QED
    BY <1>4, <2>1 DEF DialectInv
<1>8. UniqueInv'
  BY <1>4, <1>6 DEF UniqueInv
<1>9. UsedInv'
  BY DEF UsedInv
<1>10. QED
  BY <1>3, <1>5, <1>6, <1>7, <1>8, <1>9

LEMMA EndOfUnitInv == IInv /\ EndOfUnit => IInv'
<1> SUFFICES ASSUME IInv, EndOfUnit PROVE IInv'
  OBVIOUS
<1>1. /\ pc = "declare" /\ at = unit.n + 1 /\ pc' = "lift"
      /\ target' = [c \in unit.calls |-> symbol[c[2]]]
      /\ declared' = [d \in Subps |-> MangledName(d)]
      /\ UNCHANGED <<unit, at, used, symbol, inputs, mangled, scopeRef>>
  BY DEF EndOfUnit
<1>2. TypeInv /\ InputsInv
  BY DEF IInv
<1>3. Decls' = Decls /\ Subps' = Subps
  BY <1>1, UnitKept
<1>4. DialectInv' /\ UniqueInv' /\ UsedInv'
  BY <1>1, NothingTurned
<1>5. TypeInv'
  BY <1>1, <1>2, <1>3 DEF TypeInv
<1>6. InputsInv'
  <2>1. \A d : MangledName(d)' = MangledName(d)
    BY <1>1 DEF MangledName, Public
  <2>2. QED
    BY <1>1, <1>2, <1>3, <2>1 DEF InputsInv
<1>7. CallsInv'
  BY <1>1 DEF CallsInv
<1>8. MangledInv' /\ ScopesInv'
  BY <1>1 DEF MangledInv, ScopesInv
<1>9. QED
  BY <1>4, <1>5, <1>6, <1>7, <1>8 DEF IInv

(* More inputs change the ABI name of a unary sign operator, and no other. *)
LEMMA LiftedName ==
  ASSUME TypeInv, UNCHANGED <<unit, symbol>>, inputs = unit.formals,
         inputs' = [e \in Decls |-> inputs[e] + unit.lifted[e]],
         NEW d \in Decls, Dialect(d, symbol[d]), ~SignWithCaptures(d)
  PROVE  MangledName(d)' = MangledName(d)
<1> DEFINE segs == symbol[d].path
           arity(k, x) == IF k = Len(segs) THEN x ELSE 2
           gnat(x) == [k \in 1..Len(segs) |-> GnatSegment(segs[k], arity(k, x))]
           name(g) == IF Public(d) /\ Len(segs) = 1
                        THEN [join |-> "_ada_", path |-> g] ELSE Symbol("__", g)
<1>1. WellFormed(unit)
  BY UnitFacts
<1>2. /\ unit.formals[d] \in Nat /\ unit.lifted[d] \in Nat
      /\ unit.simple[d] \in Operator => unit.formals[d] \in 1..2
  BY <1>1 DEF WellFormed, Decls
<1>3. inputs[d] = unit.formals[d] /\ inputs'[d] = unit.formals[d] + unit.lifted[d]
  OBVIOUS
<1>4. MangledName(d) = name(gnat(inputs[d]))
  BY DEF MangledName
<1>5. MangledName(d)' = name(gnat(inputs'[d]))
  BY DEF MangledName, Public
<1>6. segs[Len(segs)].name = unit.simple[d]
  BY DEF Dialect
<1>7. GnatSegment(segs[Len(segs)], inputs'[d]) = GnatSegment(segs[Len(segs)], inputs[d])
  <2>1. CASE unit.simple[d] \notin Operator
    BY <1>6, <2>1 DEF GnatSegment
  <2>2. CASE unit.simple[d] \notin Signed
    BY <1>6, <2>2 DEF GnatSegment
  <2>3. CASE unit.simple[d] \in Signed /\ unit.simple[d] \in Operator
    <3>1. inputs'[d] = 1 <=> inputs[d] = 1
      BY <1>2, <1>3, <2>3 DEF SignWithCaptures
    <3>2. QED
      BY <3>1 DEF GnatSegment
  <2>4. QED
    BY <2>1, <2>2, <2>3
<1>8. \A k \in 1..Len(segs) :
        GnatSegment(segs[k], arity(k, inputs'[d])) = GnatSegment(segs[k], arity(k, inputs[d]))
  BY <1>7
<1>9. gnat(inputs'[d]) = gnat(inputs[d])
  BY <1>8
<1> HIDE DEF gnat, name
<1>10. name(gnat(inputs'[d])) = name(gnat(inputs[d]))
  BY <1>9
<1>11. QED
  BY <1>4, <1>5, <1>10

LEMMA LiftInv == IInv /\ Lift => IInv'
<1> SUFFICES ASSUME IInv, Lift PROVE IInv'
  OBVIOUS
<1>1. /\ pc = "lift" /\ pc' = "collect"
      /\ inputs' = [d \in Decls |-> inputs[d] + unit.lifted[d]]
      /\ UNCHANGED <<unit, at, used, symbol, mangled, scopeRef, target, declared>>
  BY DEF Lift
<1>2. TypeInv /\ InputsInv /\ CallsInv
  BY DEF IInv
<1>3. /\ Decls' = Decls /\ Subps' = Subps
      /\ \A d : SignWithCaptures(d)' = SignWithCaptures(d)
  BY <1>1, UnitKept
<1>4. /\ DialectInv' /\ UniqueInv' /\ UsedInv'
      /\ \A d \in Decls : Dialect(d, symbol[d])
  BY <1>1, NothingTurned
<1>5. TypeInv'
  <2>1. unit.lifted \in [Decls -> Nat]
    BY <1>2, UnitFacts DEF WellFormed, Decls
  <2>2. inputs' \in [Decls -> Nat]
    BY <1>1, <1>2, <2>1 DEF TypeInv
  <2>3. QED
    BY <1>1, <1>2, <1>3, <2>2 DEF TypeInv
<1>6. InputsInv'
  <2>1. ASSUME NEW d \in Subps
        PROVE  declared[d] = MangledName(d)' \/ SignWithCaptures(d)
    <3>1. d \in Decls /\ Dialect(d, symbol[d]) /\ inputs = unit.formals
      BY <1>1, <1>2, <1>4, UnitFacts DEF InputsInv
    <3>2. ~SignWithCaptures(d) => MangledName(d)' = MangledName(d)
      BY <1>1, <1>2, <3>1, LiftedName
    <3>3. declared[d] = MangledName(d)
      BY <1>1, <1>2 DEF InputsInv
    <3>4. QED
      BY <3>2, <3>3
  <2>2. QED
    BY <1>1, <1>3, <2>1 DEF InputsInv
<1>7. CallsInv' /\ MangledInv' /\ ScopesInv'
  BY <1>1, <1>2 DEF CallsInv, MangledInv, ScopesInv
<1>8. QED
  BY <1>4, <1>5, <1>6, <1>7 DEF IInv

LEMMA CollectInv == IInv /\ Collect => IInv'
<1> SUFFICES ASSUME IInv, Collect PROVE IInv'
  OBVIOUS
<1>1. /\ pc = "collect" /\ pc' = "rename" /\ at' = 1
      /\ mangled' = [d \in Subps |-> MangledName(d)]
      /\ scopeRef' = [d \in Types |-> IF ScopesOf(d) = {} THEN NoSymbol
                                       ELSE MangledName(EnclosingSubp(d))]
      /\ UNCHANGED <<unit, used, symbol, inputs, target, declared>>
  BY DEF Collect
<1>2. TypeInv /\ InputsInv /\ CallsInv
  BY DEF IInv
<1>3. /\ Decls' = Decls /\ Subps' = Subps /\ Types' = Types
      /\ \A d : SignWithCaptures(d)' = SignWithCaptures(d)
      /\ \A d : ScopesOf(d)' = ScopesOf(d) /\ EnclosingSubp(d)' = EnclosingSubp(d)
  BY <1>1, UnitKept
<1>4. /\ DialectInv' /\ UniqueInv' /\ UsedInv'
      /\ \A d \in Decls : Dialect(d, symbol[d]) /\ ~Turned(d)'
      /\ \A d, e \in Decls : symbol[d] = symbol[e] => d = e
  BY <1>1, NothingTurned
<1>5. unit.n \in Nat /\ Subps \subseteq Decls
  BY <1>2, UnitFacts
<1>6. TypeInv'
  BY <1>1, <1>2, <1>3, <1>5 DEF TypeInv
<1>7. MangledInv'
  <2>1. ASSUME NEW d \in Subps
        PROVE  /\ mangled'[d].join \in {"_ada_", "__"} /\ ~Turned(d)'
               /\ declared[d] = mangled'[d] \/ SignWithCaptures(d)
    <3>1. mangled'[d] = MangledName(d)
      BY <1>1
    <3>2. QED
      BY <1>1, <1>2, <1>4, <1>5, <3>1, Mangling DEF InputsInv
  <2>2. ASSUME NEW d \in Subps, NEW e \in Subps, mangled'[d] = mangled'[e]
        PROVE  d = e
    <3>1. MangledName(d) = MangledName(e)
      BY <1>1, <2>2
    <3>2. QED
      BY <1>4, <1>5, <3>1, ManglingInjective
  <2>3. QED
    BY <1>1, <1>3, <2>1, <2>2 DEF MangledInv
<1>8. ScopesInv'
  <2>1. ASSUME NEW d \in Types
        PROVE  scopeRef'[d] = IF ScopesOf(d) = {} THEN NoSymbol
                              ELSE mangled'[EnclosingSubp(d)]
    <3>1. ScopesOf(d) # {} => EnclosingSubp(d) \in Subps
      BY <1>5, EnclosingIsSubp
    <3>2. QED
      BY <1>1, <3>1
  <2>2. QED
    BY <1>3, <2>1 DEF ScopesInv
<1>9. InputsInv' /\ CallsInv'
  BY <1>1, <1>2 DEF InputsInv, CallsInv
<1>10. QED
  BY <1>4, <1>6, <1>7, <1>8, <1>9 DEF IInv

(* A symbol still to be changed and an ABI name differ in their joints.    *)
LEMMA Distinct ==
  ASSUME IInv, pc # "declare",
         NEW d \in Subps \cup Types, NEW e \in Subps \cup Types,
         symbol[d] = symbol[e]
  PROVE  d = e
<1>1. DialectInv /\ UniqueInv /\ MangledInv /\ d \in Decls /\ e \in Decls
  BY DEF IInv, Subps, Types
<1>2. \A s : \A b : Dialect(b, s) => s.join \in {"", "."}
  <2>1. ASSUME NEW s, s = Symbol(".", s.path)
        PROVE  s.join \in {"", "."}
    <3>1. Symbol(".", s.path).join \in {"", "."}
      BY SymbolFields
    <3>2. QED
      BY <2>1, <3>1
  <2>2. QED
    BY <2>1 DEF Dialect
<1>3. Named(d) /\ Named(e)
  BY DEF Named
<1>4. \A b \in {d, e} :
        IF Turned(b) THEN b \in Subps /\ symbol[b] = mangled[b]
                            /\ symbol[b].join \in {"_ada_", "__"}
                     ELSE symbol[b].join \in {"", "."}
  BY <1>1, <1>2, <1>3 DEF DialectInv, MangledInv, Turned
<1>5. Turned(d) <=> Turned(e)
  BY <1>4
<1>6. CASE Turned(d)
  <2>1. pc \in {"rename", "done"}
    BY <1>6 DEF Turned
  <2>2. QED
    BY <1>1, <1>4, <1>5, <1>6, <2>1 DEF MangledInv
<1>7. CASE ~Turned(d)
  BY <1>1, <1>3, <1>5, <1>7 DEF UniqueInv
<1>8. QED
  BY <1>6, <1>7

LEMMA RenameInv == IInv /\ Rename => IInv'
<1> SUFFICES ASSUME IInv, Rename PROVE IInv'
  OBVIOUS
<1>1. /\ pc = "rename" /\ pc' = "rename" /\ at \in Subps /\ at' = at + 1
      /\ target' = Renamed(symbol[at], mangled[at])
      /\ symbol' = [symbol EXCEPT ![at] = mangled[at]]
      /\ UNCHANGED <<unit, used, inputs, mangled, scopeRef, declared>>
  BY DEF Rename
<1>2. /\ TypeInv /\ DialectInv /\ UniqueInv /\ CallsInv /\ MangledInv /\ ScopesInv
  BY DEF IInv
<1>3. /\ Decls' = Decls /\ Subps' = Subps /\ Types' = Types
      /\ \A d : SignWithCaptures(d)' = SignWithCaptures(d)
      /\ \A d : ScopesOf(d)' = ScopesOf(d) /\ EnclosingSubp(d)' = EnclosingSubp(d)
  BY <1>1, UnitKept
<1>4. /\ unit.n \in Nat /\ at \in Nat /\ Subps \subseteq Decls
      /\ \A d \in Decls : d \in Nat /\ 1 <= d /\ d <= unit.n
      /\ \A c \in unit.calls : c[2] \in Subps
  BY <1>2, UnitFacts
<1>5. \A d \in Decls : symbol'[d] = IF d = at THEN mangled[at] ELSE symbol[d]
  BY <1>1, <1>2 DEF TypeInv
<1>6. \A d \in Decls : /\ Turned(d)' <=> Turned(d) \/ d = at
                       /\ Named(d) /\ Named(d)'
  BY <1>1, <1>3, <1>4 DEF Turned, Named
<1>7. TypeInv'
  <2>1. at' \in 1..(unit.n + 1)
    BY <1>1, <1>4
  <2>2. DOMAIN symbol' = Decls /\ DOMAIN target' = unit.calls
    BY <1>1, <1>2 DEF TypeInv, Renamed
  <2>3. QED
    BY <1>1, <1>2, <1>3, <2>1, <2>2 DEF TypeInv
<1>8. DialectInv'
  <2>1. ASSUME NEW d \in Decls, ~Turned(d)'
        PROVE  Dialect(d, symbol[d])'
    <3>1. symbol'[d] = symbol[d] /\ Dialect(d, symbol[d])
      BY <1>2, <1>5, <1>6, <2>1 DEF DialectInv
    <3>2. QED
      BY <1>1, <3>1 DEF Dialect
  <2>2. QED
    BY <1>3, <2>1 DEF DialectInv
<1>9. UniqueInv'
  <2>1. ASSUME NEW d \in Decls, NEW e \in Decls, ~Turned(d)', ~Turned(e)',
               symbol'[d] = symbol'[e]
        PROVE  d = e
    BY <1>2, <1>5, <1>6, <2>1 DEF UniqueInv
  <2>2. QED
    BY <1>3, <2>1 DEF UniqueInv
<1>10. MangledInv'
  <2>1. ASSUME NEW d \in Subps
        PROVE  /\ mangled[d].join \in {"_ada_", "__"}
               /\ Turned(d)' => symbol'[d] = mangled[d]
               /\ declared[d] = mangled[d] \/ SignWithCaptures(d)
    BY <1>1, <1>2, <1>4, <1>5, <1>6 DEF MangledInv
  <2>2. \A d, e \in Subps : mangled[d] = mangled[e] => d = e
    BY <1>1, <1>2 DEF MangledInv
  <2>3. QED
    BY <1>1, <1>3, <2>1, <2>2 DEF MangledInv
<1>11. CallsInv'
  <2>1. ASSUME NEW c \in unit.calls
        PROVE  target'[c] = symbol'[c[2]]
    <3>1. target[c] = symbol[c[2]] /\ c[2] \in Subps /\ c[2] \in Decls
      BY <1>1, <1>2, <1>4 DEF CallsInv
    <3>2. target'[c] = IF target[c] = symbol[at] THEN mangled[at] ELSE target[c]
      BY <1>1 DEF Renamed
    <3>3. target[c] = symbol[at] <=> c[2] = at
      BY <1>1, <3>1, Distinct
    <3>4. QED
      BY <1>5, <3>1, <3>2, <3>3
  <2>2. QED
    BY <1>1, <2>1 DEF CallsInv
<1>12. ScopesInv'
  BY <1>1, <1>2, <1>3 DEF ScopesInv
<1>13. UsedInv' /\ InputsInv'
  BY <1>1 DEF UsedInv, InputsInv
<1>14. QED
  BY <1>7, <1>8, <1>9, <1>10, <1>11, <1>12, <1>13 DEF IInv

(* When no symbol changes and no turn comes, nothing said of them does.    *)
LEMMA SameSymbols ==
  ASSUME IInv, TypeInv',
         UNCHANGED <<unit, used, symbol, inputs, mangled, scopeRef, target, declared>>,
         \A d \in Decls : Turned(d)' = Turned(d),
         UNCHANGED <<pc, at>> \/ (pc = "rename" /\ pc' \in {"rename", "done"})
  PROVE  IInv'
<1>1. /\ DialectInv /\ UniqueInv /\ UsedInv /\ InputsInv /\ CallsInv
      /\ MangledInv /\ ScopesInv
  BY DEF IInv
<1>2. /\ Decls' = Decls /\ Subps' = Subps /\ Types' = Types
      /\ \A d, s : Dialect(d, s)' = Dialect(d, s)
      /\ \A d : SignWithCaptures(d)' = SignWithCaptures(d)
      /\ \A d : ScopesOf(d)' = ScopesOf(d) /\ EnclosingSubp(d)' = EnclosingSubp(d)
  BY UnitKept
<1>3. \A d \in Decls : Named(d)' <=> Named(d)
  BY DEF Named
<1>4. DialectInv'
  <2>1. ASSUME NEW d \in Decls, Named(d)', ~Turned(d)'
        PROVE  Dialect(d, symbol[d])'
    <3>1. Dialect(d, symbol[d])
      BY <1>1, <1>3, <2>1 DEF DialectInv
    <3>2. QED
      BY <3>1 DEF Dialect
  <2>2. QED
    BY <1>2, <2>1 DEF DialectInv
<1>5. UniqueInv'
  BY <1>1, <1>2, <1>3 DEF UniqueInv
<1>6. UsedInv'
  BY <1>1, <1>2 DEF UsedInv
<1>7. InputsInv'
  <2>1. \A d : MangledName(d)' = MangledName(d)
    BY DEF MangledName, Public
  <2>2. QED
    BY <1>1, <1>2, <2>1 DEF InputsInv
<1>8. CallsInv'
  BY <1>1 DEF CallsInv
<1>9. MangledInv'
  <2>1. pc' \in {"rename", "done"} => pc \in {"rename", "done"}
    OBVIOUS
  <2>2. Subps \subseteq Decls
    BY DEF Subps
  <2>3. QED
    BY <1>1, <1>2, <2>1, <2>2 DEF MangledInv
<1>10. ScopesInv'
  BY <1>1, <1>2 DEF ScopesInv
<1>11. QED
  BY <1>4, <1>5, <1>6, <1>7, <1>8, <1>9, <1>10 DEF IInv

LEMMA KeepInv == IInv /\ Keep => IInv'
<1> SUFFICES ASSUME IInv, Keep PROVE IInv'
  OBVIOUS
<1>1. /\ pc = "rename" /\ at \in Decls \ Subps /\ at' = at + 1 /\ pc' = pc
      /\ UNCHANGED <<unit, used, symbol, inputs, mangled, scopeRef, target, declared>>
  BY DEF Keep
<1>2. TypeInv
  BY DEF IInv
<1>3. /\ unit.n \in Nat /\ at \in Nat
      /\ \A d \in Decls : d \in Nat /\ 1 <= d /\ d <= unit.n
  BY <1>2, UnitFacts
<1>4. Decls' = Decls /\ Subps' = Subps
  BY <1>1, UnitKept
<1>5. TypeInv'
  <2>1. at' \in 1..(unit.n + 1)
    BY <1>1, <1>3
  <2>2. QED
    BY <1>1, <1>2, <1>4, <2>1 DEF TypeInv
<1>6. \A d \in Decls : Turned(d)' = Turned(d)
  BY <1>1, <1>3, <1>4 DEF Turned
<1>7. QED
  BY <1>1, <1>5, <1>6, SameSymbols

LEMMA FinishInv == IInv /\ Finish => IInv'
<1> SUFFICES ASSUME IInv, Finish PROVE IInv'
  OBVIOUS
<1>1. /\ pc = "rename" /\ at = unit.n + 1 /\ pc' = "done"
      /\ UNCHANGED <<unit, at, used, symbol, inputs, mangled, scopeRef, target, declared>>
  BY DEF Finish
<1>2. TypeInv
  BY DEF IInv
<1>3. /\ unit.n \in Nat
      /\ \A d \in Decls : d \in Nat /\ 1 <= d /\ d <= unit.n
  BY <1>2, UnitFacts
<1>4. Decls' = Decls /\ Subps' = Subps
  BY <1>1, UnitKept
<1>5. TypeInv'
  BY <1>1, <1>2, <1>4 DEF TypeInv
<1>6. \A d \in Decls : Turned(d)' = Turned(d)
  BY <1>1, <1>3, <1>4 DEF Turned
<1>7. QED
  BY <1>1, <1>5, <1>6, SameSymbols

(* The inductive invariant holds from the first declaration to the last    *)
(* rename.                                                                 *)
THEOREM IInvariant == Spec => []IInv
<1>1. IInv /\ [Next]_vars => IInv'
  <2> SUFFICES ASSUME IInv, [Next]_vars PROVE IInv'
    OBVIOUS
  <2>1. CASE UNCHANGED vars
    <3>1. UNCHANGED <<unit, pc, at, used, symbol, inputs, mangled, scopeRef,
                      target, declared>>
      BY <2>1 DEF vars
    <3>2. Decls' = Decls /\ Subps' = Subps
      BY <3>1, UnitKept
    <3>3. TypeInv'
      BY <3>1, <3>2 DEF IInv, TypeInv
    <3>4. \A d \in Decls : Turned(d)' = Turned(d)
      BY <3>1, <3>2 DEF Turned
    <3>5. /\ UNCHANGED <<pc, at>>
          /\ UNCHANGED <<unit, used, symbol, inputs, mangled, scopeRef, target, declared>>
      BY <3>1
    <3>6. QED
      BY <3>3, <3>4, <3>5, SameSymbols
  <2>2. QED
    BY <2>1, DeclareInv, EndOfUnitInv, LiftInv, CollectInv, RenameInv, KeepInv,
       FinishInv DEF Next
<1>2. QED
  BY <1>1, InitInv, PTL DEF Spec

-----------------------------------------------------------------------------
(* What naming guarantees *)

(* Whatever the unit, no two subprograms or types of the module ever share *)
(* a symbol, not even while some are renamed and others are not yet.       *)
THEOREM SymbolsUnique == Spec => []SymbolsDistinct
<1>1. IInv => SymbolsDistinct
  BY Distinct DEF SymbolsDistinct
<1>2. QED
  BY <1>1, IInvariant, PTL

(* Whatever the unit, through every rename each call names the subprogram  *)
(* it resolved to, and no other one.                                       *)
THEOREM CallsKept == Spec => []CallsFollow
<1>1. ASSUME IInv, pc \in {"lift", "collect", "rename", "done"},
             NEW c \in unit.calls, NEW d \in Subps
      PROVE  target[c] = symbol[d] <=> d = c[2]
  <2>1. target[c] = symbol[c[2]]
    BY <1>1 DEF IInv, CallsInv
  <2>2. c[2] \in Subps
    BY <1>1, UnitFacts DEF IInv
  <2>3. QED
    BY <1>1, <2>1, <2>2, Distinct
<1>2. IInv => CallsFollow
  BY <1>1 DEF CallsFollow
<1>3. QED
  BY <1>2, IInvariant, PTL

(* At the end every subprogram has the name collected for it.              *)
LEMMA AllTurned ==
  ASSUME IInv, pc = "done", NEW d \in Subps
  PROVE  /\ symbol[d] = mangled[d]
         /\ declared[d] = mangled[d] \/ SignWithCaptures(d)
<1>1. Turned(d)
  BY DEF Turned
<1>2. QED
  BY <1>1 DEF IInv, MangledInv

(* Whatever the unit, a type moved out of a subprogram names as its scope  *)
(* the symbol that subprogram has in the end.                              *)
THEOREM ScopesCorrect == Spec => []TypeScopesResolve
<1>1. ASSUME IInv, pc = "done", NEW d \in Types
      PROVE  scopeRef[d] = IF ScopesOf(d) = {} THEN NoSymbol
                           ELSE symbol[EnclosingSubp(d)]
  <2>1. unit.n \in Nat
    BY <1>1, UnitFacts DEF IInv
  <2>2. ScopesOf(d) # {} => EnclosingSubp(d) \in Subps
    BY <1>1, <2>1, EnclosingIsSubp
  <2>3. scopeRef[d] = IF ScopesOf(d) = {} THEN NoSymbol
                      ELSE mangled[EnclosingSubp(d)]
    BY <1>1 DEF IInv, ScopesInv
  <2>4. QED
    BY <1>1, <2>2, <2>3, AllTurned
<1>2. IInv => TypeScopesResolve
  BY <1>1 DEF TypeScopesResolve
<1>3. QED
  BY <1>2, IInvariant, PTL

(* Whatever the unit, the ABI name a subprogram ends with is the one a     *)
(* client that sees its declaration computes, except for a unary sign      *)
(* operator that gets lifted parameters.                                   *)
THEOREM NamesKept == Spec => []NamesStable
<1>1. IInv => NamesStable
  BY AllTurned DEF NamesStable
<1>2. QED
  BY <1>1, IInvariant, PTL
=============================================================================
