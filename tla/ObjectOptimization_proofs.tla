---------------------- MODULE ObjectOptimization_proofs ----------------------
(***************************************************************************)
(* Proofs about what becomes of objects, for every list of operations the  *)
(* emitter makes and every sequence of rewritings: lists stay valid, show  *)
(* what they showed, and give no value a type it does not satisfy.         *)
(***************************************************************************)
EXTENDS ObjectOptimization, Words_proofs

NewIds == Ids \ Machine
Vals == Ids \cup {NoValue}
OpNames == {"object", "read", "write", "check", "call", "constant", "requalify",
            "join", "alloca", "load", "store"}
Records ==
  [op : OpNames, id : NewIds, blk : 1..3, ref : Refs \cup {None}, refs : SUBSET Refs,
   val : Vals, alt : Vals, type : {"nominal", "base"}]

(* An operation has the operands its kind asks for.                        *)
Shaped(o) ==
  /\ o \in Records
  /\ o.op \in {"write", "store", "check", "constant", "requalify", "join"} => o.val # NoValue
  /\ o.op \in {"read", "load", "call", "alloca"} => o.val = NoValue
  /\ o.op = "join" <=> o.alt # NoValue
  /\ o.op = "join" => o.blk = 3 /\ o.type = "base"
  /\ o.op \in {"read", "write", "load", "store"} => o.ref \in Refs
  /\ o.op \in {"object", "alloca"} => o.ref = "x" /\ o.blk = 1
  /\ o.op = "object" => o.id = Fresh /\ o.val \in Nominal \cup {NoValue}
  /\ o.op = "constant" => o.val \in Machine /\ o.type = "base"
  /\ o.op = "check" => o.type = "nominal"
Listed(L) == L \in Seq(Records) /\ \A i \in 1..Len(L) : Shaped(L[i])

Environments == [junk : Machine, alias : BOOLEAN, cond : BOOLEAN]
Traces == Seq(UNION {[S -> Ids] : S \in SUBSET Refs})
States ==
  [mem : [Refs -> Ids], val : [Ids -> Ids], done : SUBSET Ids, trace : Traces,
   raised : BOOLEAN]

-----------------------------------------------------------------------------
(* Names and values *)

LEMMA Numbers ==
  /\ MaxMachine \in Nat /\ MaxOps \in Nat /\ MaxSpread \in Nat
  /\ Fresh \in Nat /\ JoinId \in Nat /\ NoValue \in Nat
  /\ Machine \subseteq Ids /\ NoValue \notin Ids /\ Nominal \subseteq Machine
  /\ Unset \in Machine /\ Unset \notin Nominal /\ 0 \in Machine /\ NoValue \notin Machine
  /\ \A v \in NewIds : v \in Nat /\ v >= Fresh
  /\ \A v \in Fresh..(Fresh + MaxOps) :
       v \in NewIds /\ v # JoinId /\ LoweredId(v) \in NewIds /\ LoweredId(v) # JoinId
  /\ \A v, w \in Fresh..(Fresh + MaxOps) : LoweredId(v) # w /\ (LoweredId(v) = LoweredId(w) => v = w)
  /\ JoinId \in NewIds
BY ValuesAssumption DEF Machine, Ids, Fresh, JoinId, NoValue, LoweredId, NewIds

(* The subtype has two values: a call can leave another one.               *)
LEMMA Another ==
  ASSUME NEW v
  PROVE  (CHOOSE n \in Nominal \ {v} : TRUE) \in Nominal
<1>1. IsFiniteSet(Nominal) /\ Cardinality(Nominal) > 1
  <2>1. IsFiniteSet(Machine)
    BY ValuesAssumption, FS_Interval DEF Machine
  <2>2. QED
    BY <2>1, ValuesAssumption, FS_Subset
<1>2. Nominal \ {v} # {}
  <2>1. SUFFICES ASSUME Nominal \subseteq {v} PROVE FALSE
    OBVIOUS
  <2>2. IsFiniteSet({v}) /\ Cardinality({v}) = 1
    BY FS_Singleton
  <2>3. Cardinality(Nominal) <= Cardinality({v}) /\ Cardinality(Nominal) \in Nat
    BY <1>1, <2>1, <2>2, FS_Subset, FS_CardinalityType
  <2>4. QED
    BY <1>1, <2>2, <2>3
<1>3. \E n \in Nominal \ {v} : TRUE
  BY <1>2
<1>4. QED
  BY <1>3

LEMMA Cells ==
  ASSUME NEW env \in Environments, NEW r \in Refs
  PROVE  /\ Cell(env, r) \in Refs
         /\ (Cell(env, r) = "x") <=> (r = "x")
         /\ r \in Shared => Cell(env, r) \in Shared
BY DEF Environments, Refs, Cell, Shared

-----------------------------------------------------------------------------
(* One step of an execution *)

Active(env, o) == o.blk = 2 => env.cond
Runs(env, s, o) == ~s.raised /\ Active(env, o)
Seen(env, o) == {Cell(env, r) : r \in o.refs \cup Shared}

(* The result of an operation, when it has one, and what it stores where.  *)
Operand(env, o) == IF o.op = "join" /\ ~env.cond THEN o.alt ELSE o.val
Results(env, s, o) ==
  /\ Runs(env, s, o) /\ o.op \in Kinded
  /\ o.op = "check" => s.val[o.val] \in Nominal
ResultOf(env, s, o) ==
  IF o.op \in {"read", "load"} THEN s.mem[Cell(env, o.ref)] ELSE s.val[Operand(env, o)]
Stores(env, s, o, c) ==
  /\ Runs(env, s, o)
  /\ \/ o.op \in {"object", "alloca"} /\ o.val # NoValue /\ c = "x"
     \/ o.op \in {"write", "store"} /\ c = Cell(env, o.ref)
     \/ o.op = "call" /\ c \in Seen(env, o)
Stored(s, o, c) ==
  IF o.op = "call" THEN CHOOSE n \in Nominal \ {s.mem[c]} : TRUE ELSE s.val[o.val]

Effect(env, s, o, t) ==
  /\ t \in States
  /\ ~Runs(env, s, o) => t = s
  /\ t.raised = (s.raised \/ (Runs(env, s, o) /\ o.op = "check"
                                /\ s.val[o.val] \notin Nominal))
  /\ t.trace = IF Runs(env, s, o) /\ o.op = "call"
                 THEN Append(s.trace, [c \in Seen(env, o) |-> s.mem[c]]) ELSE s.trace
  /\ \A c \in Refs : t.mem[c] = IF Stores(env, s, o, c) THEN Stored(s, o, c) ELSE s.mem[c]
  /\ t.done = IF Results(env, s, o) THEN s.done \cup {o.id} ELSE s.done
  /\ \A v \in Ids : t.val[v] = IF Results(env, s, o) /\ v = o.id
                                 THEN ResultOf(env, s, o) ELSE s.val[v]

LEMMA GiveIs ==
  ASSUME NEW s \in States, NEW o, o.id \in Ids, NEW v \in Ids
  PROVE  LET t == Give(s, o, v) IN
         /\ t \in States
         /\ t.raised = s.raised /\ t.trace = s.trace /\ t.mem = s.mem
         /\ t.done = s.done \cup {o.id} /\ t.val = [s.val EXCEPT ![o.id] = v]
BY DEF Give, States

LEMMA Executes ==
  ASSUME NEW env \in Environments, NEW s \in States, NEW o, Shaped(o)
  PROVE  Effect(env, s, o, Execute(env, s, o))
<1> DEFINE t == Execute(env, s, o)
           r == Runs(env, s, o)
           ref == Cell(env, o.ref)
<1>1. /\ o.op \in OpNames /\ o.id \in Ids /\ o.blk \in 1..3
      /\ o.op \in {"write", "store", "check", "constant", "requalify", "join"} => o.val \in Ids
      /\ o.op = "join" => o.alt \in Ids
      /\ o.op \in {"object", "alloca"} /\ o.val # NoValue => o.val \in Ids
      /\ o.op \in {"read", "write", "load", "store"} => o.ref \in Refs /\ ref \in Refs
      /\ o.refs \in SUBSET Refs
  BY Cells DEF Shaped, Records, NewIds, Vals
<1>2. /\ s.mem \in [Refs -> Ids] /\ s.val \in [Ids -> Ids] /\ s.done \in SUBSET Ids
      /\ s.trace \in Traces /\ s.raised \in BOOLEAN /\ "x" \in Refs
  BY DEF States, Refs
<1>3. r <=> ~(s.raised \/ (o.blk = 2 /\ ~env.cond))
  BY <1>2 DEF Runs, Active, Environments
<1>4. CASE ~r
  <2>1. t = s
    BY <1>3, <1>4 DEF Execute
  <2>2. (\A c \in Refs : ~Stores(env, s, o, c)) /\ ~Results(env, s, o)
    BY <1>4 DEF Stores, Results
  <2>3. QED
    BY <1>2, <1>4, <2>1, <2>2 DEF Effect
<1>5. CASE r /\ o.op \in {"object", "alloca"}
  <2>1. t = IF o.val = NoValue THEN s ELSE [s EXCEPT !.mem["x"] = s.val[o.val]]
    BY <1>3, <1>5 DEF Execute
  <2>2. /\ t \in States /\ t.raised = s.raised /\ t.trace = s.trace /\ t.done = s.done
        /\ t.val = s.val
        /\ t.mem = IF o.val = NoValue THEN s.mem ELSE [s.mem EXCEPT !["x"] = s.val[o.val]]
    BY <1>1, <1>2, <1>5, <2>1 DEF States
  <2>3. QED
    BY <1>2, <1>5, <2>2 DEF Stores, Stored, Results, Kinded, Effect
<1>6. CASE r /\ o.op \in {"write", "store"}
  <2>1. t = [s EXCEPT !.mem[ref] = s.val[o.val]]
    BY <1>3, <1>6 DEF Execute
  <2>2. /\ t \in States /\ t.raised = s.raised /\ t.trace = s.trace /\ t.done = s.done
        /\ t.val = s.val /\ t.mem = [s.mem EXCEPT ![ref] = s.val[o.val]]
    BY <1>1, <1>2, <1>6, <2>1 DEF States
  <2>3. QED
    BY <1>1, <1>2, <1>6, <2>2 DEF Stores, Stored, Results, Kinded, Effect
<1>7. CASE r /\ o.op \in Kinded \ {"check"}
  <2> DEFINE v == ResultOf(env, s, o)
  <2>1. v \in Ids
    BY <1>1, <1>2, <1>7 DEF ResultOf, Operand, Kinded
  <2>2. t = Give(s, o, v)
    BY <1>3, <1>7 DEF Execute, ResultOf, Operand, Kinded
  <2>3. Results(env, s, o) /\ \A c \in Refs : ~Stores(env, s, o, c)
    BY <1>7 DEF Results, Stores, Kinded
  <2> HIDE DEF t, v
  <2>4. /\ t \in States /\ t.raised = s.raised /\ t.trace = s.trace /\ t.mem = s.mem
        /\ t.done = s.done \cup {o.id} /\ t.val = [s.val EXCEPT ![o.id] = v]
    BY <1>1, <2>1, <2>2, GiveIs
  <2>5. Effect(env, s, o, t)
    BY <1>1, <1>2, <1>7, <2>3, <2>4 DEF Effect, Kinded, v
  <2>6. QED
    BY <2>5 DEF t
<1>8. CASE r /\ o.op = "check"
  <2> DEFINE v == s.val[o.val]
  <2>1. ResultOf(env, s, o) = v /\ v \in Ids
    BY <1>1, <1>2, <1>8 DEF ResultOf, Operand
  <2>2. t = IF v \in Nominal THEN Give(s, o, v) ELSE [s EXCEPT !.raised = TRUE]
    BY <1>3, <1>8 DEF Execute
  <2>3. (Results(env, s, o) <=> v \in Nominal) /\ \A c \in Refs : ~Stores(env, s, o, c)
    BY <1>8 DEF Results, Stores, Kinded
  <2> HIDE DEF t
  <2>4. CASE v \in Nominal
    <3>1. /\ t \in States /\ t.raised = s.raised /\ t.trace = s.trace /\ t.mem = s.mem
          /\ t.done = s.done \cup {o.id} /\ t.val = [s.val EXCEPT ![o.id] = v]
      BY <1>1, <2>1, <2>2, <2>4, GiveIs
    <3>2. QED
      BY <1>1, <1>2, <1>8, <2>1, <2>3, <2>4, <3>1 DEF Effect, t
  <2>5. CASE v \notin Nominal
    <3>1. /\ t \in States /\ t.raised = TRUE /\ t.trace = s.trace /\ t.mem = s.mem
          /\ t.done = s.done /\ t.val = s.val
      BY <1>2, <2>2, <2>5 DEF States
    <3>2. QED
      BY <1>2, <1>8, <2>3, <2>5, <3>1 DEF Effect, t
  <2>6. QED
    BY <2>4, <2>5
<1>9. CASE r /\ o.op = "call"
  <2> DEFINE seen == Seen(env, o)
             saw == [c \in seen |-> s.mem[c]]
             left == [c \in Refs |-> IF c \in seen
                        THEN CHOOSE n \in Nominal \ {s.mem[c]} : TRUE ELSE s.mem[c]]
  <2>1. seen \subseteq Refs
    BY <1>1, Cells DEF Seen, Shared, Refs
  <2>2. t = [s EXCEPT !.trace = Append(@, saw), !.mem = left]
    BY <1>3, <1>9 DEF Execute, Called, Seen
  <2>3. saw \in UNION {[S -> Ids] : S \in SUBSET Refs}
    BY <1>2, <2>1
  <2>4. Append(s.trace, saw) \in Traces
    BY <1>2, <2>3, AppendProperties DEF Traces
  <2>5. left \in [Refs -> Ids]
    BY <1>2, Another, Numbers
  <2>6. ~Results(env, s, o) /\ \A c \in Refs : Stores(env, s, o, c) <=> c \in seen
    BY <1>9 DEF Results, Stores, Kinded
  <2>7. \A c \in Refs : left[c] = IF Stores(env, s, o, c) THEN Stored(s, o, c) ELSE s.mem[c]
    BY <1>9, <2>6 DEF Stored
  <2> HIDE DEF t, left, saw
  <2>8. /\ t \in States /\ t.raised = s.raised /\ t.mem = left /\ t.done = s.done
        /\ t.val = s.val /\ t.trace = Append(s.trace, saw)
    BY <1>2, <2>2, <2>4, <2>5 DEF States
  <2>9. Effect(env, s, o, t)
    BY <1>2, <1>9, <2>6, <2>7, <2>8 DEF Effect, saw
  <2>10. QED
    BY <2>9 DEF t
<1>10. QED
  BY <1>1, <1>4, <1>5, <1>6, <1>7, <1>8, <1>9 DEF OpNames, Kinded

-----------------------------------------------------------------------------
(* Counting up *)

LEMMA Progress ==
  ASSUME NEW m \in Nat, NEW n \in Nat, NEW T, m \in T,
         \A k \in m..(n - 1) : k \in T => k + 1 \in T
  PROVE  \A k \in m..n : k \in T
<1> SUFFICES ASSUME NEW b \in m..n, b \notin T PROVE FALSE
  OBVIOUS
<1> DEFINE bad == {k \in m..n : k \notin T}
<1>1. bad \in SUBSET Nat /\ bad # {}
  OBVIOUS
<1>2. PICK k \in bad : \A j \in bad : k <= j
  <2> HIDE DEF bad
  <2>1. QED
    BY <1>1, LeastNat
<1>3. k \in m..n /\ k \notin T /\ k # m
  BY <1>2
<1>4. k - 1 \in m..(n - 1) /\ k - 1 \notin bad /\ (k - 1) + 1 = k
  BY <1>2, <1>3
<1>5. k - 1 \in T
  BY <1>4
<1>6. QED
  BY <1>3, <1>4, <1>5

Steps(n, S, a, g) ==
  \E f \in [0..n -> S] : f[0] = a /\ \A k \in 1..n : f[k] = g[k][f[k - 1]]

(* A recursive definition over the numbers up to n has a value.            *)
LEMMA Recursion ==
  ASSUME NEW n \in Nat, NEW S, NEW a \in S, NEW g \in [1..n -> [S -> S]]
  PROVE  Steps(n, S, a, g)
<1> DEFINE Has(m) == \E f \in [0..m -> S] :
                       f[0] = a /\ \A k \in 1..m : f[k] = g[k][f[k - 1]]
           T == {m \in 0..n : Has(m)}
<1>1. 0 \in T
  <2> DEFINE h == [k \in 0..0 |-> a]
  <2>1. h \in [0..0 -> S] /\ h[0] = a /\ \A k \in 1..0 : h[k] = g[k][h[k - 1]]
    OBVIOUS
  <2>2. Has(0)
    <3> HIDE DEF h
    <3>1. QED
      BY <2>1
  <2>3. QED
    BY <2>2
<1>2. ASSUME NEW m \in 0..(n - 1), m \in T PROVE m + 1 \in T
  <2>1. PICK f \in [0..m -> S] : f[0] = a /\ \A k \in 1..m : f[k] = g[k][f[k - 1]]
    BY <1>2
  <2> DEFINE h == [k \in 0..(m + 1) |-> IF k <= m THEN f[k] ELSE g[k][f[m]]]
  <2>2. m + 1 \in 1..n /\ f[m] \in S /\ g[m + 1] \in [S -> S]
    BY <2>1
  <2>3. h \in [0..(m + 1) -> S]
    BY <2>1, <2>2
  <2>4. h[0] = a /\ \A k \in 1..(m + 1) : h[k] = g[k][h[k - 1]]
    BY <2>1, <2>2
  <2>5. Has(m + 1)
    BY <2>3, <2>4
  <2>6. QED
    BY <2>2, <2>5
<1>3. \A k \in 0..n : k \in T
  <2> HIDE DEF T
  <2>1. QED
    BY <1>1, <1>2, Progress
<1>4. QED
  BY <1>3 DEF Steps

-----------------------------------------------------------------------------
(* Executions *)

(* An execution goes through the operations one by one.                    *)
LEMMA RunIs ==
  ASSUME NEW env \in Environments, NEW L, Listed(L)
  PROVE  /\ After(L, env)[0] = Start(env)
         /\ \A n \in 1..Len(L) : After(L, env)[n] = Execute(env, After(L, env)[n - 1], L[n])
         /\ \A n \in 0..Len(L) : After(L, env)[n] \in States
<1> DEFINE N == Len(L)
           g == [n \in 1..N |-> [s \in States |-> Execute(env, s, L[n])]]
           F(s) == [n \in 0..N |-> IF n = 0 THEN Start(env) ELSE Execute(env, s[n - 1], L[n])]
           run == After(L, env)
<1>1. N \in Nat /\ \A i \in 1..N : Shaped(L[i])
  BY DEF Listed
<1>2. Start(env) \in States
  <2>1. <<>> \in Traces
    BY EmptySeq DEF Traces
  <2>2. env.junk \in Ids /\ Unset \in Ids
    BY Numbers DEF Environments
  <2>3. QED
    BY <2>1, <2>2 DEF Start, States
<1>3. g \in [1..N -> [States -> States]]
  BY <1>1, Executes DEF Effect
<1>4. PICK f \in [0..N -> States] : f[0] = Start(env) /\ \A k \in 1..N : f[k] = g[k][f[k - 1]]
  <2> HIDE DEF g, N
  <2> DEFINE a == Start(env)
  <2>1. a \in States
    BY <1>2
  <2> HIDE DEF a
  <2>2. g \in [1..N -> [States -> States]]
    BY <1>3
  <2> HIDE DEF g, N
  <2>4. \E f \in [0..N -> States] : f[0] = a /\ \A k \in 1..N : f[k] = g[k][f[k - 1]]
    <3>1. Steps(N, States, a, g)
      BY <1>1, <2>2, <2>1, Recursion
    <3>2. QED
      BY <3>1 DEF Steps
  <2>3. QED
    BY <2>4 DEF a
<1>5. f = F(f)
  <2>1. ASSUME NEW n \in 1..N PROVE f[n] = Execute(env, f[n - 1], L[n])
    <3>1. n - 1 \in 0..N /\ f[n - 1] \in States /\ f[n] = g[n][f[n - 1]]
      BY <1>1, <1>4
    <3>2. QED
      BY <3>1
  <2>2. QED
    BY <1>4, <2>1
<1>6. run = CHOOSE s : s = F(s)
  BY DEF After
<1>7. run = F(run)
  BY <1>5, <1>6
<1>8. run[0] = Start(env) /\ \A n \in 1..N : run[n] = Execute(env, run[n - 1], L[n])
  <2> HIDE DEF run
  <2>1. run[0] = Start(env)
    BY <1>1, <1>7
  <2>2. QED
    BY <1>1, <1>7, <2>1
<1> DEFINE T == {n \in 0..N : run[n] \in States}
<1>9. \A n \in 0..N : n \in T
  <2> HIDE DEF run
  <2>1. 0 \in T
    BY <1>1, <1>2, <1>8
  <2>2. ASSUME NEW n \in 0..(N - 1), n \in T PROVE n + 1 \in T
    <3>1. \A s \in States : Execute(env, s, L[n + 1]) \in States
      BY <1>1, Executes DEF Effect
    <3>2. QED
      BY <1>1, <1>8, <2>2, <3>1
  <2> HIDE DEF T
  <2>3. QED
    BY <1>1, <2>1, <2>2, Progress
<1>10. QED
  BY <1>8, <1>9

(* Lists that begin alike run alike that far.                              *)
LEMMA SamePrefix ==
  ASSUME NEW env \in Environments, NEW L, NEW M, Listed(L), Listed(M),
         NEW m \in Nat, m <= Len(L), m <= Len(M), \A k \in 1..m : M[k] = L[k]
  PROVE  \A n \in 0..m : After(M, env)[n] = After(L, env)[n]
<1> DEFINE s == After(L, env)
           t == After(M, env)
           T == {n \in 0..m : t[n] = s[n]}
<1>1. Len(L) \in Nat /\ Len(M) \in Nat
  BY DEF Listed
<1>2. s[0] = Start(env) /\ t[0] = Start(env)
  BY RunIs
<1>3. /\ \A n \in 1..Len(L) : s[n] = Execute(env, s[n - 1], L[n])
      /\ \A n \in 1..Len(M) : t[n] = Execute(env, t[n - 1], M[n])
  BY RunIs
<1> HIDE DEF s, t
<1>4. 0 \in T
  BY <1>2
<1>5. ASSUME NEW n \in 0..(m - 1), n \in T PROVE n + 1 \in T
  <2>1. /\ n + 1 \in 1..Len(L) /\ n + 1 \in 1..Len(M) /\ n + 1 \in 1..m /\ n + 1 \in 0..m
        /\ (n + 1) - 1 = n
    BY <1>1
  <2>2. t[n] = s[n] /\ M[n + 1] = L[n + 1]
    BY <1>5, <2>1
  <2>3. s[n + 1] = Execute(env, s[n], L[n + 1]) /\ t[n + 1] = Execute(env, t[n], M[n + 1])
    BY <1>3, <2>1
  <2>4. QED
    BY <2>1, <2>2, <2>3
<1>6. \A n \in 0..m : n \in T
  <2> HIDE DEF T
  <2>1. QED
    BY <1>4, <1>5, Progress
<1>7. QED
  BY <1>6 DEF s, t

LEMMA AppendRuns ==
  ASSUME NEW env \in Environments, NEW L, Listed(L), NEW o, Shaped(o)
  PROVE  /\ Listed(Append(L, o))
         /\ Executed(Append(L, o), env) = Execute(env, Executed(L, env), o)
<1> DEFINE M == Append(L, o)
           N == Len(L)
<1>1. /\ L \in Seq(Records) /\ o \in Records /\ N \in Nat
  BY DEF Listed, Shaped
<1>2. /\ M \in Seq(Records) /\ Len(M) = N + 1 /\ M[N + 1] = o /\ \A k \in 1..N : M[k] = L[k]
  BY <1>1
<1>3. Listed(M)
  BY <1>1, <1>2 DEF Listed
<1> HIDE DEF M
<1>4. After(M, env)[N] = After(L, env)[N]
  BY <1>1, <1>2, <1>3, SamePrefix
<1>5. After(M, env)[N + 1] = Execute(env, After(M, env)[N], o)
  BY <1>1, <1>2, <1>3, RunIs
<1>6. QED
  BY <1>2, <1>3, <1>4, <1>5 DEF Executed, M

-----------------------------------------------------------------------------
(* Valid lists *)

(* v is a literal, or the result of an operation of P in the blocks S, of  *)
(* one of the types T.                                                     *)
Has(P, v, S, T) ==
  \/ v \in Nominal /\ "nominal" \in T
  \/ \E p \in P : p.op \in Kinded /\ p.id = v /\ p.blk \in S /\ p.type \in T

Types == {"nominal", "base"}
Scope(o) == IF o.op = "join" THEN {1, 2} ELSE {1, o.blk}
Takes(o) ==
  IF o.op = "write" THEN {"nominal"} ELSE IF o.op \in {"store", "join"} THEN {"base"} ELSE Types

(* Only operations without a result may have the name of another.          *)
Mere == {"alloca", "store"}

(* What an operation that follows those of P must be.                      *)
Fits(P, o) ==
  /\ Shaped(o)
  /\ \A p \in P : p.blk <= o.blk /\ (p.id = o.id => p.op \in Mere /\ o.op \in Mere)
  /\ o.op \notin {"object", "constant"} /\ o.val # NoValue => Has(P, o.val, Scope(o), Takes(o))
  /\ o.op = "join" => Has(P, o.alt, {1}, {"base"})
  /\ o.op = "object" => P = {}

Upto(L, n) == {L[j] : j \in 1..n}
Valid(L) == L \in Seq(Records) /\ \A n \in 1..Len(L) : Fits(Upto(L, n - 1), L[n])

LEMMA ValidLists ==
  ASSUME NEW L, Valid(L)
  PROVE  /\ Listed(L) /\ Len(L) \in Nat
         /\ \A n \in 1..Len(L) : L[n] \in Records /\ Shaped(L[n]) /\ Fits(Upto(L, n - 1), L[n])
         /\ \A n \in 1..Len(L), j \in 1..Len(L) : j < n =>
              /\ L[j].blk <= L[n].blk
              /\ L[j].id = L[n].id => L[j].op \notin Kinded /\ L[n].op \notin Kinded
              /\ L[j].id = L[n].id => L[j].op \in Mere /\ L[n].op \in Mere
<1>1. L \in Seq(Records) /\ \A n \in 1..Len(L) : Fits(Upto(L, n - 1), L[n])
  BY DEF Valid
<1>2. \A n \in 1..Len(L) : Shaped(L[n])
  BY <1>1 DEF Fits
<1>3. \A n \in 1..Len(L), j \in 1..Len(L) : j < n => L[j] \in Upto(L, n - 1)
  BY <1>1 DEF Upto
<1>4. QED
  BY <1>1, <1>2, <1>3 DEF Listed, Fits, Mere, Kinded

LEMMA AppendValid ==
  ASSUME NEW L, Valid(L), NEW o, Fits(Upto(L, Len(L)), o)
  PROVE  Valid(Append(L, o))
<1> DEFINE M == Append(L, o)
           N == Len(L)
<1>1. L \in Seq(Records) /\ N \in Nat /\ o \in Records
  BY DEF Valid, Fits, Shaped
<1>2. /\ M \in Seq(Records) /\ Len(M) = N + 1 /\ M[N + 1] = o /\ \A k \in 1..N : M[k] = L[k]
  BY <1>1
<1> HIDE DEF M
<1>3. \A n \in 0..N : Upto(M, n) = Upto(L, n)
  BY <1>1, <1>2 DEF Upto
<1>4. ASSUME NEW n \in 1..(N + 1) PROVE Fits(Upto(M, n - 1), M[n])
  <2>1. n - 1 \in 0..N /\ Upto(M, n - 1) = Upto(L, n - 1)
    BY <1>1, <1>3
  <2>2. CASE n = N + 1
    <3>1. n - 1 = N
      BY <1>1, <2>2
    <3>2. QED
      BY <1>2, <2>1, <2>2, <3>1
  <2>3. CASE n # N + 1
    BY <1>1, <1>2, <2>1, <2>3 DEF Valid
  <2>4. QED
    BY <2>2, <2>3
<1>5. QED
  BY <1>2, <1>4 DEF Valid, M

(* What an execution has computed after n operations.                      *)
Computed(L, env, n) ==
  LET s == After(L, env)[n] IN
  /\ \A v \in Machine : s.val[v] = v
  /\ \A v \in s.done : \E j \in 1..n : L[j].id = v /\ L[j].op \in Kinded /\ Active(env, L[j])
  /\ ~s.raised => \A j \in 1..n : L[j].op \in Kinded /\ Active(env, L[j]) => L[j].id \in s.done

LEMMA Computes ==
  ASSUME NEW env \in Environments, NEW L, Valid(L)
  PROVE  \A n \in 0..Len(L) : Computed(L, env, n)
<1> DEFINE run == After(L, env)
           T == {n \in 0..Len(L) : Computed(L, env, n)}
<1>1. Listed(L) /\ Len(L) \in Nat /\ \A n \in 1..Len(L) : Shaped(L[n])
  BY ValidLists
<1>2. /\ run[0] = Start(env)
      /\ \A n \in 1..Len(L) : run[n] = Execute(env, run[n - 1], L[n])
      /\ \A n \in 0..Len(L) : run[n] \in States
  BY <1>1, RunIs
<1>3. 0 \in T
  BY <1>1, <1>2, Numbers DEF Computed, Start
<1> HIDE DEF run
<1>4. ASSUME NEW n \in 0..(Len(L) - 1), n \in T PROVE n + 1 \in T
  <2> DEFINE s == run[n]
             o == L[n + 1]
             t == run[n + 1]
  <2>1. n + 1 \in 1..Len(L) /\ (n + 1) - 1 = n /\ n \in 0..Len(L) /\ n + 1 \in 0..Len(L)
    BY <1>1
  <2>2. s \in States /\ Shaped(o) /\ t = Execute(env, s, o)
    BY <1>1, <1>2, <2>1
  <2>3. Effect(env, s, o, t)
    BY <2>2, Executes
  <2>4. o.id \in Ids \ Machine /\ s.done \in SUBSET Ids
    BY <2>2 DEF Shaped, Records, NewIds, States
  <2>5. Computed(L, env, n)
    BY <1>4
  <2> HIDE DEF s, t
  <2>6. /\ \A v \in Machine : s.val[v] = v
        /\ \A v \in s.done : \E j \in 1..n : L[j].id = v /\ L[j].op \in Kinded /\ Active(env, L[j])
        /\ ~s.raised => \A j \in 1..n : L[j].op \in Kinded /\ Active(env, L[j]) => L[j].id \in s.done
    BY <2>5 DEF Computed, s, run
  <2> HIDE DEF o
  <2>7. \A v \in Machine : t.val[v] = v
    BY <2>3, <2>4, <2>6, Numbers DEF Effect
  <2>8. \A v \in t.done : \E j \in 1..(n + 1) : L[j].id = v /\ L[j].op \in Kinded /\ Active(env, L[j])
    <3> SUFFICES ASSUME NEW v \in t.done
                 PROVE  \E j \in 1..(n + 1) : L[j].id = v /\ L[j].op \in Kinded /\ Active(env, L[j])
      OBVIOUS
    <3>1. CASE v \in s.done
      BY <2>1, <2>6, <3>1
    <3>2. CASE v \notin s.done
      <4>1. Results(env, s, o) /\ v = o.id
        BY <2>3, <3>2 DEF Effect
      <4>2. o.op \in Kinded /\ Active(env, o)
        BY <4>1 DEF Results, Runs
      <4>3. n + 1 \in 1..(n + 1)
        BY <2>1
      <4>4. QED
        BY <4>1, <4>2, <4>3 DEF o
    <3>3. QED
      BY <3>1, <3>2
  <2>9. ASSUME ~t.raised, NEW j \in 1..(n + 1), L[j].op \in Kinded, Active(env, L[j])
        PROVE  L[j].id \in t.done
    <3>1. ~s.raised
      BY <2>3, <2>9 DEF Effect
    <3>2. s.done \subseteq t.done
      BY <2>3 DEF Effect
    <3>3. CASE j \in 1..n
      BY <2>6, <2>9, <3>1, <3>2, <3>3
    <3>4. CASE j = n + 1
      <4>1. Runs(env, s, o) /\ o.op \in Kinded
        BY <2>9, <3>1, <3>4 DEF Runs, o
      <4>2. Results(env, s, o)
        BY <2>3, <2>9, <4>1 DEF Effect, Results
      <4>3. QED
        BY <2>3, <3>4, <4>2 DEF Effect, o
    <3>5. QED
      BY <2>1, <3>3, <3>4
  <2>10. Computed(L, env, n + 1)
    BY <2>7, <2>8, <2>9 DEF Computed, t, run
  <2>11. QED
    BY <2>1, <2>10
<1>5. \A n \in 0..Len(L) : n \in T
  <2> HIDE DEF T
  <2>1. QED
    BY <1>1, <1>3, <1>4, Progress
<1>6. QED
  BY <1>5

(* What was computed stays.                                                *)
LEMMA Stays ==
  ASSUME NEW env \in Environments, NEW L, Valid(L),
         NEW m \in 0..Len(L), NEW n \in m..Len(L)
  PROVE  LET s == After(L, env)[m]
             t == After(L, env)[n]
         IN  /\ s.done \subseteq t.done /\ (s.raised => t.raised)
             /\ \A v \in Machine \cup s.done : t.val[v] = s.val[v]
<1> DEFINE run == After(L, env)
           s == run[m]
           Kept(t) == /\ s.done \subseteq t.done /\ (s.raised => t.raised)
                      /\ \A v \in Machine \cup s.done : t.val[v] = s.val[v]
           T == {k \in m..Len(L) : Kept(run[k])}
<1>1. /\ Listed(L) /\ Len(L) \in Nat /\ \A k \in 1..Len(L) : Shaped(L[k])
      /\ \A k \in 1..Len(L), j \in 1..Len(L) : j < k =>
           (L[j].id = L[k].id => L[j].op \notin Kinded /\ L[k].op \notin Kinded)
  BY ValidLists
<1>2. /\ \A k \in 1..Len(L) : run[k] = Execute(env, run[k - 1], L[k])
      /\ \A k \in 0..Len(L) : run[k] \in States
  BY <1>1, RunIs
<1>3. m \in T
  BY <1>1
<1>4. \A k \in 0..Len(L) : \A v \in run[k].done : \E j \in 1..k : L[j].id = v /\ L[j].op \in Kinded
  BY Computes DEF Computed
<1> HIDE DEF run
<1>5. ASSUME NEW k \in m..(Len(L) - 1), k \in T PROVE k + 1 \in T
  <2> DEFINE a == run[k]
             b == run[k + 1]
             o == L[k + 1]
  <2>1. k \in 0..Len(L) /\ k + 1 \in 1..Len(L) /\ (k + 1) - 1 = k /\ k + 1 \in m..Len(L)
    BY <1>1
  <2>2. a \in States /\ Shaped(o) /\ b = Execute(env, a, o)
    BY <1>1, <1>2, <2>1
  <2>3. Effect(env, a, o, b)
    BY <2>2, Executes
  <2>4. o.id \in Ids \ Machine /\ s.done \in SUBSET Ids /\ Machine \subseteq Ids
    BY <1>1, <1>2, <2>2, Numbers DEF Shaped, Records, NewIds, States
  <2>5. o.op \in Kinded => o.id \notin a.done
    <3> SUFFICES ASSUME o.op \in Kinded, o.id \in a.done PROVE FALSE
      OBVIOUS
    <3>1. PICK j \in 1..k : L[j].id = o.id /\ L[j].op \in Kinded
      BY <1>4, <2>1
    <3>2. j \in 1..Len(L) /\ j < k + 1
      BY <1>1, <2>1
    <3>3. QED
      BY <1>1, <2>1, <3>1, <3>2
  <2>6. Kept(a)
    BY <1>5
  <2> HIDE DEF a, b, o, s
  <2>7. s.done \subseteq b.done /\ (s.raised => b.raised)
    BY <2>3, <2>6 DEF Effect
  <2>8. ASSUME NEW v \in Machine \cup s.done PROVE b.val[v] = s.val[v]
    <3>1. v \in Ids /\ a.val[v] = s.val[v]
      BY <2>4, <2>6, <2>8
    <3>2. b.val[v] = IF Results(env, a, o) /\ v = o.id THEN ResultOf(env, a, o) ELSE a.val[v]
      BY <2>3, <3>1 DEF Effect
    <3>3. Results(env, a, o) => v # o.id
      BY <2>4, <2>5, <2>6, <2>8 DEF Results
    <3>4. QED
      BY <3>1, <3>2, <3>3
  <2>9. Kept(b)
    BY <2>7, <2>8
  <2>10. QED
    BY <2>1, <2>9 DEF b
<1>6. \A k \in m..Len(L) : k \in T
  <2>1. m \in Nat /\ Len(L) \in Nat
    BY <1>1
  <2> HIDE DEF T
  <2>2. QED
    BY <1>3, <1>5, <2>1, Progress
<1>7. Kept(run[n])
  BY <1>6
<1>8. QED
  BY <1>7 DEF run

(* An operation that runs has its operand.                                 *)
LEMMA Available ==
  ASSUME NEW env \in Environments, NEW L, Valid(L), NEW n \in 0..Len(L),
         ~After(L, env)[n].raised,
         NEW v, NEW S, NEW T, Has(Upto(L, n), v, S, T), 2 \in S => env.cond
  PROVE  v \in Machine \cup After(L, env)[n].done
<1> DEFINE s == After(L, env)[n]
<1>1. \A j \in 1..n : L[j].op \in Kinded /\ Active(env, L[j]) => L[j].id \in s.done
  BY Computes DEF Computed
<1> HIDE DEF s
<1>2. CASE v \in Nominal
  BY <1>2, Numbers
<1>3. CASE v \notin Nominal
  <2>1. PICK j \in 1..n : L[j].op \in Kinded /\ L[j].id = v /\ L[j].blk \in S
    BY <1>3 DEF Has, Upto
  <2>2. Active(env, L[j])
    BY <2>1 DEF Active
  <2>3. QED
    BY <1>1, <2>1, <2>2 DEF s
<1>4. QED
  BY <1>2, <1>3

LEMMA Needs ==
  ASSUME NEW env \in Environments, NEW L, Valid(L), NEW n \in 1..Len(L),
         Runs(env, After(L, env)[n - 1], L[n]), Operand(env, L[n]) # NoValue
  PROVE  Operand(env, L[n]) \in Machine \cup After(L, env)[n - 1].done
<1> DEFINE s == After(L, env)[n - 1]
           o == L[n]
<1>1. Fits(Upto(L, n - 1), o) /\ Len(L) \in Nat
  BY ValidLists
<1>2. n - 1 \in 0..Len(L)
  BY <1>1
<1>3. ~s.raised /\ (o.blk = 2 => env.cond)
  BY DEF Runs, Active
<1>4. Shaped(o) /\ o.blk \in 1..3
  BY <1>1 DEF Fits, Shaped, Records
<1>5. CASE o.op \in {"object", "constant"}
  BY <1>4, <1>5, Numbers DEF Shaped, Operand
<1>6. CASE o.op = "join"
  <2>1. /\ Has(Upto(L, n - 1), o.val, {1, 2}, {"base"}) /\ Has(Upto(L, n - 1), o.alt, {1}, {"base"})
    BY <1>1, <1>4, <1>6 DEF Fits, Scope, Takes, Shaped
  <2>2. CASE env.cond
    BY <1>2, <1>3, <1>6, <2>1, <2>2, Available DEF Operand
  <2>3. CASE ~env.cond
    BY <1>2, <1>3, <1>6, <2>1, <2>3, Available DEF Operand
  <2>4. QED
    BY <2>2, <2>3
<1>7. CASE o.op \notin {"object", "constant", "join"}
  <2>1. Operand(env, o) = o.val
    BY <1>7 DEF Operand
  <2>2. Has(Upto(L, n - 1), o.val, {1, o.blk}, Takes(o))
    BY <1>1, <1>7, <2>1 DEF Fits, Scope
  <2>3. QED
    BY <1>2, <1>3, <2>1, <2>2, Available
<1>8. QED
  BY <1>5, <1>6, <1>7

-----------------------------------------------------------------------------
(* Two executions side by side *)

(* Two states show the same, hold the same in the cells C, and the second  *)
(* has under the name f[v] what the first has under v, for v in D.         *)
Agree(s, t, f, C, D) ==
  /\ t.raised = s.raised /\ t.trace = s.trace
  /\ \A c \in C : t.mem[c] = s.mem[c]
  /\ \A v \in D : t.val[f[v]] = s.val[v]

(* The operation q does what o does, with the operand that f names.        *)
Alike(o, q) == q.op = o.op /\ q.id = o.id /\ q.blk = o.blk /\ q.ref = o.ref /\ q.refs = o.refs
Given(env, o, q, f, C, D) ==
  /\ Operand(env, o) # NoValue => Operand(env, o) \in D /\ Operand(env, q) = f[Operand(env, o)]
  /\ Operand(env, o) = NoValue => Operand(env, q) = NoValue
  /\ o.op \in {"read", "load"} => Cell(env, o.ref) \in C
  /\ o.op = "call" => Seen(env, o) \subseteq C

LEMMA SameStep ==
  ASSUME NEW env \in Environments, NEW s \in States, NEW t \in States,
         NEW o, NEW q, Shaped(o), Shaped(q), Alike(o, q),
         NEW f, NEW C \in SUBSET Refs, NEW D \in SUBSET Ids, \A v \in D : f[v] \in Ids,
         Agree(s, t, f, C, D), Runs(env, s, o) => Given(env, o, q, f, C, D),
         o.op \in Kinded => f[o.id] = o.id /\ \A v \in D : v # o.id => f[v] # o.id
  PROVE  /\ Results(env, t, q) <=> Results(env, s, o)
         /\ Agree(Execute(env, s, o), Execute(env, t, q), f,
                  C \cup {c \in Refs : Stores(env, s, o, c)},
                  D \cup {v \in {o.id} : Results(env, s, o)})
<1> DEFINE a == Execute(env, s, o)
           b == Execute(env, t, q)
           run == Runs(env, s, o)
<1>1. Effect(env, s, o, a) /\ Effect(env, t, q, b)
  BY Executes
<1>2. /\ o.op \in OpNames /\ o.id \in Ids
      /\ o.op \in {"write", "store", "check", "constant", "requalify", "join"} => o.val # NoValue
      /\ o.op \in {"join"} <=> o.alt # NoValue
  BY DEF Shaped, Records, NewIds
<1>3. Runs(env, t, q) <=> run
  BY DEF Agree, Alike, Runs, Active
<1>4. Seen(env, q) = Seen(env, o) /\ Cell(env, q.ref) = Cell(env, o.ref)
  BY DEF Seen, Alike
<1> HIDE DEF a, b
<1>5. CASE ~run
  <2>1. a = s /\ b = t /\ ~Results(env, s, o) /\ ~Results(env, t, q)
    BY <1>1, <1>3, <1>5 DEF Effect, Results
  <2>2. \A c \in Refs : ~Stores(env, s, o, c)
    BY <1>5 DEF Stores
  <2>3. Agree(a, b, f, C \cup {c \in Refs : Stores(env, s, o, c)},
                  D \cup {v \in {o.id} : Results(env, s, o)})
    BY <2>1, <2>2 DEF Agree
  <2>4. QED
    BY <2>1, <2>3 DEF a, b
<1>6. CASE run
  <2> DEFINE x == Operand(env, o)
             y == Operand(env, q)
  <2>1. Given(env, o, q, f, C, D)
    BY <1>6
  <2>2. x # NoValue => y # NoValue /\ t.val[y] = s.val[x]
    BY <2>1, Numbers DEF Given, Agree
  <2>3. /\ o.op # "join" => x = o.val /\ y = q.val
    BY DEF Operand, Alike
  <2>4. o.op \in {"write", "store", "check", "constant", "requalify", "join"} => x # NoValue
    BY <1>2 DEF Operand
  <2>5. o.op # "join" => (q.val = NoValue <=> o.val = NoValue)
    BY <2>1, <2>2, <2>3 DEF Given
  <2> HIDE DEF x, y
  <2>6. Results(env, t, q) <=> Results(env, s, o)
    BY <1>3, <2>2, <2>3, <2>4 DEF Results, Alike, Kinded
  <2>7. \A c \in Refs : Stores(env, t, q, c) <=> Stores(env, s, o, c)
    BY <1>3, <1>4, <2>3, <2>5 DEF Stores, Alike
  <2>8. ASSUME NEW c \in Refs, Stores(env, s, o, c) PROVE Stored(t, q, c) = Stored(s, o, c)
    <3>1. CASE o.op = "call"
      <4>1. c \in C
        BY <2>1, <2>8, <3>1 DEF Given, Stores
      <4>2. t.mem[c] = s.mem[c]
        BY <4>1 DEF Agree
      <4>3. QED
        BY <3>1, <4>2 DEF Stored, Alike
    <3>2. CASE o.op # "call"
      <4>1. o.op # "join" /\ o.val # NoValue
        BY <1>2, <2>8, <3>2 DEF Stores
      <4>2. QED
        BY <2>2, <2>3, <3>2, <4>1 DEF Stored, Alike
    <3>3. QED
      BY <3>1, <3>2
  <2>9. Results(env, s, o) => ResultOf(env, t, q) = ResultOf(env, s, o)
    <3> SUFFICES ASSUME Results(env, s, o)
                 PROVE  ResultOf(env, t, q) = ResultOf(env, s, o)
      OBVIOUS
    <3>1. CASE o.op \in {"read", "load"}
      BY <1>4, <2>1, <3>1 DEF ResultOf, Given, Agree, Alike
    <3>2. CASE o.op \notin {"read", "load"}
      BY <2>2, <2>4, <3>2 DEF ResultOf, Alike, Results, Kinded, x, y
    <3>3. QED
      BY <3>1, <3>2
  <2>10. a.raised = b.raised
    BY <1>1, <1>3, <2>2, <2>3, <2>4 DEF Effect, Agree, Alike
  <2>11. a.trace = b.trace
    <3>1. CASE o.op = "call"
      <4>1. \A c \in Seen(env, o) : t.mem[c] = s.mem[c]
        BY <2>1, <3>1 DEF Given, Agree
      <4>2. QED
        BY <1>1, <1>3, <1>4, <3>1, <4>1 DEF Effect, Agree, Alike
    <3>2. CASE o.op # "call"
      BY <1>1, <3>2 DEF Effect, Agree, Alike
    <3>3. QED
      BY <3>1, <3>2
  <2>12. ASSUME NEW c \in C \cup {d \in Refs : Stores(env, s, o, d)} PROVE b.mem[c] = a.mem[c]
    <3>1. c \in Refs
      OBVIOUS
    <3>2. /\ a.mem[c] = IF Stores(env, s, o, c) THEN Stored(s, o, c) ELSE s.mem[c]
          /\ b.mem[c] = IF Stores(env, t, q, c) THEN Stored(t, q, c) ELSE t.mem[c]
      BY <1>1, <3>1 DEF Effect
    <3>3. ~Stores(env, s, o, c) => t.mem[c] = s.mem[c]
      BY <2>12, <3>1 DEF Agree
    <3>4. QED
      BY <2>7, <2>8, <3>1, <3>2, <3>3
  <2>13. ASSUME NEW v \in D \cup {w \in {o.id} : Results(env, s, o)} PROVE b.val[f[v]] = a.val[v]
    <3>1. /\ \A w \in Ids : a.val[w] = IF Results(env, s, o) /\ w = o.id
                                         THEN ResultOf(env, s, o) ELSE s.val[w]
          /\ \A w \in Ids : b.val[w] = IF Results(env, s, o) /\ w = o.id
                                         THEN ResultOf(env, s, o) ELSE t.val[w]
      BY <1>1, <2>6, <2>9 DEF Effect, Alike
    <3>2. Results(env, s, o) => o.op \in Kinded
      BY DEF Results
    <3>3. CASE Results(env, s, o) /\ v = o.id
      BY <1>2, <3>1, <3>2, <3>3
    <3>4. CASE ~(Results(env, s, o) /\ v = o.id)
      <4>1. v \in D /\ v \in Ids /\ f[v] \in Ids
        BY <2>13, <3>4
      <4>2. t.val[f[v]] = s.val[v]
        BY <4>1 DEF Agree
      <4>3. Results(env, s, o) => f[v] # o.id
        BY <3>2, <3>4, <4>1
      <4>4. QED
        BY <3>1, <3>4, <4>1, <4>2, <4>3
    <3>5. QED
      BY <3>3, <3>4
  <2>14. QED
    BY <2>6, <2>10, <2>11, <2>12, <2>13 DEF Agree, a, b
<1>7. QED
  BY <1>5, <1>6

-----------------------------------------------------------------------------
(* Types *)

LEMMA TypeIs ==
  ASSUME NEW L, Valid(L), NEW v, NEW S, NEW T, Has(Upto(L, Len(L)), v, S, T)
  PROVE  /\ TypeOf(L, v) \in T
         /\ Has(Upto(L, Len(L)), v, S, {TypeOf(L, v)})
         /\ v \in Nominal \cup NewIds
<1>1. /\ Len(L) \in Nat /\ \A i \in 1..Len(L) : L[i] \in Records
      /\ \A n \in 1..Len(L), j \in 1..Len(L) : j < n =>
           (L[j].id = L[n].id => L[j].op \notin Kinded /\ L[n].op \notin Kinded)
      /\ DOMAIN L = 1..Len(L)
  BY ValidLists DEF Valid
<1>2. CASE v \in Machine
  <2>1. \A j \in 1..Len(L) : L[j].id # v
    BY <1>1, <1>2, Numbers DEF Records, NewIds
  <2>2. v \in Nominal /\ "nominal" \in T
    BY <2>1 DEF Has, Upto
  <2>3. QED
    BY <1>2, <2>2 DEF TypeOf, Has
<1>3. CASE v \notin Machine
  <2>1. PICK j \in 1..Len(L) : /\ L[j].op \in Kinded /\ L[j].id = v
                               /\ L[j].blk \in S /\ L[j].type \in T
    BY <1>3, Numbers DEF Has, Upto
  <2>2. ASSUME NEW i \in DefinerOf(L, v) PROVE i = j
    <3>1. i \in 1..Len(L) /\ L[i].id = v
      BY <1>1 DEF DefinerOf
    <3>2. ~(i < j) /\ ~(j < i)
      BY <1>1, <2>1, <3>1
    <3>3. QED
      BY <1>1, <3>1, <3>2
  <2>3. DefinerOf(L, v) = {j}
    BY <1>1, <2>1, <2>2 DEF DefinerOf
  <2>4. TypeOf(L, v) = L[j].type
    BY <1>3, <2>3 DEF TypeOf
  <2>5. L[j] \in Upto(L, Len(L)) /\ v \in NewIds
    BY <1>1, <2>1 DEF Upto, Records
  <2>6. QED
    BY <2>1, <2>4, <2>5 DEF Has
<1>4. QED
  BY <1>2, <1>3

-----------------------------------------------------------------------------
(* Requalifications that change nothing *)

Accs == [list : Seq(Records), for : [Vals -> Vals]]
Renamed(old, for) == [old EXCEPT !.val = for[@], !.alt = for[@]]
Drops(acc, old, ids) ==
  LET o == Renamed(old, acc.for) IN
  o.op = "requalify" /\ o.id \in ids /\ TypeOf(acc.list, o.val) = o.type

LEMMA RenamedIs ==
  ASSUME NEW old \in Records, NEW for \in [Vals -> Vals]
  PROVE  LET o == Renamed(old, for) IN
         /\ o \in Records /\ Alike(old, o) /\ o.type = old.type
         /\ o.val = for[old.val] /\ o.alt = for[old.alt]
BY DEF Renamed, Records, Alike

LEMMA SettleIs ==
  ASSUME NEW acc \in Accs, NEW old \in Records, NEW ids
  PROVE  LET o == Renamed(old, acc.for)
             b == Settle(acc, old, ids)
         IN  /\ b \in Accs
             /\ Drops(acc, old, ids) =>
                  b.list = acc.list /\ b.for = [acc.for EXCEPT ![old.id] = acc.for[old.val]]
             /\ ~Drops(acc, old, ids) => b.list = Append(acc.list, o) /\ b.for = acc.for
<1> DEFINE o == Renamed(old, acc.for)
           b == Settle(acc, old, ids)
<1>1. /\ o \in Records /\ o.id = old.id /\ o.val = acc.for[old.val]
      /\ acc.list \in Seq(Records) /\ acc.for \in [Vals -> Vals]
  BY RenamedIs DEF Accs, Alike
<1>2. old.id \in Vals /\ o.val \in Vals /\ old.val \in Vals
  BY <1>1 DEF Records, NewIds, Vals
<1>3. b = IF Drops(acc, old, ids) THEN [acc EXCEPT !.for[o.id] = o.val]
                                  ELSE [acc EXCEPT !.list = Append(@, o)]
  BY DEF Settle, Drops, Renamed
<1> HIDE DEF o, b
<1>4. CASE Drops(acc, old, ids)
  <2>1. b = [list |-> acc.list, for |-> [acc.for EXCEPT ![o.id] = o.val]]
    BY <1>3, <1>4 DEF Accs
  <2>2. [acc.for EXCEPT ![o.id] = o.val] \in [Vals -> Vals]
    BY <1>1, <1>2
  <2>3. QED
    BY <1>1, <1>4, <2>1, <2>2 DEF Accs, o, b
<1>5. CASE ~Drops(acc, old, ids)
  <2>1. b = [list |-> Append(acc.list, o), for |-> acc.for]
    BY <1>3, <1>5 DEF Accs
  <2>2. Append(acc.list, o) \in Seq(Records)
    BY <1>1
  <2>3. QED
    BY <1>1, <1>5, <2>1, <2>2 DEF Accs, o, b
<1>6. QED
  BY <1>4, <1>5

LEMMA SettledIs ==
  ASSUME NEW L \in Seq(Records), NEW ids
  PROVE  LET acc == Settled(L, ids) IN
         /\ acc[0] = [list |-> <<>>, for |-> [v \in Vals |-> v]]
         /\ \A n \in 1..Len(L) : acc[n] = Settle(acc[n - 1], L[n], ids)
         /\ \A n \in 0..Len(L) : acc[n] \in Accs
<1> DEFINE N == Len(L)
           g == [n \in 1..N |-> [a \in Accs |-> Settle(a, L[n], ids)]]
           a0 == [list |-> <<>>, for |-> [v \in Vals |-> v]]
           F(a) == [n \in 0..N |-> IF n = 0 THEN a0 ELSE Settle(a[n - 1], L[n], ids)]
           acc == Settled(L, ids)
<1>1. N \in Nat /\ \A n \in 1..N : L[n] \in Records
  OBVIOUS
<1>2. a0 \in Accs
  <2>1. <<>> \in Seq(Records)
    BY EmptySeq
  <2>2. QED
    BY <2>1 DEF Accs
<1>3. \A n \in 1..N : \A a \in Accs : Settle(a, L[n], ids) \in Accs
  BY <1>1, SettleIs
<1>4. PICK f \in [0..N -> Accs] : f[0] = a0 /\ \A k \in 1..N : f[k] = g[k][f[k - 1]]
  <2>1. g \in [1..N -> [Accs -> Accs]]
    BY <1>3
  <2> HIDE DEF g, N, a0
  <2>2. Steps(N, Accs, a0, g)
    BY <1>1, <1>2, <2>1, Recursion
  <2>3. QED
    BY <2>2 DEF Steps
<1> HIDE DEF a0
<1>5. f = F(f)
  <2>1. ASSUME NEW n \in 1..N PROVE f[n] = Settle(f[n - 1], L[n], ids)
    <3>1. n - 1 \in 0..N /\ f[n - 1] \in Accs /\ f[n] = g[n][f[n - 1]]
      BY <1>1, <1>4
    <3>2. QED
      BY <3>1
  <2>2. QED
    BY <1>4, <2>1
<1>6. acc = CHOOSE a : a = F(a)
  BY DEF Settled, Vals, a0
<1>7. acc = F(acc)
  BY <1>5, <1>6
<1>8. acc[0] = a0 /\ \A n \in 1..N : acc[n] = Settle(acc[n - 1], L[n], ids)
  <2> HIDE DEF acc
  <2>1. acc[0] = a0
    BY <1>1, <1>7
  <2>2. QED
    BY <1>1, <1>7, <2>1
<1> DEFINE T == {n \in 0..N : acc[n] \in Accs}
<1>9. \A n \in 0..N : n \in T
  <2> HIDE DEF acc
  <2>1. 0 \in T
    BY <1>1, <1>2, <1>8
  <2>2. ASSUME NEW n \in 0..(N - 1), n \in T PROVE n + 1 \in T
    <3>1. n + 1 \in 1..N /\ (n + 1) - 1 = n /\ n + 1 \in 0..N
      BY <1>1
    <3>2. acc[n + 1] = Settle(acc[n], L[n + 1], ids)
      BY <1>8, <3>1
    <3>3. QED
      BY <1>3, <2>2, <3>1, <3>2
  <2> HIDE DEF T
  <2>3. QED
    BY <1>1, <2>1, <2>2, Progress
<1>10. QED
  BY <1>8, <1>9 DEF a0

LEMMA UptoNext ==
  ASSUME NEW L, NEW n \in Nat
  PROVE  Upto(L, n + 1) = Upto(L, n) \cup {L[n + 1]}
<1>1. 1..(n + 1) = 1..n \cup {n + 1}
  OBVIOUS
<1>2. QED
  BY <1>1 DEF Upto

LEMMA UptoAppend ==
  ASSUME NEW L \in Seq(Records), NEW o \in Records
  PROVE  LET M == Append(L, o) IN Upto(M, Len(M)) = Upto(L, Len(L)) \cup {o}
<1> DEFINE M == Append(L, o)
<1>1. /\ Len(L) \in Nat /\ Len(M) = Len(L) + 1 /\ M[Len(L) + 1] = o
      /\ \A k \in 1..Len(L) : M[k] = L[k]
  OBVIOUS
<1> HIDE DEF M
<1>2. Upto(M, Len(L)) = Upto(L, Len(L))
  BY <1>1 DEF Upto
<1>3. QED
  BY <1>1, <1>2, UptoNext DEF M

Whole(L) == Upto(L, Len(L))
Made(L, n) == {L[j].id : j \in {i \in 1..n : L[i].op \in Kinded}}

(* The list made of the first n operations of L is valid and has, under    *)
(* the names the renaming gives, what they have.                           *)
Sound(L, n, acc) ==
  /\ Valid(acc.list)
  /\ \A v \in Machine \cup {NoValue} : acc.for[v] = v
  /\ \A v \in NewIds : acc.for[v] = v \/ (v \in Made(L, n) /\ acc.for[v] \in Nominal \cup Made(L, n))
  /\ \A q \in Whole(acc.list) : \E j \in 1..n :
       Alike(L[j], q) /\ q.type = L[j].type /\ (q.op \in Kinded => acc.for[q.id] = q.id)
  /\ \A v, S, T : 1 \in S /\ Has(Upto(L, n), v, S, T) => Has(Whole(acc.list), acc.for[v], S, T)

LEMMA SettleStep ==
  ASSUME NEW L, Valid(L), NEW n \in Nat, n + 1 \in 1..Len(L), NEW acc \in Accs, NEW ids,
         Sound(L, n, acc)
  PROVE  /\ Sound(L, n + 1, Settle(acc, L[n + 1], ids))
         /\ LET old == L[n + 1] IN
            /\ Shaped(Renamed(old, acc.for))
            /\ old.op \in Kinded => acc.for[old.id] = old.id
<1> DEFINE old == L[n + 1]
           for == acc.for
           q == Renamed(old, for)
           R == Whole(acc.list)
           b == Settle(acc, old, ids)
<1>1. /\ Len(L) \in Nat /\ Shaped(old) /\ Fits(Upto(L, n), old) /\ old \in Records
      /\ \A j \in 1..n : j \in 1..Len(L) /\ L[j] \in Records
  <2>1. (n + 1) - 1 = n
    OBVIOUS
  <2>2. Len(L) \in Nat /\ \A k \in 1..Len(L) : L[k] \in Records /\ Shaped(L[k])
                                                /\ Fits(Upto(L, k - 1), L[k])
    BY ValidLists
  <2>3. QED
    BY <2>1, <2>2
<1>2. acc.list \in Seq(Records) /\ for \in [Vals -> Vals]
  BY DEF Accs
<1>3. q \in Records /\ Alike(old, q) /\ q.type = old.type /\ q.val = for[old.val] /\ q.alt = for[old.alt]
  BY <1>1, <1>2, RenamedIs
<1>4. /\ b \in Accs
      /\ Drops(acc, old, ids) => b.list = acc.list /\ b.for = [for EXCEPT ![old.id] = for[old.val]]
      /\ ~Drops(acc, old, ids) => b.list = Append(acc.list, q) /\ b.for = for
  BY <1>1, SettleIs
<1>5. /\ Valid(acc.list)
      /\ \A v \in Machine \cup {NoValue} : for[v] = v
      /\ \A v \in NewIds : for[v] = v \/ (v \in Made(L, n) /\ for[v] \in Nominal \cup Made(L, n))
      /\ \A p \in R : \E j \in 1..n :
           Alike(L[j], p) /\ p.type = L[j].type /\ (p.op \in Kinded => for[p.id] = p.id)
  BY DEF Sound
<1>6. \A v, S, T : 1 \in S /\ Has(Upto(L, n), v, S, T) => Has(R, for[v], S, T)
  BY DEF Sound
<1>7. Upto(L, n + 1) = Upto(L, n) \cup {old}
  BY UptoNext
<1>8. Made(L, n) \subseteq NewIds /\ Made(L, n) \subseteq Made(L, n + 1)
  BY <1>1 DEF Made, Records
<1>9. old.op \in Kinded => old.id \in Made(L, n + 1)
  <2>1. n + 1 \in 1..(n + 1)
    OBVIOUS
  <2>2. QED
    BY <2>1 DEF Made
<1>10. old.op \in Kinded => old.id \notin Made(L, n)
  <2>1. \A j \in 1..n : L[j] \in Upto(L, n)
    BY DEF Upto
  <2>2. QED
    BY <1>1, <2>1 DEF Made, Fits, Mere, Kinded
<1>11. old.op \in Kinded => for[old.id] = old.id
  BY <1>1, <1>5, <1>10 DEF Records
<1> HIDE DEF old, q, b, for, R
<1>12. old.val \in Vals /\ old.alt \in Vals
  BY <1>1 DEF Records
<1>13. \A v \in Vals : for[v] = NoValue <=> v = NoValue
  <2>1. \A v \in Vals : v \in Machine \cup {NoValue} \/ v \in NewIds
    BY Numbers DEF Vals, NewIds
  <2>2. NoValue \notin NewIds /\ NoValue \notin Nominal
    BY Numbers DEF NewIds
  <2>3. QED
    BY <1>5, <1>8, <2>1, <2>2
<1>14. Shaped(q)
  <2>1. old.op \in {"object", "constant"} => q.val = old.val
    BY <1>1, <1>3, <1>5, Numbers DEF Shaped
  <2>2. (q.val = NoValue <=> old.val = NoValue) /\ (q.alt = NoValue <=> old.alt = NoValue)
    BY <1>3, <1>12, <1>13
  <2>3. QED
    BY <1>1, <1>3, <2>1, <2>2 DEF Shaped, Alike
<1>15. CASE Drops(acc, old, ids)
  <2>1. old.op = "requalify" /\ TypeOf(acc.list, q.val) = old.type
    BY <1>3, <1>15 DEF Drops, Alike, q, for
  <2>2. b.list = acc.list /\ b.for = [for EXCEPT ![old.id] = q.val]
    BY <1>3, <1>4, <1>15
  <2>3. Has(Upto(L, n), old.val, {1, old.blk}, Types)
    BY <1>1, <2>1 DEF Fits, Shaped, Scope, Takes
  <2>4. Has(R, q.val, {1, old.blk}, Types)
    BY <1>3, <1>6, <2>3
  <2>5. Has(R, q.val, {1, old.blk}, {old.type}) /\ q.val \in Nominal \cup NewIds
    BY <1>5, <2>1, <2>4, TypeIs DEF R, Whole
  <2>6. old.id \in NewIds /\ old.op \in Kinded /\ old.id \in Vals
    BY <1>1, <2>1 DEF Records, Kinded, NewIds, Vals
  <2>7. \A v \in Machine \cup {NoValue} : b.for[v] = v
    BY <1>2, <1>5, <2>2, <2>6, Numbers DEF NewIds, Vals, for
  <2>8. q.val \in Nominal \cup Made(L, n)
    <3>1. CASE old.val \in Machine \cup {NoValue}
      <4>1. q.val = old.val
        BY <1>3, <1>5, <3>1
      <4>2. QED
        BY <2>5, <3>1, <4>1, Numbers DEF NewIds
    <3>2. CASE old.val \in NewIds
      <4>1. old.val \in Made(L, n)
        BY <2>3, <3>2, Numbers DEF Has, Made, Upto, NewIds
      <4>2. QED
        BY <1>3, <1>5, <3>2, <4>1
    <3>3. QED
      BY <1>12, <3>1, <3>2 DEF Vals, NewIds
  <2>9. ASSUME NEW v \in NewIds
        PROVE  b.for[v] = v \/ (v \in Made(L, n + 1) /\ b.for[v] \in Nominal \cup Made(L, n + 1))
    <3>1. CASE v = old.id
      <4>1. b.for[v] = q.val
        BY <1>2, <2>2, <2>6, <3>1 DEF for
      <4>2. QED
        BY <1>8, <1>9, <2>6, <2>8, <3>1, <4>1
    <3>2. CASE v # old.id
      <4>1. b.for[v] = for[v]
        BY <1>2, <2>2, <2>6, <3>2 DEF for, Vals, NewIds
      <4>2. QED
        BY <1>5, <1>8, <4>1
    <3>3. QED
      BY <3>1, <3>2
  <2>10. ASSUME NEW p \in Whole(b.list)
         PROVE  \E j \in 1..(n + 1) : Alike(L[j], p) /\ p.type = L[j].type
                                        /\ (p.op \in Kinded => b.for[p.id] = p.id)
    <3>1. PICK j \in 1..n : Alike(L[j], p) /\ p.type = L[j].type
                                 /\ (p.op \in Kinded => for[p.id] = p.id)
      BY <1>5, <2>2 DEF R
    <3>2. p.op \in Kinded => p.id \in Made(L, n) /\ p.id \in Vals
      BY <1>1, <3>1 DEF Made, Alike, Records, NewIds, Vals
    <3>3. p.op \in Kinded => b.for[p.id] = p.id
      BY <1>2, <1>10, <2>2, <2>6, <3>1, <3>2 DEF for
    <3>4. j \in 1..(n + 1)
      OBVIOUS
    <3>5. QED
      BY <3>1, <3>3, <3>4
  <2>11. ASSUME NEW v, NEW S, NEW T, 1 \in S, Has(Upto(L, n + 1), v, S, T)
         PROVE  Has(Whole(b.list), b.for[v], S, T)
    <3>1. v \in Nominal \cup NewIds
      <4>1. Upto(L, n + 1) \subseteq Records
        BY <1>1, <1>7 DEF Upto
      <4>2. QED
        BY <2>11, <4>1 DEF Has, Records
    <3>2. CASE v = old.id
      <4>1. b.for[v] = q.val
        BY <1>2, <2>2, <2>6, <3>2 DEF for
      <4>2. old.blk \in S /\ old.type \in T
        <5>1. v \notin Nominal
          BY <2>6, <3>2, Numbers DEF NewIds
        <5>2. PICK p \in Upto(L, n + 1) : p.op \in Kinded /\ p.id = v /\ p.blk \in S /\ p.type \in T
          BY <2>11, <5>1 DEF Has
        <5>3. p = old
          BY <1>7, <1>10, <2>6, <3>2, <5>2 DEF Made, Upto
        <5>4. QED
          BY <5>2, <5>3
      <4>3. QED
        BY <2>2, <2>5, <2>11, <4>1, <4>2 DEF Has, R
    <3>3. CASE v # old.id
      <4>1. b.for[v] = for[v]
        BY <1>2, <2>2, <2>6, <3>1, <3>3, Numbers DEF for, Vals, NewIds
      <4>2. Has(Upto(L, n), v, S, T)
        BY <1>7, <2>11, <3>3 DEF Has
      <4>3. QED
        BY <1>6, <2>2, <2>11, <4>1, <4>2 DEF R
    <3>4. QED
      BY <3>2, <3>3
  <2>12. Sound(L, n + 1, b)
    BY <1>5, <2>2, <2>7, <2>9, <2>10, <2>11 DEF Sound
  <2>13. QED
    BY <1>11, <1>14, <2>12 DEF b, old, q, for
<1>16. CASE ~Drops(acc, old, ids)
  <2>1. b.list = Append(acc.list, q) /\ b.for = for
    BY <1>4, <1>16
  <2>2. Fits(R, q)
    <3>1. ASSUME NEW p \in R
          PROVE  p.blk <= q.blk /\ (p.id = q.id => p.op \in Mere /\ q.op \in Mere)
      <4>1. PICK j \in 1..n : Alike(L[j], p)
        BY <1>5
      <4>2. L[j] \in Upto(L, n)
        BY DEF Upto
      <4>3. QED
        BY <1>1, <1>3, <4>1, <4>2 DEF Fits, Alike
    <3>2. q.op \notin {"object", "constant"} /\ q.val # NoValue => Has(R, q.val, Scope(q), Takes(q))
      <4> SUFFICES ASSUME q.op \notin {"object", "constant"}, q.val # NoValue
                   PROVE  Has(R, q.val, Scope(q), Takes(q))
        OBVIOUS
      <4>1. old.op \notin {"object", "constant"} /\ old.val # NoValue
        BY <1>3, <1>12, <1>13 DEF Alike
      <4>2. Has(Upto(L, n), old.val, Scope(old), Takes(old)) /\ 1 \in Scope(old)
        BY <1>1, <4>1 DEF Fits, Scope
      <4>3. Scope(q) = Scope(old) /\ Takes(q) = Takes(old)
        BY <1>3 DEF Scope, Takes, Alike
      <4>4. QED
        BY <1>3, <1>6, <4>2, <4>3
    <3>3. q.op = "join" => Has(R, q.alt, {1}, {"base"})
      BY <1>1, <1>3, <1>6 DEF Fits, Alike
    <3>4. q.op = "object" => R = {}
      <4> SUFFICES ASSUME q.op = "object", NEW p \in R PROVE FALSE
        OBVIOUS
      <4>1. PICK j \in 1..n : Alike(L[j], p)
        BY <1>5
      <4>2. L[j] \in Upto(L, n)
        BY DEF Upto
      <4>3. QED
        BY <1>1, <1>3, <4>2 DEF Fits, Alike
    <3>5. QED
      BY <1>14, <3>1, <3>2, <3>3, <3>4 DEF Fits
  <2>3. Valid(b.list) /\ Whole(b.list) = R \cup {q}
    BY <1>2, <1>3, <1>5, <2>1, <2>2, AppendValid, UptoAppend DEF R, Whole
  <2>4. \A v \in NewIds : for[v] = v \/ (v \in Made(L, n + 1) /\ for[v] \in Nominal \cup Made(L, n + 1))
    BY <1>5, <1>8
  <2>5. ASSUME NEW p \in R \cup {q}
        PROVE  \E j \in 1..(n + 1) : Alike(L[j], p) /\ p.type = L[j].type
                                        /\ (p.op \in Kinded => for[p.id] = p.id)
    <3>1. CASE p \in R
      <4>1. PICK j \in 1..n : Alike(L[j], p) /\ p.type = L[j].type
                                 /\ (p.op \in Kinded => for[p.id] = p.id)
        BY <1>5, <3>1
      <4>2. j \in 1..(n + 1)
        OBVIOUS
      <4>3. QED
        BY <4>1, <4>2
    <3>2. CASE p = q
      <4>1. n + 1 \in 1..(n + 1) /\ Alike(L[n + 1], q) /\ q.type = L[n + 1].type
        BY <1>3 DEF old
      <4>2. q.op \in Kinded => for[q.id] = q.id
        BY <1>3, <1>11 DEF Alike
      <4>3. QED
        BY <3>2, <4>1, <4>2
    <3>3. QED
      BY <2>5, <3>1, <3>2
  <2>6. ASSUME NEW v, NEW S, NEW T, 1 \in S, Has(Upto(L, n + 1), v, S, T)
        PROVE  Has(R \cup {q}, for[v], S, T)
    <3>1. CASE Has(Upto(L, n), v, S, T)
      <4>1. Has(R, for[v], S, T)
        BY <1>6, <2>6, <3>1
      <4>2. QED
        BY <4>1 DEF Has
    <3>2. CASE ~Has(Upto(L, n), v, S, T)
      <4>1. old.op \in Kinded /\ old.id = v /\ old.blk \in S /\ old.type \in T
        BY <1>7, <2>6, <3>2 DEF Has
      <4>2. q.op \in Kinded /\ q.id = v /\ q.blk \in S /\ q.type \in T /\ for[v] = v
        BY <1>3, <1>11, <4>1 DEF Alike
      <4>3. QED
        BY <4>2 DEF Has
    <3>3. QED
      BY <3>1, <3>2
  <2>7. Sound(L, n + 1, b)
    <3>1. \A v \in Machine \cup {NoValue} : b.for[v] = v
      BY <1>5, <2>1
    <3>2. \A v \in NewIds :
            b.for[v] = v \/ (v \in Made(L, n + 1) /\ b.for[v] \in Nominal \cup Made(L, n + 1))
      BY <2>1, <2>4
    <3>3. \A p \in Whole(b.list) : \E j \in 1..(n + 1) :
            Alike(L[j], p) /\ p.type = L[j].type /\ (p.op \in Kinded => b.for[p.id] = p.id)
      BY <2>1, <2>3, <2>5
    <3>4. \A v, S, T : 1 \in S /\ Has(Upto(L, n + 1), v, S, T)
                        => Has(Whole(b.list), b.for[v], S, T)
      BY <2>1, <2>3, <2>6
    <3>5. QED
      BY <2>3, <3>1, <3>2, <3>3, <3>4 DEF Sound
  <2>8. QED
    BY <1>11, <1>14, <2>7 DEF b, old, q, for
<1>17. QED
  BY <1>15, <1>16

(* An operation without effect on memory gives its result.                 *)
Gives(env, s, o, t) ==
  /\ t.raised = s.raised /\ t.trace = s.trace /\ \A c \in Refs : t.mem[c] = s.mem[c]
  /\ t.done = IF Runs(env, s, o) THEN s.done \cup {o.id} ELSE s.done
  /\ \A v \in Ids : t.val[v] = IF Runs(env, s, o) /\ v = o.id
                                THEN s.val[Operand(env, o)] ELSE s.val[v]

LEMMA Quiet ==
  ASSUME NEW env \in Environments, NEW s \in States, NEW o, Shaped(o), MemoryEffectFree(o)
  PROVE  Gives(env, s, o, Execute(env, s, o))
<1> DEFINE t == Execute(env, s, o)
<1>1. Effect(env, s, o, t)
  BY Executes
<1>2. \A c \in Refs : ~Stores(env, s, o, c)
  BY DEF MemoryEffectFree, Stores
<1>3. (Results(env, s, o) <=> Runs(env, s, o)) /\ ResultOf(env, s, o) = s.val[Operand(env, o)]
  BY DEF MemoryEffectFree, Results, ResultOf, Kinded
<1>4. o.op \notin {"check", "call"}
  BY DEF MemoryEffectFree
<1> HIDE DEF t
<1>5. t.raised = s.raised /\ t.trace = s.trace /\ \A c \in Refs : t.mem[c] = s.mem[c]
  <2>1. s.raised \in BOOLEAN
    BY DEF States
  <2>2. QED
    BY <1>1, <1>2, <1>4, <2>1 DEF Effect
<1>6. t.done = IF Runs(env, s, o) THEN s.done \cup {o.id} ELSE s.done
  <2>1. t.done = IF Results(env, s, o) THEN s.done \cup {o.id} ELSE s.done
    BY <1>1 DEF Effect
  <2>2. QED
    BY <1>3, <2>1
<1>7. \A v \in Ids : t.val[v] = IF Runs(env, s, o) /\ v = o.id
                                 THEN s.val[Operand(env, o)] ELSE s.val[v]
  <2>1. \A v \in Ids : t.val[v] = IF Results(env, s, o) /\ v = o.id
                                   THEN ResultOf(env, s, o) ELSE s.val[v]
    BY <1>1 DEF Effect
  <2>2. QED
    BY <1>3, <2>1
<1>8. QED
  BY <1>5, <1>6, <1>7 DEF t, Gives

(* What executing that list shows and computes.                            *)
Follows(L, env, n, acc) ==
  LET s == After(L, env)[n]
      t == Executed(acc.list, env)
  IN  Agree(s, t, acc.for, Refs, Machine \cup s.done) /\ t.done \subseteq s.done

LEMMA FollowStep ==
  ASSUME NEW env \in Environments, NEW L, Valid(L), NEW n \in Nat, n + 1 \in 1..Len(L),
         NEW acc \in Accs, NEW ids, Sound(L, n, acc), Follows(L, env, n, acc)
  PROVE  Follows(L, env, n + 1, Settle(acc, L[n + 1], ids))
<1> DEFINE o == L[n + 1]
           for == acc.for
           q == Renamed(o, for)
           b == Settle(acc, o, ids)
           s == After(L, env)[n]
           t == Executed(acc.list, env)
           s2 == After(L, env)[n + 1]
           t2 == Executed(b.list, env)
           D == Machine \cup s.done
<1>1. /\ Len(L) \in Nat /\ Listed(L) /\ Shaped(o) /\ o \in Records /\ Fits(Upto(L, n), o)
      /\ n \in 0..Len(L) /\ (n + 1) - 1 = n /\ n + 1 \in 0..Len(L)
  <2>1. (n + 1) - 1 = n
    OBVIOUS
  <2>2. /\ Len(L) \in Nat /\ Listed(L)
        /\ \A k \in 1..Len(L) : L[k] \in Records /\ Shaped(L[k]) /\ Fits(Upto(L, k - 1), L[k])
    BY ValidLists
  <2>3. QED
    BY <2>1, <2>2
<1>2. s \in States /\ s2 = Execute(env, s, o)
  BY <1>1, RunIs
<1>3. /\ acc.list \in Seq(Records) /\ for \in [Vals -> Vals] /\ Listed(acc.list)
      /\ Len(acc.list) \in Nat
  BY ValidLists DEF Sound, Accs
<1>4. t \in States
  BY <1>3, RunIs DEF Executed
<1>5. q \in Records /\ Alike(o, q) /\ q.val = for[o.val] /\ q.alt = for[o.alt]
  BY <1>1, <1>3, RenamedIs
<1>6. Shaped(q) /\ (o.op \in Kinded => for[o.id] = o.id)
  BY SettleStep
<1>7. /\ Drops(acc, o, ids) => b.list = acc.list /\ b.for = [for EXCEPT ![o.id] = for[o.val]]
      /\ ~Drops(acc, o, ids) => b.list = Append(acc.list, q) /\ b.for = for
  BY <1>1, SettleIs
<1>8. Agree(s, t, for, Refs, D) /\ t.done \subseteq s.done
  BY DEF Follows
<1>9. /\ \A v \in Machine \cup {NoValue} : for[v] = v
      /\ \A v \in NewIds : for[v] = v \/ (v \in Made(L, n) /\ for[v] \in Nominal \cup Made(L, n))
  BY DEF Sound
<1>10. \A v \in s.done : v \in Made(L, n)
  <2>1. Computed(L, env, n)
    BY <1>1, Computes
  <2>2. QED
    BY <2>1 DEF Computed, Made
<1>11. Made(L, n) \subseteq NewIds /\ (o.op \in Kinded => o.id \notin Made(L, n))
  <2>1. \A j \in 1..n : L[j] \in Upto(L, n) /\ L[j] \in Records
    BY <1>1 DEF Upto, Listed
  <2>2. QED
    BY <1>1, <2>1 DEF Made, Fits, Records, Mere, Kinded
<1>12. D \in SUBSET Ids /\ \A v \in D : for[v] \in Ids
  BY <1>9, <1>10, <1>11, Numbers DEF NewIds
<1>13. Runs(env, s, o) /\ Operand(env, o) # NoValue => Operand(env, o) \in D
  BY <1>1, Needs
<1>14. o.id \in NewIds /\ o.id \in Ids /\ o.id \in Vals
  BY <1>1 DEF Records, NewIds, Vals
<1>15. Effect(env, s, o, s2)
  BY <1>1, <1>2, Executes
<1> HIDE DEF o, for, q, b, s, t, s2, t2
<1>16. CASE ~Drops(acc, o, ids)
  <2>1. t2 = Execute(env, t, q)
    BY <1>3, <1>6, <1>7, <1>16, AppendRuns DEF t, t2
  <2>2. o.op \in Kinded => \A v \in D : v # o.id => for[v] # o.id
    BY <1>9, <1>10, <1>11, <1>14, Numbers DEF NewIds
  <2>3. Runs(env, s, o) => Given(env, o, q, for, Refs, D)
    <3> SUFFICES ASSUME Runs(env, s, o) PROVE Given(env, o, q, for, Refs, D)
      OBVIOUS
    <3>1. Operand(env, q) = for[Operand(env, o)]
      BY <1>5 DEF Operand, Alike
    <3>2. for[NoValue] = NoValue
      BY <1>9
    <3>3. o.op \in {"read", "load"} => Cell(env, o.ref) \in Refs
      BY <1>1, Cells DEF Shaped
    <3>4. Seen(env, o) \subseteq Refs
      BY <1>1, Cells DEF Seen, Shared, Refs, Records
    <3>5. QED
      BY <1>13, <3>1, <3>2, <3>3, <3>4 DEF Given
  <2>4. /\ Results(env, t, q) <=> Results(env, s, o)
        /\ Agree(s2, t2, for, Refs \cup {c \in Refs : Stores(env, s, o, c)},
                 D \cup {v \in {o.id} : Results(env, s, o)})
    <3> HIDE DEF D
    <3>1. Refs \in SUBSET Refs
      OBVIOUS
    <3>2. /\ Results(env, t, q) <=> Results(env, s, o)
          /\ Agree(Execute(env, s, o), Execute(env, t, q), for,
                   Refs \cup {c \in Refs : Stores(env, s, o, c)},
                   D \cup {v \in {o.id} : Results(env, s, o)})
      BY <1>1, <1>2, <1>4, <1>5, <1>6, <1>8, <1>12, <2>2, <2>3, <3>1, SameStep
    <3>3. QED
      BY <1>2, <2>1, <3>2
  <2>5. Effect(env, t, q, t2)
    BY <1>4, <1>6, <2>1, Executes
  <2>6. D \cup {v \in {o.id} : Results(env, s, o)} = Machine \cup s2.done
    BY <1>15 DEF Effect
  <2>7. t2.done \subseteq s2.done
    BY <1>5, <1>8, <1>15, <2>4, <2>5 DEF Effect, Alike
  <2>8. Refs \cup {c \in Refs : Stores(env, s, o, c)} = Refs
    OBVIOUS
  <2>9. b.for = for
    BY <1>7, <1>16
  <2>10. Agree(s2, t2, b.for, Refs, Machine \cup s2.done)
    BY <2>4, <2>6, <2>8, <2>9
  <2>11. QED
    BY <2>7, <2>10 DEF Follows, s2, t2, b, o
<1>17. CASE Drops(acc, o, ids)
  <2>1. t2 = t /\ b.for = [for EXCEPT ![o.id] = for[o.val]]
    BY <1>7, <1>17 DEF t, t2
  <2>2. o.op = "requalify" /\ Operand(env, o) = o.val /\ o.val # NoValue
    <3>1. q.op = "requalify"
      BY <1>17 DEF Drops, q, for
    <3>2. o.op = "requalify"
      BY <1>5, <3>1 DEF Alike
    <3>3. QED
      BY <1>1, <3>2 DEF Operand, Shaped
  <2>3. o.op \in Kinded /\ o.id \notin D
    BY <1>10, <1>11, <1>14, <2>2 DEF NewIds, Kinded
  <2>4. \A v \in D : b.for[v] = for[v]
    BY <1>3, <1>12, <2>1, <2>3 DEF Vals, for
  <2>5. b.for[o.id] = for[o.val]
    BY <1>3, <1>14, <2>1 DEF for
  <2>6. /\ s2.raised = s.raised /\ s2.trace = s.trace /\ (\A c \in Refs : s2.mem[c] = s.mem[c])
        /\ s2.done = IF Runs(env, s, o) THEN s.done \cup {o.id} ELSE s.done
        /\ \A v \in Ids : s2.val[v] = IF Runs(env, s, o) /\ v = o.id THEN s.val[o.val] ELSE s.val[v]
    <3>1. MemoryEffectFree(o)
      BY <2>2 DEF MemoryEffectFree
    <3>2. Gives(env, s, o, s2)
      BY <1>1, <1>2, <3>1, Quiet
    <3>3. QED
      BY <2>2, <3>2 DEF Gives
  <2>7. ASSUME NEW v \in Machine \cup s2.done PROVE t2.val[b.for[v]] = s2.val[v]
    <3>1. CASE v \in D
      <4>1. t.val[for[v]] = s.val[v] /\ v # o.id /\ v \in Ids
        BY <1>8, <1>12, <2>3, <3>1 DEF Agree
      <4>2. QED
        BY <2>1, <2>4, <2>6, <3>1, <4>1
    <3>2. CASE v \notin D
      <4>1. v = o.id /\ Runs(env, s, o)
        BY <2>6, <2>7, <3>2
      <4>2. o.val \in D
        BY <1>13, <2>2, <4>1
      <4>3. t.val[for[o.val]] = s.val[o.val]
        BY <1>8, <4>2 DEF Agree
      <4>4. QED
        BY <1>14, <2>1, <2>5, <2>6, <4>1, <4>3
    <3>3. QED
      BY <3>1, <3>2
  <2>8. Agree(s2, t2, b.for, Refs, Machine \cup s2.done) /\ t2.done \subseteq s2.done
    BY <1>8, <2>1, <2>6, <2>7 DEF Agree
  <2>9. QED
    BY <2>8 DEF Follows, s2, t2, b, o
<1>18. QED
  BY <1>16, <1>17

(* M, executed, shows what L shows, and the values it computes are of      *)
(* types L computed them with.                                             *)
Keeps(L, M, env) ==
  LET s == Executed(L, env)
      t == Executed(M, env)
  IN  /\ t.raised = s.raised /\ t.trace = s.trace /\ \A c \in Shared : t.mem[c] = s.mem[c]
      /\ \A q \in Whole(M) : q.op \in Kinded /\ q.id \in t.done =>
           \E p \in Whole(L) : /\ p.op \in Kinded /\ p.id \in s.done /\ p.type = q.type
                               /\ t.val[q.id] = s.val[p.id]

LEMMA RequalifiedKeeps ==
  ASSUME NEW L, Valid(L), NEW ids
  PROVE  LET M == Requalified(L, ids) IN
         /\ Valid(M)
         /\ \A q \in Whole(M) : \E p \in Whole(L) : Alike(p, q)
         /\ \A env \in Environments : Keeps(L, M, env)
<1> DEFINE acc == Settled(L, ids)
           N == Len(L)
           M == Requalified(L, ids)
           T == {n \in 0..N : /\ Sound(L, n, acc[n])
                              /\ \A env \in Environments : Follows(L, env, n, acc[n])}
<1>1. L \in Seq(Records) /\ Listed(L) /\ N \in Nat
  BY ValidLists DEF Valid
<1>2. /\ acc[0] = [list |-> <<>>, for |-> [v \in Vals |-> v]]
      /\ \A n \in 1..N : acc[n] = Settle(acc[n - 1], L[n], ids)
      /\ \A n \in 0..N : acc[n] \in Accs
  BY <1>1, SettledIs
<1>3. M = acc[N].list
  BY DEF Requalified
<1> HIDE DEF acc, M
<1>4. 0 \in T
  <2> DEFINE a == acc[0]
  <2>1. a.list = <<>> /\ a.for = [v \in Vals |-> v]
    BY <1>2
  <2>2. <<>> \in Seq(Records) /\ Len(<<>>) = 0 /\ Valid(<<>>) /\ Whole(<<>>) = {}
    BY EmptySeq DEF Valid, Whole, Upto
  <2>3. Upto(L, 0) = {}
    BY DEF Upto
  <2>4. NewIds \subseteq Vals /\ Machine \cup {NoValue} \subseteq Vals /\ Nominal \subseteq Vals
    BY Numbers DEF NewIds, Vals
  <2> HIDE DEF a
  <2>5. \A v, S, X : 1 \in S /\ Has(Upto(L, 0), v, S, X) => Has(Whole(a.list), a.for[v], S, X)
    BY <2>1, <2>2, <2>3, <2>4 DEF Has
  <2>6. Sound(L, 0, a)
    BY <2>1, <2>2, <2>4, <2>5 DEF Sound
  <2>7. ASSUME NEW env \in Environments PROVE Follows(L, env, 0, a)
    <3>1. After(L, env)[0] = Start(env)
      BY <1>1, RunIs
    <3>2. Executed(<<>>, env) = Start(env)
      <4>1. Listed(<<>>)
        BY <2>2, ValidLists
      <4>2. QED
        BY <2>2, <4>1, RunIs DEF Executed
    <3>3. Start(env).done = {} /\ \A v \in Machine : v \in Vals
      BY <2>4 DEF Start
    <3>4. QED
      BY <2>1, <3>1, <3>2, <3>3 DEF Follows, Agree
  <2>8. QED
    BY <1>1, <2>6, <2>7 DEF a
<1>5. ASSUME NEW n \in 0..(N - 1), n \in T PROVE n + 1 \in T
  <2>1. /\ n \in Nat /\ n + 1 \in 1..N /\ (n + 1) - 1 = n /\ acc[n] \in Accs /\ n + 1 \in 0..N
    BY <1>1, <1>2
  <2>2. acc[n + 1] = Settle(acc[n], L[n + 1], ids)
    BY <1>2, <2>1
  <2>3. Sound(L, n + 1, acc[n + 1])
    BY <1>5, <2>1, <2>2, SettleStep
  <2>4. ASSUME NEW env \in Environments PROVE Follows(L, env, n + 1, acc[n + 1])
    BY <1>5, <2>1, <2>2, FollowStep
  <2>5. QED
    BY <2>1, <2>3, <2>4
<1>6. \A n \in 0..N : n \in T
  <2> HIDE DEF T, N
  <2>1. QED
    BY <1>1, <1>4, <1>5, Progress
<1>7. Sound(L, N, acc[N]) /\ \A env \in Environments : Follows(L, env, N, acc[N])
  BY <1>1, <1>6
<1>8. \A q \in Whole(M) : \E j \in 1..N :
        Alike(L[j], q) /\ q.type = L[j].type /\ (q.op \in Kinded => acc[N].for[q.id] = q.id)
  BY <1>3, <1>7 DEF Sound
<1>9. \A q \in Whole(M) : \E p \in Whole(L) :
        Alike(p, q) /\ q.type = p.type /\ (q.op \in Kinded => acc[N].for[q.id] = q.id)
  BY <1>8 DEF Whole, Upto
<1>10. ASSUME NEW env \in Environments PROVE Keeps(L, M, env)
  <2> DEFINE s == Executed(L, env)
             t == Executed(M, env)
  <2>1. Agree(s, t, acc[N].for, Refs, Machine \cup s.done) /\ t.done \subseteq s.done
    BY <1>3, <1>7 DEF Follows, Executed
  <2> HIDE DEF s, t
  <2>2. ASSUME NEW q \in Whole(M), q.op \in Kinded, q.id \in t.done
        PROVE  \E p \in Whole(L) : /\ p.op \in Kinded /\ p.id \in s.done /\ p.type = q.type
                                   /\ t.val[q.id] = s.val[p.id]
    <3>1. PICK p \in Whole(L) :
            Alike(p, q) /\ q.type = p.type /\ (q.op \in Kinded => acc[N].for[q.id] = q.id)
      BY <1>9
    <3>2. t.val[q.id] = s.val[q.id] /\ q.id \in s.done
      BY <2>1, <2>2, <3>1 DEF Agree
    <3>3. QED
      BY <2>2, <3>1, <3>2 DEF Alike
  <2>3. \A c \in Shared : t.mem[c] = s.mem[c]
    BY <2>1 DEF Agree, Shared, Refs
  <2>4. QED
    BY <2>1, <2>2, <2>3 DEF Keeps, Agree, s, t
<1>11. QED
  BY <1>3, <1>7, <1>9, <1>10 DEF Sound, M

-----------------------------------------------------------------------------
(* Rewriting one operation *)

(* Between two states nothing has an effect: memory stays.                 *)
LEMMA QuietSpan ==
  ASSUME NEW env \in Environments, NEW L, Valid(L), NEW a \in 0..Len(L), NEW b \in a..Len(L),
         \A k \in (a + 1)..b : MemoryEffectFree(L[k])
  PROVE  LET s == After(L, env)[a]
             t == After(L, env)[b]
         IN  t.raised = s.raised /\ t.trace = s.trace /\ \A c \in Refs : t.mem[c] = s.mem[c]
<1> DEFINE run == After(L, env)
           s == run[a]
           Still(t) == t.raised = s.raised /\ t.trace = s.trace /\ \A c \in Refs : t.mem[c] = s.mem[c]
           T == {k \in a..b : Still(run[k])}
<1>1. Listed(L) /\ Len(L) \in Nat /\ \A k \in 1..Len(L) : Shaped(L[k])
  BY ValidLists
<1>2. /\ \A k \in 1..Len(L) : run[k] = Execute(env, run[k - 1], L[k])
      /\ \A k \in 0..Len(L) : run[k] \in States
  BY <1>1, RunIs
<1>3. a \in T
  BY <1>1
<1> HIDE DEF run
<1>4. ASSUME NEW k \in a..(b - 1), k \in T PROVE k + 1 \in T
  <2>1. /\ k \in 0..Len(L) /\ k + 1 \in 1..Len(L) /\ (k + 1) - 1 = k /\ k + 1 \in a..b
        /\ k + 1 \in (a + 1)..b
    BY <1>1
  <2>2. Gives(env, run[k], L[k + 1], run[k + 1])
    BY <1>1, <1>2, <2>1, Quiet
  <2>3. Still(run[k])
    BY <1>4
  <2>4. Still(run[k + 1])
    BY <2>2, <2>3 DEF Gives
  <2>5. QED
    BY <2>1, <2>4
<1>5. \A k \in a..b : k \in T
  <2>1. a \in Nat /\ b \in Nat
    BY <1>1
  <2> HIDE DEF T
  <2>2. QED
    BY <1>3, <1>4, <2>1, Progress
<1>6. Still(run[b])
  BY <1>1, <1>5
<1>7. QED
  BY <1>6 DEF run

(* Another operation in the place of one, with the same result.            *)
LEMMA InPlaceValid ==
  ASSUME NEW L, Valid(L), NEW i \in 1..Len(L), NEW q, Fits(Upto(L, i - 1), q),
         q.id = L[i].id, q.blk = L[i].blk, q.type = L[i].type,
         q.op \in Kinded, L[i].op \in Kinded
  PROVE  LET M == [L EXCEPT ![i] = q] IN
         /\ Valid(M) /\ Len(M) = Len(L) /\ M[i] = q
         /\ \A k \in 1..Len(L) : k # i => M[k] = L[k]
<1> DEFINE M == [L EXCEPT ![i] = q]
           o == L[i]
<1>1. /\ L \in Seq(Records) /\ Len(L) \in Nat
      /\ \A n \in 1..Len(L) : Fits(Upto(L, n - 1), L[n])
      /\ q \in Records
  BY DEF Valid, Fits, Shaped
<1>2. /\ M \in Seq(Records) /\ Len(M) = Len(L) /\ M[i] = q
      /\ \A k \in 1..Len(L) : k # i => M[k] = L[k]
  BY <1>1
<1> HIDE DEF M
<1>3. ASSUME NEW n \in 1..Len(L) PROVE Fits(Upto(M, n - 1), M[n])
  <2>1. Fits(Upto(L, n - 1), L[n])
    BY <1>1
  <2>2. CASE n <= i
    <3>1. Upto(M, n - 1) = Upto(L, n - 1)
      <4>1. \A k \in 1..(n - 1) : M[k] = L[k]
        BY <1>1, <1>2, <2>2
      <4>2. QED
        BY <4>1 DEF Upto
    <3>2. CASE n = i
      BY <1>2, <3>1, <3>2
    <3>3. CASE n # i
      BY <1>2, <2>1, <3>1, <3>3
    <3>4. QED
      BY <3>2, <3>3
  <2>3. CASE n > i
    <3> DEFINE P == Upto(L, n - 1)
               R == Upto(M, n - 1)
    <3>1. M[n] = L[n] /\ i \in 1..(n - 1)
      BY <1>1, <1>2, <2>3
    <3>2. /\ o \in P
          /\ \A p \in P : p = o \/ p \in R
          /\ \A p \in R : p = q \/ p \in P
          /\ q \in R
      BY <1>1, <1>2, <3>1 DEF Upto
    <3> HIDE DEF P, R, o
    <3>3. \A v, S, T : Has(P, v, S, T) => Has(R, v, S, T)
      BY <3>2 DEF Has, o
    <3>4. \A p \in R : p.blk <= L[n].blk /\ (p.id = L[n].id => p.op \in Mere /\ L[n].op \in Mere)
      BY <2>1, <3>2 DEF Fits, P, o, Mere, Kinded
    <3>5. L[n].op # "object"
      BY <2>1, <3>2 DEF Fits, P
    <3>6. Fits(R, L[n])
      BY <2>1, <3>3, <3>4, <3>5 DEF Fits, P
    <3>7. QED
      BY <3>1, <3>6 DEF R
  <2>4. QED
    BY <1>1, <2>2, <2>3
<1>4. Valid(M)
  BY <1>2, <1>3 DEF Valid
<1>5. QED
  BY <1>2, <1>4 DEF M

LEMMA InPlaceRuns ==
  ASSUME NEW env \in Environments, NEW L, Valid(L), NEW M, Valid(M), NEW i \in 1..Len(L),
         Len(M) = Len(L), \A k \in 1..Len(L) : k # i => M[k] = L[k],
         Execute(env, After(L, env)[i - 1], M[i]) = Execute(env, After(L, env)[i - 1], L[i])
  PROVE  \A n \in 0..Len(L) : After(M, env)[n] = After(L, env)[n]
<1> DEFINE s == After(L, env)
           t == After(M, env)
           T == {n \in 0..Len(L) : t[n] = s[n]}
<1>1. Listed(L) /\ Listed(M) /\ Len(L) \in Nat
  BY ValidLists
<1>2. /\ s[0] = Start(env) /\ t[0] = Start(env)
      /\ \A n \in 1..Len(L) : s[n] = Execute(env, s[n - 1], L[n])
      /\ \A n \in 1..Len(L) : t[n] = Execute(env, t[n - 1], M[n])
  BY <1>1, RunIs
<1>3. Execute(env, s[i - 1], M[i]) = Execute(env, s[i - 1], L[i])
  OBVIOUS
<1> HIDE DEF s, t
<1>4. 0 \in T
  BY <1>1, <1>2
<1>5. ASSUME NEW n \in 0..(Len(L) - 1), n \in T PROVE n + 1 \in T
  <2>1. n + 1 \in 1..Len(L) /\ (n + 1) - 1 = n /\ n + 1 \in 0..Len(L)
    BY <1>1
  <2>2. t[n] = s[n]
    BY <1>5
  <2>3. s[n + 1] = Execute(env, s[n], L[n + 1]) /\ t[n + 1] = Execute(env, s[n], M[n + 1])
    BY <1>2, <2>1, <2>2
  <2>4. CASE n + 1 = i
    BY <1>3, <2>1, <2>3, <2>4
  <2>5. CASE n + 1 # i
    BY <2>1, <2>3, <2>5
  <2>6. QED
    BY <2>4, <2>5
<1>6. \A n \in 0..Len(L) : n \in T
  <2> HIDE DEF T
  <2>1. QED
    BY <1>1, <1>4, <1>5, Progress
<1>7. QED
  BY <1>6 DEF s, t

(* An operation of the same result in the place of another keeps the rest. *)
LEMMA InPlaceKeeps ==
  ASSUME NEW env \in Environments, NEW L, Valid(L), NEW M, Valid(M), NEW i \in 1..Len(L),
         Len(M) = Len(L), \A k \in 1..Len(L) : k # i => M[k] = L[k],
         M[i].id = L[i].id, M[i].type = L[i].type, M[i].op \in Kinded, L[i].op \in Kinded,
         Execute(env, After(L, env)[i - 1], M[i]) = Execute(env, After(L, env)[i - 1], L[i])
  PROVE  Keeps(L, M, env)
<1>1. Len(L) \in Nat
  BY ValidLists
<1>2. After(M, env)[Len(L)] = After(L, env)[Len(L)]
  BY <1>1, InPlaceRuns
<1>3. Executed(M, env) = Executed(L, env)
  BY <1>2 DEF Executed
<1>4. \A q \in Whole(M) : \E p \in Whole(L) :
        p.id = q.id /\ p.type = q.type /\ (q.op \in Kinded => p.op \in Kinded)
  BY DEF Whole, Upto
<1>5. QED
  BY <1>3, <1>4 DEF Keeps

-----------------------------------------------------------------------------
(* A read takes an earlier write's value; requalifications collapse *)

LEMMA TheDefiner ==
  ASSUME NEW L, Valid(L), NEW n \in 1..Len(L), NEW v, NEW S, NEW T,
         Has(Upto(L, n - 1), v, S, T), NEW j \in DefinerOf(L, v)
  PROVE  j \in 1..(n - 1) /\ L[j].op \in Kinded /\ L[j].id = v /\ L[j].blk \in S /\ L[j].type \in T
<1>1. /\ Len(L) \in Nat /\ DOMAIN L = 1..Len(L) /\ \A k \in 1..Len(L) : L[k] \in Records
      /\ \A m \in 1..Len(L), k \in 1..Len(L) : k < m =>
           (L[k].id = L[m].id => L[k].op \notin Kinded /\ L[m].op \notin Kinded)
  BY ValidLists DEF Valid
<1>2. j \in 1..Len(L) /\ L[j].id = v /\ v \in NewIds
  BY <1>1 DEF DefinerOf, Records
<1>3. v \notin Nominal
  BY <1>2, Numbers DEF NewIds
<1>4. PICK k \in 1..(n - 1) : L[k].op \in Kinded /\ L[k].id = v /\ L[k].blk \in S /\ L[k].type \in T
  BY <1>3 DEF Has, Upto
<1>5. k = j
  <2>1. k \in 1..Len(L) /\ ~(k < j) /\ ~(j < k)
    BY <1>1, <1>2, <1>4
  <2>2. QED
    BY <1>2, <2>1
<1>6. QED
  BY <1>4, <1>5

LEMMA MoreHas ==
  ASSUME NEW L, NEW m \in Nat, NEW n \in Nat, m <= n, NEW v, NEW S, NEW T, NEW S2, NEW T2,
         Has(Upto(L, m), v, S, T), S \subseteq S2, T \subseteq T2
  PROVE  Has(Upto(L, n), v, S2, T2)
<1>1. Upto(L, m) \subseteq Upto(L, n)
  <2>1. 1..m \subseteq 1..n
    OBVIOUS
  <2>2. QED
    BY <2>1 DEF Upto
<1>2. QED
  BY <1>1 DEF Has

LEMMA RequalifyIs ==
  ASSUME NEW o \in Records, NEW v \in Ids, NEW type \in Types
  PROVE  LET q == Requalify(o, v, type) IN
         /\ q \in Records /\ Shaped(q)
         /\ q.op = "requalify" /\ q.op \in Kinded
         /\ q.id = o.id /\ q.blk = o.blk /\ q.val = v /\ q.alt = NoValue /\ q.type = type
<1> DEFINE q == Requalify(o, v, type)
<1>1. q = [op |-> "requalify", id |-> o.id, blk |-> o.blk, ref |-> None, refs |-> {},
           val |-> v, alt |-> NoValue, type |-> type]
  <2> DEFINE a == Operation("requalify", o.id, o.blk)
             b == [a EXCEPT !.val = v]
  <2>1. a = [op |-> "requalify", id |-> o.id, blk |-> o.blk, ref |-> None, refs |-> {},
             val |-> NoValue, alt |-> NoValue, type |-> "nominal"]
    BY DEF Operation
  <2> HIDE DEF a
  <2>2. b = [op |-> "requalify", id |-> o.id, blk |-> o.blk, ref |-> None, refs |-> {},
             val |-> v, alt |-> NoValue, type |-> "nominal"]
    BY <2>1
  <2> HIDE DEF b
  <2>3. [b EXCEPT !.type = type] =
          [op |-> "requalify", id |-> o.id, blk |-> o.blk, ref |-> None, refs |-> {},
           val |-> v, alt |-> NoValue, type |-> type]
    BY <2>2
  <2>4. q = [b EXCEPT !.type = type]
    BY DEF Requalify, b, a
  <2>5. QED
    BY <2>3, <2>4
<1>2. v # NoValue
  BY Numbers
<1> HIDE DEF q
<1>3. QED
  BY <1>1, <1>2 DEF Records, Shaped, Kinded, Types, Vals, OpNames, q

LEMMA ForwardKeeps ==
  ASSUME Valid(ops), NEW i \in DOMAIN ops, ops[i].op = "read", NEW j \in ForwardedFrom(i)
  PROVE  LET M == [ops EXCEPT ![i] = Requalify(ops[i], ops[j].val, ops[i].type)] IN
         Valid(M) /\ \A env \in Environments : Keeps(ops, M, env)
<1> DEFINE o == ops[i]
           w == ops[j]
           v == w.val
           q == Requalify(o, v, o.type)
           M == [ops EXCEPT ![i] = q]
<1>1. /\ Listed(ops) /\ Len(ops) \in Nat /\ DOMAIN ops = 1..Len(ops)
      /\ \A n \in 1..Len(ops) : ops[n] \in Records /\ Shaped(ops[n]) /\ Fits(Upto(ops, n - 1), ops[n])
  BY ValidLists DEF Valid
<1>2. /\ j \in 1..(i - 1) /\ w.op = "write" /\ w.blk = o.blk /\ w.ref = o.ref
      /\ \A k \in (j + 1)..(i - 1) : MemoryEffectFree(ops[k])
  BY DEF ForwardedFrom, SameBlock, Between
<1>3. i \in 1..Len(ops) /\ j \in 1..Len(ops) /\ j - 1 \in 0..Len(ops) /\ i - 1 \in j..Len(ops)
      /\ j - 1 \in Nat /\ i - 1 \in Nat /\ j \in 0..Len(ops) /\ i - 1 \in (j - 1)..Len(ops)
  BY <1>1, <1>2
<1>4. o \in Records /\ Shaped(o) /\ o.op = "read" /\ w \in Records /\ Shaped(w)
      /\ Fits(Upto(ops, i - 1), o) /\ Fits(Upto(ops, j - 1), w)
  BY <1>1, <1>3
<1>5. v \in Ids /\ o.type \in Types /\ w.ref \in Refs /\ v # NoValue
  BY <1>2, <1>4 DEF Shaped, Records, Vals, Types
<1>6. /\ Shaped(q) /\ q.op = "requalify" /\ q.op \in Kinded
      /\ q.id = o.id /\ q.blk = o.blk /\ q.val = v /\ q.alt = NoValue /\ q.type = o.type
  BY <1>4, <1>5, RequalifyIs
<1>7. Has(Upto(ops, i - 1), v, {1, o.blk}, Types)
  <2>1. Has(Upto(ops, j - 1), v, {1, w.blk}, {"nominal"})
    BY <1>2, <1>4, <1>5 DEF Fits, Scope, Takes
  <2>2. {1, w.blk} \subseteq {1, o.blk} /\ {"nominal"} \subseteq Types /\ j - 1 <= i - 1
    BY <1>2, <1>3 DEF Types
  <2>3. QED
    BY <1>3, <2>1, <2>2, MoreHas
<1> HIDE DEF q
<1>8. Fits(Upto(ops, i - 1), q)
  BY <1>4, <1>6, <1>7 DEF Fits, Scope, Takes, Kinded, Mere
<1>9. /\ Valid(M) /\ Len(M) = Len(ops) /\ M[i] = q
      /\ \A k \in 1..Len(ops) : k # i => M[k] = ops[k]
  BY <1>3, <1>4, <1>6, <1>8, InPlaceValid DEF Kinded
<1>10. ASSUME NEW env \in Environments PROVE Keeps(ops, M, env)
  <2> DEFINE run == After(ops, env)
             s == run[i - 1]
             c == Cell(env, o.ref)
  <2>1. /\ \A k \in 1..Len(ops) : run[k] = Execute(env, run[k - 1], ops[k])
        /\ \A k \in 0..Len(ops) : run[k] \in States
    BY <1>1, RunIs
  <2>2. s \in States /\ run[j - 1] \in States /\ run[j] = Execute(env, run[j - 1], w)
    BY <1>3, <2>1
  <2>3. Effect(env, s, o, Execute(env, s, o)) /\ Effect(env, s, q, Execute(env, s, q))
        /\ Effect(env, run[j - 1], w, run[j])
    BY <1>4, <1>6, <2>2, Executes
  <2>4. s.raised = run[j].raised /\ \A d \in Refs : s.mem[d] = run[j].mem[d]
    BY <1>2, <1>3, QuietSpan
  <2>5. /\ run[j - 1].raised => run[j].raised
        /\ \A u \in Machine \cup run[j - 1].done : s.val[u] = run[j - 1].val[u]
    <3>1. j \in (j - 1)..Len(ops)
      BY <1>3
    <3>2. QED
      BY <1>3, <3>1, Stays
  <2>6. Runs(env, run[j - 1], w) => v \in Machine \cup run[j - 1].done
    <3>1. Operand(env, w) = v
      BY <1>2 DEF Operand
    <3>2. QED
      BY <1>3, <1>5, <3>1, Needs
  <2>7. c \in Refs /\ Cell(env, w.ref) = c
    BY <1>2, <1>5, Cells
  <2> HIDE DEF run, s, o, w, c, v
  <2>8. Execute(env, s, q) = Execute(env, s, o)
    <3>1. CASE ~Runs(env, s, o)
      <4>1. ~Runs(env, s, q)
        BY <1>6, <3>1 DEF Runs, Active
      <4>2. QED
        BY <2>3, <3>1, <4>1 DEF Effect
    <3>2. CASE Runs(env, s, o)
      <4>1. Runs(env, run[j - 1], w)
        BY <1>2, <2>4, <2>5, <3>2 DEF Runs, Active
      <4>2. run[j].mem[c] = run[j - 1].val[v]
        <5>1. Stores(env, run[j - 1], w, c) /\ Stored(run[j - 1], w, c) = run[j - 1].val[v]
          BY <1>2, <2>7, <4>1 DEF Stores, Stored, v
        <5>2. QED
          BY <2>3, <2>7, <5>1 DEF Effect
      <4>3. s.mem[c] = s.val[v]
        BY <2>4, <2>5, <2>6, <2>7, <4>1, <4>2
      <4>4. ~(s.raised \/ (o.blk = 2 /\ ~env.cond)) /\ ~(s.raised \/ (q.blk = 2 /\ ~env.cond))
        BY <1>6, <3>2 DEF Runs, Active
      <4>5. Execute(env, s, o) = Give(s, o, s.mem[c]) /\ Execute(env, s, q) = Give(s, q, s.val[v])
        BY <1>4, <1>6, <4>4 DEF Execute, c
      <4>6. QED
        BY <1>6, <4>3, <4>5 DEF Give
    <3>3. QED
      BY <3>1, <3>2
  <2>9. Execute(env, After(ops, env)[i - 1], M[i]) = Execute(env, After(ops, env)[i - 1], ops[i])
    BY <1>9, <2>8 DEF run, s, o
  <2>10. M[i].id = ops[i].id /\ M[i].type = ops[i].type /\ M[i].op \in Kinded /\ ops[i].op \in Kinded
    BY <1>4, <1>6, <1>9 DEF o, Kinded
  <2> HIDE DEF M
  <2>11. QED
    BY <1>3, <1>9, <2>9, <2>10, InPlaceKeeps
<1>11. QED
  BY <1>9, <1>10 DEF M, q

LEMMA CollapseKeeps ==
  ASSUME Valid(ops), NEW i \in DOMAIN ops, ops[i].op = "requalify",
         NEW j \in DefinerOf(ops, ops[i].val), ops[j].op = "requalify"
  PROVE  LET M == [ops EXCEPT ![i].val = ops[j].val] IN
         Valid(M) /\ \A env \in Environments : Keeps(ops, M, env)
<1> DEFINE o == ops[i]
           w == ops[j]
           v == w.val
           q == [o EXCEPT !.val = v]
           M == [ops EXCEPT ![i].val = v]
<1>1. /\ Listed(ops) /\ Len(ops) \in Nat /\ DOMAIN ops = 1..Len(ops)
      /\ \A n \in 1..Len(ops) : ops[n] \in Records /\ Shaped(ops[n]) /\ Fits(Upto(ops, n - 1), ops[n])
  BY ValidLists DEF Valid
<1>2. /\ i \in 1..Len(ops) /\ o \in Records /\ Shaped(o) /\ Fits(Upto(ops, i - 1), o)
      /\ o.op = "requalify" /\ o.val # NoValue
  BY <1>1 DEF Shaped
<1>3. Has(Upto(ops, i - 1), o.val, {1, o.blk}, Types)
  BY <1>2 DEF Fits, Scope, Takes
<1>4. j \in 1..(i - 1) /\ w.id = o.val /\ w.blk \in {1, o.blk}
  BY <1>2, <1>3, TheDefiner
<1>5. i \in 1..Len(ops) /\ j \in 1..Len(ops) /\ j - 1 \in 0..Len(ops) /\ i - 1 \in j..Len(ops)
      /\ j - 1 \in Nat /\ i - 1 \in Nat /\ j \in 0..Len(ops) /\ i - 1 \in (j - 1)..Len(ops)
  BY <1>1, <1>2, <1>4
<1>6. w \in Records /\ Shaped(w) /\ w.op = "requalify" /\ Fits(Upto(ops, j - 1), w)
  BY <1>1, <1>5
<1>7. v \in Ids /\ v # NoValue
  BY <1>6 DEF Shaped, Records, Vals
<1>8. /\ Shaped(q) /\ q.op = "requalify" /\ q.id = o.id /\ q.blk = o.blk /\ q.val = v
      /\ q.type = o.type /\ q.alt = o.alt
  BY <1>2, <1>7 DEF Shaped, Records, Vals
<1>9. Has(Upto(ops, i - 1), v, {1, o.blk}, Types)
  <2>1. Has(Upto(ops, j - 1), v, {1, w.blk}, Types)
    BY <1>6, <1>7 DEF Fits, Scope, Takes
  <2>2. {1, w.blk} \subseteq {1, o.blk} /\ j - 1 <= i - 1
    BY <1>4, <1>5
  <2>3. QED
    BY <1>5, <2>1, <2>2, MoreHas
<1>10. M = [ops EXCEPT ![i] = q]
  BY <1>1
<1> HIDE DEF q, M
<1>11. Fits(Upto(ops, i - 1), q)
  BY <1>2, <1>8, <1>9 DEF Fits, Scope, Takes, Kinded
<1>12. o.op \in Kinded /\ q.op \in Kinded
  BY <1>2, <1>8 DEF Kinded
<1>13. /\ Valid(M) /\ Len(M) = Len(ops) /\ M[i] = q
       /\ \A k \in 1..Len(ops) : k # i => M[k] = ops[k]
  <2> DEFINE K == [ops EXCEPT ![i] = q]
  <2>1. /\ Valid(K) /\ Len(K) = Len(ops) /\ K[i] = q
        /\ \A k \in 1..Len(ops) : k # i => K[k] = ops[k]
    BY <1>2, <1>8, <1>11, <1>12, InPlaceValid
  <2> HIDE DEF K
  <2>2. M = K
    BY <1>10 DEF K
  <2>3. QED
    BY <2>1, <2>2
<1>14. ASSUME NEW env \in Environments PROVE Keeps(ops, M, env)
  <2> DEFINE run == After(ops, env)
             s == run[i - 1]
  <2>1. /\ \A k \in 1..Len(ops) : run[k] = Execute(env, run[k - 1], ops[k])
        /\ \A k \in 0..Len(ops) : run[k] \in States
    BY <1>1, RunIs
  <2>2. s \in States /\ run[j - 1] \in States /\ run[j] = Execute(env, run[j - 1], w)
    BY <1>5, <2>1
  <2>3. /\ Gives(env, s, o, Execute(env, s, o)) /\ Gives(env, s, q, Execute(env, s, q))
        /\ Gives(env, run[j - 1], w, run[j])
        /\ Effect(env, s, o, Execute(env, s, o)) /\ Effect(env, s, q, Execute(env, s, q))
    <3>1. MemoryEffectFree(o) /\ MemoryEffectFree(q) /\ MemoryEffectFree(w)
      BY <1>2, <1>6, <1>8 DEF MemoryEffectFree
    <3>2. QED
      BY <1>2, <1>6, <1>8, <2>2, <3>1, Quiet, Executes
  <2>4. /\ run[j - 1].raised => s.raised
        /\ \A u \in Machine \cup run[j - 1].done : s.val[u] = run[j - 1].val[u]
    BY <1>5, Stays
  <2>5. \A u \in run[j].done : s.val[u] = run[j].val[u]
    BY <1>5, Stays
  <2>6. Runs(env, run[j - 1], w) => v \in Machine \cup run[j - 1].done
    <3>1. Operand(env, w) = v
      BY <1>6 DEF Operand
    <3>2. QED
      BY <1>5, <1>7, <3>1, Needs
  <2>7. w.id \in Ids
    BY <1>6 DEF Records, NewIds
  <2> HIDE DEF run, s, o, w, v
  <2>8. Execute(env, s, q) = Execute(env, s, o)
    <3>1. CASE ~Runs(env, s, o)
      <4>1. ~Runs(env, s, q)
        BY <1>8, <3>1 DEF Runs, Active
      <4>2. QED
        BY <2>3, <3>1, <4>1 DEF Effect
    <3>2. CASE Runs(env, s, o)
      <4>1. Runs(env, run[j - 1], w)
        BY <1>4, <2>4, <3>2 DEF Runs, Active
      <4>2. run[j].val[w.id] = run[j - 1].val[v] /\ w.id \in run[j].done
        BY <1>6, <2>3, <2>7, <4>1 DEF Gives, Operand, v
      <4>3. s.val[o.val] = s.val[v]
        BY <1>4, <2>4, <2>5, <2>6, <4>1, <4>2
      <4>4. ~(s.raised \/ (o.blk = 2 /\ ~env.cond)) /\ ~(s.raised \/ (q.blk = 2 /\ ~env.cond))
        BY <1>8, <3>2 DEF Runs, Active
      <4>5. Execute(env, s, o) = Give(s, o, s.val[o.val]) /\ Execute(env, s, q) = Give(s, q, s.val[v])
        BY <1>2, <1>8, <4>4 DEF Execute
      <4>6. QED
        BY <1>8, <4>3, <4>5 DEF Give
    <3>3. QED
      BY <3>1, <3>2
  <2>9. Execute(env, After(ops, env)[i - 1], M[i]) = Execute(env, After(ops, env)[i - 1], ops[i])
    BY <1>13, <2>8 DEF run, s, o
  <2>10. M[i].id = ops[i].id /\ M[i].type = ops[i].type /\ M[i].op \in Kinded /\ ops[i].op \in Kinded
    BY <1>8, <1>12, <1>13 DEF o
  <2>11. QED
    BY <1>2, <1>13, <2>9, <2>10, InPlaceKeeps
<1>15. QED
  BY <1>13, <1>14 DEF M, v, w
-----------------------------------------------------------------------------
(* Removing one operation *)

LEMMA RemoveIs ==
  ASSUME NEW L \in Seq(Records), NEW i \in 1..Len(L)
  PROVE  LET M == RemoveAt(L, i) IN
         /\ M \in Seq(Records) /\ Len(M) = Len(L) - 1 /\ Len(L) \in Nat
         /\ \A k \in 1..(Len(L) - 1) : M[k] = IF k < i THEN L[k] ELSE L[k + 1]
<1> DEFINE A == SubSeq(L, 1, i - 1)
           B == SubSeq(L, i + 1, Len(L))
           N == Len(L)
<1>1. N \in Nat /\ i \in Nat /\ i <= N /\ i >= 1
  OBVIOUS
<1>2. /\ A \in Seq(Records) /\ Len(A) = i - 1 /\ \A k \in 1..(i - 1) : A[k] = L[k]
  BY <1>1
<1>3. /\ B \in Seq(Records) /\ Len(B) = N - i /\ \A k \in 1..(N - i) : B[k] = L[i + k]
  BY <1>1
<1> HIDE DEF A, B
<1>4. /\ A \o B \in Seq(Records) /\ Len(A \o B) = (i - 1) + (N - i)
      /\ \A k \in 1..((i - 1) + (N - i)) : (A \o B)[k] = IF k <= i - 1 THEN A[k] ELSE B[k - (i - 1)]
  <2>1. /\ A \o B \in Seq(Records) /\ Len(A \o B) = Len(A) + Len(B)
        /\ \A k \in 1..(Len(A) + Len(B)) :
             (A \o B)[k] = IF k <= Len(A) THEN A[k] ELSE B[k - Len(A)]
    BY <1>2, <1>3, ConcatProperties
  <2>2. QED
    BY <1>2, <1>3, <2>1
<1>5. ASSUME NEW k \in 1..(N - 1) PROVE (A \o B)[k] = IF k < i THEN L[k] ELSE L[k + 1]
  <2>1. CASE k < i
    BY <1>1, <1>2, <1>4, <2>1
  <2>2. CASE ~(k < i)
    <3>1. k - (i - 1) \in 1..(N - i) /\ i + (k - (i - 1)) = k + 1
      BY <1>1, <2>2
    <3>2. (A \o B)[k] = B[k - (i - 1)]
      BY <1>1, <1>4, <2>2
    <3>3. B[k - (i - 1)] = L[k + 1]
      BY <1>3, <3>1
    <3>4. QED
      BY <2>2, <3>2, <3>3
  <2>3. QED
    BY <2>1, <2>2
<1>6. RemoveAt(L, i) = A \o B
  BY DEF RemoveAt, A, B
<1>7. QED
  BY <1>1, <1>4, <1>5, <1>6

LEMMA RemoveValid ==
  ASSUME NEW L, Valid(L), NEW i \in 1..Len(L),
         L[i].op \notin Kinded \/ UsesOf(L, L[i].id) = {}
  PROVE  LET M == RemoveAt(L, i) IN
         /\ Valid(M) /\ Whole(M) \subseteq Whole(L)
         /\ \A q \in Whole(M) : L[i].op \in Kinded => q.id # L[i].id
<1> DEFINE M == RemoveAt(L, i)
           o == L[i]
           N == Len(L)
           at(k) == IF k < i THEN k ELSE k + 1
<1>1. /\ L \in Seq(Records) /\ N \in Nat /\ DOMAIN L = 1..N
      /\ \A n \in 1..N : Fits(Upto(L, n - 1), L[n]) /\ Shaped(L[n])
      /\ \A n \in 1..N, j \in 1..N : j < n =>
           (L[j].id = L[n].id => L[j].op \notin Kinded /\ L[n].op \notin Kinded)
  BY ValidLists DEF Valid
<1>2. /\ M \in Seq(Records) /\ Len(M) = N - 1
      /\ \A k \in 1..(N - 1) : M[k] = IF k < i THEN L[k] ELSE L[k + 1]
  BY <1>1, RemoveIs
<1> HIDE DEF M
<1>3. \A k \in 1..(N - 1) : M[k] = L[at(k)] /\ at(k) \in 1..N /\ at(k) # i
  BY <1>1, <1>2
<1>4. Whole(M) \subseteq Whole(L)
  BY <1>1, <1>2, <1>3 DEF Whole, Upto
<1>5. \A q \in Whole(M) : o.op \in Kinded => q.id # o.id
  <2> SUFFICES ASSUME NEW k \in 1..(N - 1), o.op \in Kinded PROVE M[k].id # o.id
    BY <1>2 DEF Whole, Upto
  <2>1. M[k] = L[at(k)] /\ at(k) \in 1..N /\ (at(k) < i \/ i < at(k))
    BY <1>3, <1>1
  <2> HIDE DEF at
  <2>2. QED
    BY <1>1, <2>1
<1>6. ASSUME NEW n \in 1..(N - 1) PROVE Fits(Upto(M, n - 1), M[n])
  <2> DEFINE m == at(n)
             P == Upto(L, m - 1)
             R == Upto(M, n - 1)
  <2>1. m \in 1..N /\ M[n] = L[m] /\ Fits(P, L[m])
    BY <1>1, <1>3
  <2>2. R \subseteq P
    <3> SUFFICES ASSUME NEW k \in 1..(n - 1) PROVE M[k] \in P
      BY DEF Upto
    <3>1. k \in 1..(N - 1) /\ at(k) \in 1..(m - 1) /\ M[k] = L[at(k)]
      BY <1>1, <1>3
    <3> HIDE DEF at
    <3>2. QED
      BY <3>1 DEF Upto
  <2>3. \A p \in P : p = o \/ p \in R
    <3> SUFFICES ASSUME NEW j \in 1..(m - 1), j # i PROVE L[j] \in R
      BY DEF Upto
    <3> DEFINE k == IF j < i THEN j ELSE j - 1
    <3>1. k \in 1..(n - 1) /\ at(k) = j /\ k \in 1..(N - 1)
      BY <1>1, <2>1
    <3> HIDE DEF at, k
    <3>2. M[k] = L[j]
      BY <1>3, <3>1
    <3>3. QED
      BY <3>1, <3>2 DEF Upto
  <2> HIDE DEF P, R, at
  <2>4. \A v \in Operands(L[m]) : o.op \in Kinded => v # o.id
    <3>1. m \in DOMAIN L
      BY <1>1, <2>1
    <3>2. QED
      BY <3>1 DEF UsesOf
  <2>5. \A v, S, T : Has(P, v, S, T) /\ v \in Operands(L[m]) => Has(R, v, S, T)
    BY <2>3, <2>4 DEF Has, o
  <2>6. Shaped(L[m])
    BY <1>1, <2>1
  <2>7. L[m].val # NoValue => L[m].val \in Operands(L[m])
    BY DEF Operands
  <2>8. L[m].op = "join" => L[m].alt \in Operands(L[m])
    BY <2>6 DEF Operands, Shaped
  <2>9. Fits(R, L[m])
    BY <2>1, <2>2, <2>5, <2>6, <2>7, <2>8 DEF Fits
  <2>10. QED
    BY <2>1, <2>9 DEF R
<1>7. QED
  BY <1>2, <1>4, <1>5, <1>6 DEF Valid, M

(* What the list without its operation i has done where L has done n.      *)
Shown(L, M, env, n, C, X) ==
  LET s == After(L, env)[n]
      t == After(M, env)[n - 1]
  IN  /\ Agree(s, t, [v \in Ids |-> v], C, (Machine \cup s.done) \ X)
      /\ t.done \subseteq s.done

(* It goes on alike while the operations need neither the values X nor     *)
(* cells outside C.                                                        *)
Spared(env, o, C, X) ==
  /\ o.op \in {"read", "load"} => Cell(env, o.ref) \in C
  /\ o.op = "call" => Seen(env, o) \subseteq C
  /\ Operands(o) \cap X = {}

LEMMA RemovedStep ==
  ASSUME NEW env \in Environments, NEW L, Valid(L), NEW i \in 1..Len(L),
         NEW M, Valid(M), Len(M) = Len(L) - 1,
         \A k \in 1..(Len(L) - 1) : M[k] = IF k < i THEN L[k] ELSE L[k + 1],
         NEW n \in i..(Len(L) - 1), NEW C \in SUBSET Refs, NEW X,
         Shown(L, M, env, n, C, X), Spared(env, L[n + 1], C, X)
  PROVE  Shown(L, M, env, n + 1,
               C \cup {c \in Refs : Stores(env, After(L, env)[n], L[n + 1], c)}, X)
<1> DEFINE f == [v \in Ids |-> v]
           o == L[n + 1]
           s == After(L, env)[n]
           t == After(M, env)[n - 1]
           D == (Machine \cup s.done) \ X
           s2 == After(L, env)[n + 1]
           t2 == After(M, env)[n]
           C2 == C \cup {c \in Refs : Stores(env, s, o, c)}
<1>1. Listed(L) /\ Listed(M) /\ Len(L) \in Nat /\ \A k \in 1..Len(L) : Shaped(L[k])
  BY ValidLists
<1>2. /\ n \in 1..(Len(L) - 1) /\ n + 1 \in 1..Len(L) /\ (n + 1) - 1 = n /\ n \in 0..Len(L)
      /\ n - 1 \in 0..Len(M) /\ n \in 1..Len(M) /\ ~(n < i)
  BY <1>1
<1>3. M[n] = o /\ Shaped(o)
  BY <1>1, <1>2
<1>4. s \in States /\ t \in States /\ s2 = Execute(env, s, o) /\ t2 = Execute(env, t, o)
  BY <1>1, <1>2, <1>3, RunIs
<1>5. Agree(s, t, f, C, D) /\ t.done \subseteq s.done
  BY DEF Shown
<1>6. D \in SUBSET Ids
  BY <1>4, Numbers DEF States
<1>7. \A v \in Ids : f[v] = v
  OBVIOUS
<1>8. Runs(env, s, o) /\ Operand(env, o) # NoValue => Operand(env, o) \in Machine \cup s.done
  BY <1>2, Needs
<1>9. o.id \in Ids
  BY <1>3 DEF Shaped, Records, NewIds
<1> HIDE DEF o, s, t, D, s2, t2, f
<1>10. Effect(env, s, o, s2) /\ Effect(env, t, o, t2)
  BY <1>3, <1>4, Executes
<1>11. Spared(env, o, C, X)
  BY DEF o
<1>12. Runs(env, s, o) => Given(env, o, o, f, C, D)
  <2> SUFFICES ASSUME Runs(env, s, o) PROVE Given(env, o, o, f, C, D)
    OBVIOUS
  <2>1. Operand(env, o) # NoValue => Operand(env, o) \in Operands(o)
    BY DEF Operand, Operands
  <2>2. Operand(env, o) # NoValue => Operand(env, o) \in D
    BY <1>8, <1>11, <2>1 DEF Spared, D
  <2>3. Operand(env, o) # NoValue => Operand(env, o) = f[Operand(env, o)]
    BY <1>6, <1>7, <2>2
  <2>4. QED
    BY <1>11, <2>2, <2>3 DEF Given, Spared
<1>13. Alike(o, o) /\ \A v \in D : f[v] \in Ids
  BY <1>6, <1>7 DEF Alike
<1>14. o.op \in Kinded => f[o.id] = o.id /\ \A v \in D : v # o.id => f[v] # o.id
  BY <1>6, <1>7, <1>9
<1>15. /\ Results(env, t, o) <=> Results(env, s, o)
       /\ Agree(Execute(env, s, o), Execute(env, t, o), f,
                C \cup {c \in Refs : Stores(env, s, o, c)},
                D \cup {v \in {o.id} : Results(env, s, o)})
  BY <1>3, <1>4, <1>5, <1>6, <1>12, <1>13, <1>14, SameStep, SMTT(40)
<1>16. (Machine \cup s2.done) \ X \subseteq D \cup {v \in {o.id} : Results(env, s, o)}
  <2>1. s2.done = IF Results(env, s, o) THEN s.done \cup {o.id} ELSE s.done
    BY <1>10 DEF Effect
  <2>2. QED
    BY <2>1 DEF D
<1>17. Agree(s2, t2, f, C2, (Machine \cup s2.done) \ X)
  BY <1>4, <1>15, <1>16 DEF Agree
<1>18. t2.done \subseteq s2.done
  BY <1>5, <1>10, <1>15 DEF Effect
<1>19. QED
  BY <1>2, <1>17, <1>18 DEF Shown, s2, t2, f, s, o

LEMMA RemovedRuns ==
  ASSUME NEW env \in Environments, NEW L, Valid(L), NEW i \in 1..Len(L),
         NEW M, Valid(M), Len(M) = Len(L) - 1,
         \A k \in 1..(Len(L) - 1) : M[k] = IF k < i THEN L[k] ELSE L[k + 1],
         NEW m \in i..Len(L), NEW h \in m..Len(L), NEW C \in SUBSET Refs, NEW X,
         Shown(L, M, env, m, C, X),
         \A k \in (m + 1)..h : Spared(env, L[k], C, X)
  PROVE  Shown(L, M, env, h, C, X)
<1> DEFINE T == {n \in m..h : Shown(L, M, env, n, C, X)}
<1>1. Len(L) \in Nat /\ m \in Nat /\ h \in Nat
  BY ValidLists
<1>2. m \in T
  BY <1>1
<1>3. ASSUME NEW n \in m..(h - 1), n \in T PROVE n + 1 \in T
  <2>1. n \in i..(Len(L) - 1) /\ n + 1 \in (m + 1)..h /\ n + 1 \in m..h
    BY <1>1
  <2>2. Shown(L, M, env, n, C, X) /\ Spared(env, L[n + 1], C, X)
    BY <1>3, <2>1
  <2>3. Shown(L, M, env, n + 1,
              C \cup {c \in Refs : Stores(env, After(L, env)[n], L[n + 1], c)}, X)
    BY <2>1, <2>2, RemovedStep
  <2>4. Shown(L, M, env, n + 1, C, X)
    BY <2>3 DEF Shown, Agree
  <2>5. QED
    BY <2>1, <2>4
<1>4. \A n \in m..h : n \in T
  <2> HIDE DEF T
  <2>1. QED
    BY <1>1, <1>2, <1>3, Progress
<1>5. QED
  BY <1>1, <1>4

(* Where the operation was, the same state precedes.                       *)
LEMMA RemovedFrom ==
  ASSUME NEW env \in Environments, NEW L, Valid(L), NEW i \in 1..Len(L),
         NEW M, Valid(M), Len(M) = Len(L) - 1,
         \A k \in 1..(Len(L) - 1) : M[k] = IF k < i THEN L[k] ELSE L[k + 1]
  PROVE  After(M, env)[i - 1] = After(L, env)[i - 1]
<1>1. Listed(L) /\ Listed(M) /\ Len(L) \in Nat
  BY ValidLists
<1>2. i - 1 \in Nat /\ i - 1 <= Len(L) /\ i - 1 <= Len(M) /\ \A k \in 1..(i - 1) : M[k] = L[k]
  BY <1>1
<1>3. QED
  BY <1>1, <1>2, SamePrefix

LEMMA RemovedKeeps ==
  ASSUME NEW env \in Environments, NEW L, Valid(L), NEW M, Valid(M), Len(M) = Len(L) - 1,
         Whole(M) \subseteq Whole(L), NEW C, NEW X, Shared \subseteq C,
         \A q \in Whole(M) : q.op \in Kinded => q.id \notin X,
         Shown(L, M, env, Len(L), C, X)
  PROVE  Keeps(L, M, env)
<1> DEFINE s == Executed(L, env)
           t == Executed(M, env)
<1>1. Listed(L) /\ Len(L) \in Nat /\ \A q \in Whole(M) : q.id \in Ids
  <2>1. Listed(L) /\ Listed(M) /\ Len(L) \in Nat
    BY ValidLists
  <2>2. \A k \in 1..Len(M) : M[k] \in Records
    BY <2>1 DEF Listed
  <2>3. QED
    BY <2>1, <2>2 DEF Whole, Upto, Records, NewIds
<1>2. Agree(s, t, [v \in Ids |-> v], C, (Machine \cup s.done) \ X) /\ t.done \subseteq s.done
  BY DEF Shown, Executed
<1> HIDE DEF s, t
<1>3. ASSUME NEW q \in Whole(M), q.op \in Kinded, q.id \in t.done
      PROVE  \E p \in Whole(L) : /\ p.op \in Kinded /\ p.id \in s.done /\ p.type = q.type
                                 /\ t.val[q.id] = s.val[p.id]
  <2>1. q \in Whole(L) /\ q.id \in (Machine \cup s.done) \ X /\ q.id \in Ids
    BY <1>1, <1>2, <1>3
  <2>2. t.val[q.id] = s.val[q.id]
    BY <1>2, <2>1 DEF Agree
  <2>3. QED
    BY <1>2, <1>3, <2>1, <2>2
<1>4. QED
  BY <1>2, <1>3 DEF Keeps, Agree, s, t

-----------------------------------------------------------------------------
(* Unused operations and writes without consequence *)

LEMMA RemoveFacts ==
  ASSUME Valid(ops), NEW i \in DOMAIN ops,
         ops[i].op \notin Kinded \/ UsesOf(ops, ops[i].id) = {}
  PROVE  LET M == RemoveAt(ops, i) IN
         /\ i \in 1..Len(ops) /\ Len(ops) \in Nat /\ DOMAIN ops = 1..Len(ops)
         /\ \A n \in 1..Len(ops) : Shaped(ops[n])
         /\ Valid(M) /\ Len(M) = Len(ops) - 1
         /\ \A k \in 1..(Len(ops) - 1) : M[k] = IF k < i THEN ops[k] ELSE ops[k + 1]
         /\ Whole(M) \subseteq Whole(ops)
         /\ \A q \in Whole(M) : ops[i].op \in Kinded => q.id # ops[i].id
         /\ \A env \in Environments :
              LET s == After(ops, env)[i - 1]
                  s2 == After(ops, env)[i]
              IN  /\ s \in States /\ s2 = Execute(env, s, ops[i])
                  /\ After(M, env)[i - 1] = s
                  /\ Effect(env, s, ops[i], s2)
<1> DEFINE M == RemoveAt(ops, i)
<1>1. /\ ops \in Seq(Records) /\ Listed(ops) /\ Len(ops) \in Nat /\ DOMAIN ops = 1..Len(ops)
      /\ \A n \in 1..Len(ops) : Shaped(ops[n])
  BY ValidLists DEF Valid
<1>2. i \in 1..Len(ops) /\ i - 1 \in 0..Len(ops)
  BY <1>1
<1>3. /\ Len(M) = Len(ops) - 1
      /\ \A k \in 1..(Len(ops) - 1) : M[k] = IF k < i THEN ops[k] ELSE ops[k + 1]
  BY <1>1, <1>2, RemoveIs
<1>4. /\ Valid(M) /\ Whole(M) \subseteq Whole(ops)
      /\ \A q \in Whole(M) : ops[i].op \in Kinded => q.id # ops[i].id
  BY <1>2, RemoveValid
<1> HIDE DEF M
<1>5. ASSUME NEW env \in Environments
      PROVE  LET s == After(ops, env)[i - 1]
                 s2 == After(ops, env)[i]
             IN  /\ s \in States /\ s2 = Execute(env, s, ops[i])
                 /\ After(M, env)[i - 1] = s
                 /\ Effect(env, s, ops[i], s2)
  <2> DEFINE s == After(ops, env)[i - 1]
             s2 == After(ops, env)[i]
  <2>1. s \in States /\ s2 = Execute(env, s, ops[i])
    BY <1>1, <1>2, RunIs
  <2>2. After(M, env)[i - 1] = s
    BY <1>2, <1>3, <1>4, RemovedFrom
  <2> HIDE DEF s, s2
  <2>3. Shaped(ops[i])
    BY <1>1, <1>2
  <2>4. Effect(env, s, ops[i], s2)
    BY <2>1, <2>3, Executes
  <2>5. QED
    BY <2>1, <2>2, <2>4 DEF s, s2
<1>6. QED
  BY <1>1, <1>2, <1>3, <1>4, <1>5 DEF M

LEMMA EraseKeeps ==
  ASSUME Valid(ops), NEW i \in DOMAIN ops, TriviallyDead(i)
  PROVE  LET M == RemoveAt(ops, i) IN
         Valid(M) /\ \A env \in Environments : Keeps(ops, M, env)
<1> DEFINE M == RemoveAt(ops, i)
           o == ops[i]
           N == Len(ops)
           C == IF o.op = "object" THEN Shared ELSE Refs
           X == IF o.op = "object" THEN {} ELSE {o.id}
<1>1. UsesOf(ops, o.id) = {}
  BY DEF TriviallyDead
<1>2. /\ i \in 1..N /\ N \in Nat /\ DOMAIN ops = 1..N
      /\ \A n \in 1..N : Shaped(ops[n])
      /\ Valid(M) /\ Len(M) = N - 1
      /\ \A k \in 1..(N - 1) : M[k] = IF k < i THEN ops[k] ELSE ops[k + 1]
      /\ Whole(M) \subseteq Whole(ops)
      /\ \A q \in Whole(M) : o.op \in Kinded => q.id # o.id
  BY <1>1, RemoveFacts
<1>3. /\ o.op \in {"constant", "requalify", "join", "read", "object"}
      /\ o.op = "object" => UsersOf(ops, "x") = {}
  BY DEF TriviallyDead, MemoryEffectFree
<1>4. Shared \subseteq C /\ C \in SUBSET Refs
  BY DEF Shared, Refs
<1>5. ASSUME NEW k \in (i + 1)..N, NEW env \in Environments
      PROVE  Spared(env, ops[k], C, X)
  <2>1. k \in 1..N /\ Shaped(ops[k])
    BY <1>2
  <2>2. ops[k].refs \subseteq Refs /\ Shared \subseteq Refs
    BY <2>1 DEF Shaped, Records, Shared, Refs
  <2>3. Operands(ops[k]) \cap X = {}
    BY <1>1, <1>2, <2>1 DEF UsesOf
  <2>4. CASE o.op # "object"
    BY <2>1, <2>2, <2>3, <2>4, Cells DEF Shaped, Seen, Spared
  <2>5. CASE o.op = "object"
    <3>1. ops[k].op # "object" => ops[k].ref # "x" /\ "x" \notin ops[k].refs
      BY <1>2, <1>3, <2>1, <2>5 DEF UsersOf
    <3>2. \A r \in Refs : r # "x" => Cell(env, r) \in Shared
      BY Cells DEF Refs, Shared
    <3>3. Shared = Refs \ {"x"}
      BY DEF Shared, Refs
    <3>4. QED
      BY <2>1, <2>2, <2>3, <2>5, <3>1, <3>2, <3>3 DEF Shaped, Seen, Spared
  <2>6. QED
    BY <2>4, <2>5
<1>6. ASSUME NEW env \in Environments PROVE Keeps(ops, M, env)
  <2> DEFINE s == After(ops, env)[i - 1]
             s2 == After(ops, env)[i]
  <2>1. /\ s \in States /\ s2 = Execute(env, s, o) /\ After(M, env)[i - 1] = s
        /\ Effect(env, s, o, s2)
    BY <1>1, RemoveFacts
  <2> HIDE DEF s, s2, M, o, C, X
  <2>2. s.val \in [Ids -> Ids] /\ s.done \in SUBSET Ids /\ Machine \subseteq Ids /\ s.raised \in BOOLEAN
    BY <2>1, Numbers DEF States
  <2>3. s2.raised = s.raised /\ s2.trace = s.trace /\ \A c \in C : s2.mem[c] = s.mem[c]
    <3>1. \A c \in C : ~Stores(env, s, o, c)
      BY <1>3 DEF Stores, C, Shared
    <3>2. QED
      BY <1>3, <1>4, <2>1, <2>2, <3>1 DEF Effect
  <2>4. s.done \subseteq s2.done /\ s2.done \subseteq s.done \cup X
    BY <1>3, <2>1 DEF Effect, Results, Kinded, X
  <2>5. \A v \in Ids : v \notin X => s2.val[v] = s.val[v]
    <3>1. Results(env, s, o) => X = {o.id}
      BY <1>3 DEF Results, Kinded, X
    <3>2. QED
      BY <2>1, <3>1 DEF Effect
  <2>6. Agree(s2, s, [v \in Ids |-> v], C, (Machine \cup s2.done) \ X)
    BY <2>2, <2>3, <2>4, <2>5 DEF Agree
  <2>7. Shown(ops, M, env, i, C, X)
    BY <2>1, <2>4, <2>6 DEF Shown, s, s2
  <2>8. i \in i..N /\ N \in i..N
    BY <1>2
  <2>9. Shown(ops, M, env, N, C, X)
    BY <1>2, <1>4, <1>5, <2>7, <2>8, RemovedRuns
  <2>10. \A q \in Whole(M) : q.op \in Kinded => q.id \notin X
    BY <1>2, <1>3 DEF X, Kinded
  <2>11. QED
    BY <1>2, <1>4, <2>9, <2>10, RemovedKeeps
<1>7. QED
  BY <1>2, <1>6

LEMMA Earlier ==
  ASSUME NEW env \in Environments, NEW L, Valid(L), NEW i \in 1..Len(L), NEW j \in 1..(i - 1),
         Runs(env, After(L, env)[i - 1], L[i]), L[j].blk \in {1, L[i].blk}
  PROVE  LET r == After(L, env)[j - 1]
             s == After(L, env)[j]
             t == After(L, env)[i - 1]
         IN  /\ {r, s, t} \subseteq States
             /\ Runs(env, r, L[j]) /\ Effect(env, r, L[j], s) /\ Shaped(L[j])
             /\ \A u \in Machine \cup s.done : t.val[u] = s.val[u]
<1> DEFINE r == After(L, env)[j - 1]
           s == After(L, env)[j]
           t == After(L, env)[i - 1]
<1>1. Listed(L) /\ Len(L) \in Nat /\ \A k \in 1..Len(L) : Shaped(L[k])
  BY ValidLists
<1>2. /\ j \in 1..Len(L) /\ j \in 0..Len(L) /\ j - 1 \in 0..Len(L) /\ i - 1 \in j..Len(L)
      /\ i - 1 \in (j - 1)..Len(L) /\ i - 1 \in 0..Len(L)
  BY <1>1
<1>3. r \in States /\ s \in States /\ t \in States /\ s = Execute(env, r, L[j]) /\ Shaped(L[j])
  BY <1>1, <1>2, RunIs
<1>4. r.raised => t.raised
  BY <1>2, Stays
<1>5. \A u \in Machine \cup s.done : t.val[u] = s.val[u]
  BY <1>2, Stays
<1>6. Effect(env, r, L[j], s)
  BY <1>3, Executes
<1>7. Runs(env, r, L[j])
  BY <1>4 DEF Runs, Active
<1>8. QED
  BY <1>3, <1>5, <1>6, <1>7

LEMMA RestoresKeeps ==
  ASSUME Valid(ops), NEW i \in DOMAIN ops, ops[i].op = "write", Restores(i)
  PROVE  LET M == RemoveAt(ops, i) IN
         Valid(M) /\ \A env \in Environments : Keeps(ops, M, env)
<1> DEFINE M == RemoveAt(ops, i)
           o == ops[i]
           N == Len(ops)
<1>1. o.op \notin Kinded
  BY DEF Kinded
<1>2. /\ i \in 1..N /\ N \in Nat /\ DOMAIN ops = 1..N
      /\ \A n \in 1..N : Shaped(ops[n])
      /\ Valid(M) /\ Len(M) = N - 1
      /\ \A k \in 1..(N - 1) : M[k] = IF k < i THEN ops[k] ELSE ops[k + 1]
      /\ Whole(M) \subseteq Whole(ops)
  BY <1>1, RemoveFacts
<1>3. PICK j \in DefinerOf(ops, o.val) :
        /\ ops[j].op = "read" /\ ops[j].ref = o.ref /\ ops[j].blk = o.blk
        /\ \A k \in (j + 1)..(i - 1) : MemoryEffectFree(ops[k])
  BY DEF Restores, SameBlock, Between
<1>4. Shaped(o) /\ o.ref \in Refs /\ o.val # NoValue /\ Has(Upto(ops, i - 1), o.val, Scope(o), Takes(o))
  BY <1>2, ValidLists DEF Fits, Shaped
<1>5. j \in 1..(i - 1) /\ ops[j].id = o.val
  BY <1>2, <1>4, TheDefiner
<1>6. ASSUME NEW k \in (i + 1)..N, NEW env \in Environments
      PROVE  Spared(env, ops[k], Refs, {})
  <2>1. k \in 1..N /\ Shaped(ops[k])
    BY <1>2
  <2>2. ops[k].refs \subseteq Refs /\ Shared \subseteq Refs
    BY <2>1 DEF Shaped, Records, Shared, Refs
  <2>3. QED
    BY <2>1, <2>2, Cells DEF Shaped, Seen, Spared
<1>7. ASSUME NEW env \in Environments PROVE Keeps(ops, M, env)
  <2> DEFINE s == After(ops, env)[i - 1]
             s2 == After(ops, env)[i]
             r == After(ops, env)[j - 1]
             r2 == After(ops, env)[j]
             c == Cell(env, o.ref)
  <2>1. /\ s \in States /\ s2 = Execute(env, s, o) /\ After(M, env)[i - 1] = s
        /\ Effect(env, s, o, s2)
    BY <1>1, RemoveFacts
  <2>2. Runs(env, s, o) =>
          /\ {r, r2} \subseteq States /\ Runs(env, r, ops[j]) /\ Effect(env, r, ops[j], r2)
          /\ \A u \in Machine \cup r2.done : s.val[u] = r2.val[u]
    BY <1>2, <1>3, <1>5, Earlier
  <2>3. \A d \in Refs : s.mem[d] = r2.mem[d]
    <3>1. j \in 0..Len(ops) /\ i - 1 \in j..Len(ops)
      BY <1>2, <1>5
    <3>2. QED
      BY <1>3, <3>1, QuietSpan
  <2>4. c \in Refs /\ Cell(env, ops[j].ref) = c /\ ops[j].id \in Ids
    BY <1>2, <1>3, <1>4, <1>5, Cells DEF Shaped, Records, NewIds
  <2> HIDE DEF s, s2, r, r2, M, o, c
  <2>5. Runs(env, s, o) => s.val[o.val] = s.mem[c]
    <3> SUFFICES ASSUME Runs(env, s, o) PROVE s.val[o.val] = s.mem[c]
      OBVIOUS
    <3>1. Results(env, r, ops[j]) /\ ResultOf(env, r, ops[j]) = r.mem[c]
          /\ ~Stores(env, r, ops[j], c)
      BY <1>3, <2>2, <2>4 DEF Results, ResultOf, Stores, Kinded
    <3>2. r2.val[ops[j].id] = r.mem[c] /\ r2.mem[c] = r.mem[c] /\ ops[j].id \in r2.done
      BY <2>2, <2>4, <3>1 DEF Effect
    <3>3. QED
      BY <1>5, <2>2, <2>3, <2>4, <3>2
  <2>6. s.val \in [Ids -> Ids] /\ s.done \in SUBSET Ids /\ Machine \subseteq Ids /\ s.raised \in BOOLEAN
    BY <2>1, Numbers DEF States
  <2>7. o.op = "write"
    BY DEF o
  <2>8. s2.raised = s.raised /\ s2.trace = s.trace /\ s2.done = s.done
        /\ \A v \in Ids : s2.val[v] = s.val[v]
    BY <2>1, <2>6, <2>7 DEF Effect, Results, Kinded
  <2>9. ASSUME NEW d \in Refs PROVE s2.mem[d] = s.mem[d]
    <3>1. Stores(env, s, o, d) => Runs(env, s, o) /\ d = c /\ Stored(s, o, d) = s.val[o.val]
      BY <2>7 DEF Stores, Stored, c
    <3>2. QED
      BY <2>1, <2>5, <3>1 DEF Effect
  <2>10. Agree(s2, s, [v \in Ids |-> v], Refs, (Machine \cup s2.done) \ {})
    BY <2>6, <2>8, <2>9 DEF Agree
  <2>11. Shown(ops, M, env, i, Refs, {})
    BY <2>1, <2>8, <2>10 DEF Shown, s, s2
  <2>12. i \in i..N /\ N \in i..N /\ Refs \in SUBSET Refs /\ Shared \subseteq Refs
    BY <1>2 DEF Shared, Refs
  <2>13. Shown(ops, M, env, N, Refs, {})
    BY <1>2, <1>6, <2>11, <2>12, RemovedRuns
  <2>14. \A q \in Whole(M) : q.op \in Kinded => q.id \notin {}
    OBVIOUS
  <2>15. QED
    BY <1>2, <2>12, <2>13, <2>14, RemovedKeeps
<1>8. QED
  BY <1>2, <1>7

LEMMA OverwrittenKeeps ==
  ASSUME Valid(ops), NEW i \in DOMAIN ops, ops[i].op = "write", Overwritten(i)
  PROVE  LET M == RemoveAt(ops, i) IN
         Valid(M) /\ \A env \in Environments : Keeps(ops, M, env)
<1> DEFINE M == RemoveAt(ops, i)
           o == ops[i]
           N == Len(ops)
<1>1. o.op \notin Kinded
  BY DEF Kinded
<1>2. /\ i \in 1..N /\ N \in Nat /\ DOMAIN ops = 1..N
      /\ \A n \in 1..N : Shaped(ops[n])
      /\ Valid(M) /\ Len(M) = N - 1
      /\ \A k \in 1..(N - 1) : M[k] = IF k < i THEN ops[k] ELSE ops[k + 1]
      /\ Whole(M) \subseteq Whole(ops)
  BY <1>1, RemoveFacts
<1>3. PICK j \in (i + 1)..N :
        /\ ops[j].op = "write" /\ ops[j].ref = o.ref /\ ops[j].blk = o.blk
        /\ \A k \in (i + 1)..(j - 1) : MemoryEffectFree(ops[k])
  BY DEF Overwritten, SameBlock, Between, Pure
<1>4. Shaped(o) /\ o.ref \in Refs
  BY <1>2 DEF Shaped
<1>5. j - 1 \in i..N /\ j \in 1..N /\ i \in i..N /\ N \in i..N /\ j - 1 \in i..(N - 1) /\ j \in i..N
      /\ (j - 1) + 1 = j /\ N \in j..N /\ i \in 0..N
  BY <1>2, <1>3
<1>6. ASSUME NEW k \in 1..N, NEW env \in Environments
      PROVE  Spared(env, ops[k], Refs, {})
  <2>1. Shaped(ops[k])
    BY <1>2
  <2>2. ops[k].refs \subseteq Refs /\ Shared \subseteq Refs
    BY <2>1 DEF Shaped, Records, Shared, Refs
  <2>3. QED
    BY <2>1, <2>2, Cells DEF Shaped, Seen, Spared
<1>7. ASSUME NEW env \in Environments PROVE Keeps(ops, M, env)
  <2> DEFINE s == After(ops, env)[i - 1]
             s2 == After(ops, env)[i]
             c == Cell(env, o.ref)
             C == Refs \ {c}
             id == [v \in Ids |-> v]
  <2>1. /\ s \in States /\ s2 = Execute(env, s, o) /\ After(M, env)[i - 1] = s
        /\ Effect(env, s, o, s2)
    BY <1>1, RemoveFacts
  <2>2. c \in Refs /\ Cell(env, ops[j].ref) = c
    BY <1>3, <1>4, Cells
  <2>3. After(ops, env)[j - 1].raised = s2.raised
    BY <1>3, <1>5, QuietSpan
  <2> HIDE DEF s, s2, M, o, c
  <2>4. s.val \in [Ids -> Ids] /\ s.done \in SUBSET Ids /\ Machine \subseteq Ids /\ s.raised \in BOOLEAN
    BY <2>1, Numbers DEF States
  <2>5. o.op = "write"
    BY DEF o
  <2>6. s2.raised = s.raised /\ s2.trace = s.trace /\ s2.done = s.done
        /\ \A v \in Ids : s2.val[v] = s.val[v]
    BY <2>1, <2>4, <2>5 DEF Effect, Results, Kinded
  <2>7. \A d \in Refs : (Runs(env, s, o) /\ d = c) \/ s2.mem[d] = s.mem[d]
    <3>1. \A d \in Refs : Stores(env, s, o, d) => Runs(env, s, o) /\ d = c
      BY <2>5 DEF Stores, c
    <3>2. QED
      BY <2>1, <3>1 DEF Effect
  <2>8. \E m \in i..N : Shown(ops, M, env, m, Refs, {})
    <3>1. CASE ~Runs(env, s, o)
      <4>1. Agree(s2, s, id, Refs, (Machine \cup s2.done) \ {})
        BY <2>4, <2>6, <2>7, <3>1 DEF Agree
      <4>2. Shown(ops, M, env, i, Refs, {})
        BY <2>1, <2>6, <4>1 DEF Shown, s, s2
      <4>3. QED
        BY <1>5, <4>2
    <3>2. CASE Runs(env, s, o)
      <4>1. Agree(s2, s, id, C, (Machine \cup s2.done) \ {})
        BY <2>4, <2>6, <2>7 DEF Agree
      <4>2. Shown(ops, M, env, i, C, {})
        BY <2>1, <2>6, <4>1 DEF Shown, s, s2
      <4>3. \A k \in (i + 1)..(j - 1) : Spared(env, ops[k], C, {})
        BY <1>3 DEF MemoryEffectFree, Spared
      <4>4. C \in SUBSET Refs
        OBVIOUS
      <4> HIDE DEF C
      <4>5. Shown(ops, M, env, j - 1, C, {})
        BY <1>2, <1>5, <4>2, <4>3, <4>4, RemovedRuns
      <4>6. Spared(env, ops[j], C, {})
        BY <1>3 DEF Spared
      <4>7. Shown(ops, M, env, j,
                  C \cup {d \in Refs : Stores(env, After(ops, env)[j - 1], ops[j], d)}, {})
        <5> DEFINE n == j - 1
        <5>1. n \in i..(Len(ops) - 1) /\ n + 1 = j
          BY <1>5
        <5>2. Shown(ops, M, env, n, C, {}) /\ Spared(env, ops[n + 1], C, {})
          BY <4>5, <4>6, <5>1
        <5> HIDE DEF n
        <5>3. Shown(ops, M, env, n + 1,
                    C \cup {d \in Refs : Stores(env, After(ops, env)[n], ops[n + 1], d)}, {})
          BY <1>2, <4>4, <5>1, <5>2, RemovedStep
        <5>4. QED
          BY <5>1, <5>3 DEF n
      <4>8. Runs(env, After(ops, env)[j - 1], ops[j])
        BY <1>3, <2>3, <2>6, <3>2 DEF Runs, Active, o
      <4>9. Stores(env, After(ops, env)[j - 1], ops[j], c)
        BY <1>3, <2>2, <4>8 DEF Stores
      <4>10. Shown(ops, M, env, j, Refs, {})
        BY <2>2, <4>7, <4>9 DEF Shown, Agree, C
      <4>11. QED
        BY <1>5, <4>10
    <3>3. QED
      BY <3>1, <3>2
  <2>9. PICK m \in i..N : Shown(ops, M, env, m, Refs, {})
    BY <2>8
  <2>10. N \in m..N /\ Refs \in SUBSET Refs /\ Shared \subseteq Refs /\ \A k \in (m + 1)..N : k \in 1..N
    BY <1>2 DEF Shared, Refs
  <2>11. \A k \in (m + 1)..N : Spared(env, ops[k], Refs, {})
    BY <1>6, <2>10
  <2>12. Shown(ops, M, env, N, Refs, {})
    BY <1>2, <2>9, <2>10, <2>11, RemovedRuns
  <2>13. \A q \in Whole(M) : q.op \in Kinded => q.id \notin {}
    OBVIOUS
  <2>14. QED
    BY <1>2, <2>10, <2>12, <2>13, RemovedKeeps
<1>8. QED
  BY <1>2, <1>7

-----------------------------------------------------------------------------
(* Values in their types *)

(* Every value computed is in the subtype, or in B, as its type says.      *)
Held(L, env, B) ==
  LET t == Executed(L, env) IN
  \A q \in Whole(L) : q.op \in Kinded /\ q.id \in t.done =>
    t.val[q.id] \in (IF q.type = "nominal" THEN Nominal ELSE B)

LEMMA KeepsHeld ==
  ASSUME NEW env, NEW L, NEW M, Keeps(L, M, env), NEW B, Held(L, env, B)
  PROVE  Held(M, env, B)
<1> DEFINE s == Executed(L, env)
           t == Executed(M, env)
<1>1. \A q \in Whole(M) : q.op \in Kinded /\ q.id \in t.done =>
        \E p \in Whole(L) : /\ p.op \in Kinded /\ p.id \in s.done /\ p.type = q.type
                            /\ t.val[q.id] = s.val[p.id]
  BY DEF Keeps
<1>2. \A p \in Whole(L) : p.op \in Kinded /\ p.id \in s.done =>
        s.val[p.id] \in (IF p.type = "nominal" THEN Nominal ELSE B)
  BY DEF Held
<1> HIDE DEF s, t
<1>3. QED
  BY <1>1, <1>2 DEF Held, t

(* So is what an operation finds in its operand.                           *)
LEMMA OperandHeld ==
  ASSUME NEW env \in Environments, NEW L, Valid(L), NEW n \in 0..Len(L), NEW B, Nominal \subseteq B,
         Held(L, env, B), NEW v, NEW S, NEW T, Has(Upto(L, n), v, S, T),
         v \in Machine \cup After(L, env)[n].done
  PROVE  After(L, env)[n].val[v] \in (IF "base" \in T THEN B ELSE Nominal)
<1> DEFINE s == After(L, env)[n]
           t == Executed(L, env)
<1>1. Len(L) \in Nat /\ Len(L) \in n..Len(L) /\ t = After(L, env)[Len(L)]
  <2>1. Len(L) \in Nat
    BY ValidLists
  <2>2. QED
    BY <2>1 DEF Executed
<1>2. s.done \subseteq t.done /\ \A u \in Machine \cup s.done : t.val[u] = s.val[u]
  BY <1>1, Stays
<1>3. \A u \in Machine : s.val[u] = u
  BY Computes DEF Computed
<1> HIDE DEF s, t
<1>4. CASE v \in Nominal
  BY <1>3, <1>4, Numbers DEF s
<1>5. CASE v \notin Nominal
  <2>1. PICK j \in 1..n : L[j].op \in Kinded /\ L[j].id = v /\ L[j].type \in T
    BY <1>5 DEF Has, Upto
  <2>2. L[j] \in Whole(L) /\ v \notin Machine
    <3>1. j \in 1..Len(L) /\ L[j] \in Records
      BY <1>1, ValidLists
    <3>2. QED
      BY <2>1, <3>1 DEF Whole, Upto, Records, NewIds
  <2>3. v \in s.done /\ v \in t.done /\ s.val[v] = t.val[v]
    BY <1>2, <2>2 DEF s
  <2>4. t.val[v] \in (IF L[j].type = "nominal" THEN Nominal ELSE B)
    BY <2>1, <2>2, <2>3 DEF Held, t
  <2>5. L[j].type \in Types
    <3>1. L[j] \in Records
      BY <1>1, <2>1, ValidLists
    <3>2. QED
      BY <3>1 DEF Records, Types
  <2>6. QED
    BY <2>1, <2>3, <2>4, <2>5 DEF s, Types
<1>6. QED
  BY <1>4, <1>5

-----------------------------------------------------------------------------
(* The value of x at each operation *)

XWrite(o) == o.op = "write" /\ o.ref = "x"
XWrites(n, b) == {j \in 1..n : XWrite(ops[j]) /\ ops[j].blk = b}

(* x is declared first, as emitted, and what may be in the list with it.   *)
Early(L) ==
  /\ \A i \in 1..Len(L) :
       /\ L[i].op \notin {"alloca", "load", "store"}
       /\ IF L[i].op = "join" THEN L[i].id = JoinId ELSE L[i].id \in Fresh..(Fresh + MaxOps)
  /\ (\E i \in 1..Len(L) : L[i].op = "object") =>
       \A i \in 1..Len(L) : L[i].op \notin {"join", "constant"}

LEMMA ObjectFirst ==
  ASSUME NEW L, Valid(L), NEW i \in 1..Len(L), L[i].op = "object"
  PROVE  i = 1 /\ L[1].id = Fresh /\ L[1].blk = 1 /\ L[1].val \in Nominal \cup {NoValue}
<1>1. Fits(Upto(L, i - 1), L[i]) /\ Shaped(L[i]) /\ Len(L) \in Nat
  BY ValidLists
<1>2. Upto(L, i - 1) = {}
  BY <1>1 DEF Fits
<1>3. i = 1
  <2> SUFFICES ASSUME i # 1 PROVE FALSE
    OBVIOUS
  <2>1. 1 \in 1..(i - 1)
    BY <1>1
  <2>2. QED
    BY <1>2, <2>1 DEF Upto
<1>4. QED
  BY <1>1, <1>3 DEF Shaped

LEMMA LastWriteIs ==
  ASSUME Len(ops) \in Nat, NEW i \in 1..(Len(ops) + 1), NEW b
  PROVE  \/ LastWrite(i, b) = {} /\ XWrites(i - 1, b) = {}
         \/ \E j \in XWrites(i - 1, b) :
              LastWrite(i, b) = {j} /\ \A l \in XWrites(i - 1, b) : l <= j
<1> DEFINE W == XWrites(i - 1, b)
           n == i - 1
<1>1. n \in Nat /\ W \in SUBSET (0..n)
  BY DEF XWrites
<1>2. LastWrite(i, b) = {j \in W : \A l \in (j + 1)..n : l \notin W}
  BY <1>1 DEF LastWrite, XWrites, XWrite
<1> HIDE DEF W, n
<1>3. CASE W = {}
  BY <1>2, <1>3 DEF W, n
<1>4. CASE W # {}
  <2>1. PICK j \in W : \A l \in W : l <= j
    BY <1>1, <1>4, Greatest
  <2>2. LastWrite(i, b) = {j}
    <3>1. \A l \in (j + 1)..n : l \notin W
      BY <1>1, <2>1
    <3>2. ASSUME NEW k \in W, \A l \in (k + 1)..n : l \notin W PROVE k = j
      <4>1. k \in 0..n /\ j \in 0..n /\ k <= j /\ j \notin (k + 1)..n
        BY <1>1, <2>1, <3>2
      <4>2. QED
        BY <1>1, <4>1
    <3>3. QED
      BY <1>2, <3>1, <3>2
  <2>3. QED
    BY <2>1, <2>2 DEF W
<1>5. QED
  BY <1>3, <1>4

(* What leaves the entry block is the last definition there.               *)
LEMMA EntryIs ==
  ASSUME Valid(ops), NEW o \in DOMAIN ops, ops[o].op = "object",
         NEW c \in 1..Len(ops), c = 1 \/ (XWrite(ops[c]) /\ ops[c].blk = 1),
         \A l \in (c + 1)..Len(ops) : ~(XWrite(ops[l]) /\ ops[l].blk = 1)
  PROVE  LeavingEntry = ops[c].id
<1>1. Len(ops) \in Nat /\ DOMAIN ops = 1..Len(ops)
  BY ValidLists DEF Valid
<1>2. ops[1].op = "object" /\ ops[1].id = Fresh
  BY <1>1, ObjectFirst
<1> DEFINE i == Len(ops) + 1
           W == XWrites(i - 1, 1)
<1>3. i - 1 = Len(ops) /\ i \in 1..(Len(ops) + 1) /\ 1 \notin W
  BY <1>1, <1>2 DEF XWrites, XWrite
<1>4. \A l \in W : l <= c
  BY <1>1, <1>3 DEF XWrites
<1>5. CASE LastWrite(i, 1) = {} /\ W = {}
  <2>1. c = 1
    BY <1>3, <1>5 DEF XWrites
  <2>2. QED
    BY <1>2, <1>5, <2>1 DEF LeavingEntry
<1>6. ASSUME NEW j \in W, LastWrite(i, 1) = {j}, \A l \in W : l <= j
      PROVE  LeavingEntry = ops[c].id
  <2>1. c = 1 \/ c \in W
    BY <1>3 DEF XWrites
  <2>2. j \in 1..Len(ops) /\ j # 1
    BY <1>3, <1>6 DEF XWrites
  <2>3. j = c
    BY <1>1, <1>4, <1>6, <2>1, <2>2
  <2>4. LeavingEntry = ops[j].id
    BY <1>6 DEF LeavingEntry
  <2>5. QED
    BY <2>3, <2>4
<1> HIDE DEF i, W
<1>7. QED
  BY <1>1, <1>3, <1>5, <1>6, LastWriteIs DEF i, W

(* Operation c is the one that last gave x its value, after n of L.        *)
Current(L, env, n, c) ==
  /\ c \in 1..n /\ (c = 1 \/ XWrite(L[c])) /\ Active(env, L[c])
  /\ \A j \in (c + 1)..n : ~(XWrite(L[j]) /\ Active(env, L[j]))

LEMMA BlockOrder ==
  ASSUME NEW L, Valid(L)
  PROVE  /\ Len(L) \in Nat /\ DOMAIN L = 1..Len(L)
         /\ \A k \in 1..Len(L) : L[k].blk \in 1..3
         /\ \A k \in 1..Len(L), j \in 1..Len(L) : j < k => L[j].blk <= L[k].blk
<1>1. /\ L \in Seq(Records) /\ \A n \in 1..Len(L) : L[n] \in Records
      /\ \A k \in 1..Len(L), j \in 1..Len(L) : j < k => L[j].blk <= L[k].blk
  BY ValidLists DEF Valid
<1>2. QED
  BY <1>1 DEF Records

LEMMA EntryCurrent ==
  ASSUME Valid(ops), NEW o \in DOMAIN ops, ops[o].op = "object",
         NEW env \in Environments, NEW n \in 0..Len(ops), NEW c, Current(ops, env, n, c),
         ops[c].blk = 1, \A l \in (n + 1)..Len(ops) : ~(XWrite(ops[l]) /\ ops[l].blk = 1)
  PROVE  LeavingEntry = ops[c].id
<1>1. Len(ops) \in Nat /\ c \in 1..Len(ops) /\ (c = 1 \/ (XWrite(ops[c]) /\ ops[c].blk = 1))
  BY ValidLists DEF Current
<1>2. ASSUME NEW l \in (c + 1)..Len(ops), XWrite(ops[l]), ops[l].blk = 1 PROVE FALSE
  <2>1. Active(env, ops[l])
    BY <1>2 DEF Active
  <2>2. l \notin (c + 1)..n
    BY <1>2, <2>1 DEF Current
  <2>3. QED
    BY <1>1, <1>2, <2>2
<1>3. QED
  BY <1>1, <1>2, EntryIs

(* A read is given what defined x last, or the join of both paths.         *)
LEMMA Reaching ==
  ASSUME Valid(ops), NEW o \in DOMAIN ops, ops[o].op = "object",
         NEW env \in Environments, NEW n \in 1..(Len(ops) - 1), NEW c, Current(ops, env, n, c),
         Active(env, ops[n + 1])
  PROVE  LET r == ReachingDefinition(n + 1) IN
         \/ r = ops[c].id
         \/ /\ WriteIn(2) /\ ops[n + 1].blk = 3 /\ r = JoinId
            /\ \A j \in 1..n : XWrite(ops[j]) => ops[j].blk < 3
<1> DEFINE i == n + 1
           b == ops[i].blk
           W == XWrites(n, b)
           w == LastWrite(i, b)
           r == ReachingDefinition(i)
<1>1. /\ Len(ops) \in Nat /\ DOMAIN ops = 1..Len(ops) /\ n \in 0..Len(ops)
      /\ \A k \in 1..Len(ops) : ops[k].blk \in 1..3
      /\ \A k \in 1..Len(ops), j \in 1..Len(ops) : j < k => ops[j].blk <= ops[k].blk
  BY BlockOrder
<1>2. i \in 1..Len(ops) /\ i \in 1..(Len(ops) + 1) /\ i - 1 = n
  BY <1>1
<1>3. ops[1].id = Fresh /\ ops[1].blk = 1
  BY <1>1, ObjectFirst
<1>4. /\ c \in 1..n /\ (c = 1 \/ XWrite(ops[c])) /\ Active(env, ops[c])
      /\ \A j \in (c + 1)..n : ~(XWrite(ops[j]) /\ Active(env, ops[j]))
  BY DEF Current
<1>5. c \in 1..Len(ops) /\ ops[c].blk <= b /\ b \in 1..3 /\ ops[c].blk \in 1..3
  BY <1>1, <1>2, <1>4
<1>6. r = IF w = {} THEN Entering(b) ELSE ops[CHOOSE j \in w : TRUE].id
  BY DEF ReachingDefinition
<1>7. Active(env, ops[i])
  OBVIOUS
<1>8. \/ w = {} /\ W = {}
      \/ \E j \in W : w = {j} /\ \A l \in W : l <= j
  BY <1>1, <1>2, LastWriteIs
<1> HIDE DEF w, r
<1>9. CASE w = {} /\ W = {}
  <2>1. r = Entering(b)
    BY <1>6, <1>9
  <2>2. c = 1 \/ ops[c].blk # b
    BY <1>4, <1>9 DEF XWrites
  <2>3. ASSUME b # 1, ops[c].blk = 1 PROVE LeavingEntry = ops[c].id
    <3>1. ASSUME NEW l \in (n + 1)..Len(ops) PROVE ops[l].blk # 1
      BY <1>1, <1>2, <1>5, <2>3
    <3>2. QED
      BY <1>1, <2>3, <3>1, EntryCurrent
  <2>4. CASE b = 1
    BY <1>3, <1>5, <2>1, <2>2, <2>4 DEF Entering, r
  <2>5. CASE b = 2
    <3>1. ops[c].blk = 1
      BY <1>3, <1>5, <2>2, <2>5
    <3>2. QED
      BY <2>1, <2>3, <2>5, <3>1 DEF Entering, r
  <2>6. CASE b = 3 /\ WriteIn(2)
    <3>1. r = JoinId
      BY <2>1, <2>6 DEF Entering
    <3>2. \A j \in 1..n : XWrite(ops[j]) => ops[j].blk < 3
      BY <1>1, <1>2, <1>9, <2>6 DEF XWrites
    <3>3. QED
      BY <2>6, <3>1, <3>2 DEF r
  <2>7. CASE b = 3 /\ ~WriteIn(2)
    <3>1. ops[c].blk # 3
      BY <1>3, <2>2, <2>7
    <3>2. c # 1 => ops[c].blk # 2
      BY <1>1, <1>4, <1>5, <2>7 DEF WriteIn, XWrite
    <3>3. ops[c].blk = 1
      BY <1>3, <1>5, <3>1, <3>2
    <3>4. QED
      BY <2>1, <2>3, <2>7, <3>3 DEF Entering, r
  <2>8. QED
    BY <1>5, <2>4, <2>5, <2>6, <2>7
<1>10. ASSUME NEW j \in W, w = {j}, \A l \in W : l <= j
       PROVE  r = ops[c].id
  <2>1. j \in 1..n /\ XWrite(ops[j]) /\ ops[j].blk = b
    BY DEF XWrites
  <2>2. Active(env, ops[j])
    BY <1>7, <2>1 DEF Active
  <2>3. ~(j > c)
    BY <1>4, <2>1, <2>2
  <2>4. ~(c > j)
    <3> SUFFICES ASSUME c > j PROVE FALSE
      OBVIOUS
    <3>1. c # 1 /\ XWrite(ops[c])
      BY <1>4, <2>1
    <3>2. ops[c].blk = b
      BY <1>1, <1>2, <1>5, <2>1
    <3>3. c \in W
      BY <1>4, <3>1, <3>2 DEF XWrites
    <3>4. QED
      BY <1>4, <1>10, <2>1, <3>3
  <2>5. j = c
    BY <1>4, <2>1, <2>3, <2>4
  <2>6. QED
    BY <1>6, <1>10, <2>5
<1>11. QED
  BY <1>8, <1>9, <1>10 DEF r

(* Of the join, the operand on the path taken is what defined x last.      *)
LEMMA JoinOperand ==
  ASSUME Valid(ops), NEW o \in DOMAIN ops, ops[o].op = "object", WriteIn(2),
         NEW env \in Environments, NEW n \in 1..Len(ops), NEW c, Current(ops, env, n, c),
         \A i \in 1..Len(ops) : ops[i].blk < 3 <=> i <= n
  PROVE  ops[c].id = IF env.cond THEN LeavingBranch ELSE LeavingEntry
<1> DEFINE i == Len(ops) + 1
           W == XWrites(i - 1, 2)
           w == LastWrite(i, 2)
<1>1. /\ Len(ops) \in Nat /\ DOMAIN ops = 1..Len(ops) /\ n \in 0..Len(ops)
      /\ \A k \in 1..Len(ops) : ops[k].blk \in 1..3
      /\ \A k \in 1..Len(ops), j \in 1..Len(ops) : j < k => ops[j].blk <= ops[k].blk
  BY BlockOrder
<1>2. i - 1 = Len(ops) /\ i \in 1..(Len(ops) + 1)
  BY <1>1
<1>3. ops[1].id = Fresh /\ ops[1].blk = 1
  BY <1>1, ObjectFirst
<1>4. /\ c \in 1..n /\ c \in 1..Len(ops) /\ (c = 1 \/ XWrite(ops[c])) /\ Active(env, ops[c])
      /\ \A j \in (c + 1)..n : ~(XWrite(ops[j]) /\ Active(env, ops[j]))
  BY <1>1 DEF Current
<1>5. /\ \A j \in W : j \in 1..n /\ XWrite(ops[j]) /\ ops[j].blk = 2
      /\ \A j \in 1..n : XWrite(ops[j]) /\ ops[j].blk = 2 => j \in W
  BY <1>1, <1>2 DEF XWrites
<1>6. W # {}
  BY <1>1, <1>2 DEF WriteIn, XWrites, XWrite
<1>7. PICK j \in W : w = {j} /\ \A l \in W : l <= j
  BY <1>1, <1>2, <1>6, LastWriteIs
<1> HIDE DEF w, W
<1>8. CASE env.cond
  <2>1. LeavingBranch = ops[j].id
    BY <1>7 DEF LeavingBranch, w
  <2>2. Active(env, ops[j])
    BY <1>8 DEF Active
  <2>3. ~(j > c)
    BY <1>4, <1>5, <2>2
  <2>4. ~(c > j)
    <3> SUFFICES ASSUME c > j PROVE FALSE
      OBVIOUS
    <3>1. c # 1 /\ XWrite(ops[c]) /\ j \in 1..Len(ops) /\ ops[j].blk = 2 /\ ops[c].blk < 3
      BY <1>1, <1>4, <1>5
    <3>2. ops[c].blk = 2
      BY <1>1, <1>4, <3>1
    <3>3. QED
      BY <1>4, <1>5, <1>7, <3>1, <3>2
  <2>5. j = c
    BY <1>4, <1>5, <2>3, <2>4
  <2>6. QED
    BY <1>8, <2>1, <2>5
<1>9. CASE ~env.cond
  <2>1. ops[c].blk = 1
    BY <1>1, <1>4, <1>9 DEF Active
  <2>2. \A l \in (n + 1)..Len(ops) : ops[l].blk # 1
    BY <1>1
  <2>3. QED
    BY <1>1, <1>9, <2>1, <2>2, EntryCurrent
<1>10. QED
  BY <1>8, <1>9

-----------------------------------------------------------------------------
(* The list after promotion *)

LEMMA DefaultIs ==
  ASSUME NEW k \in Kinds
  PROVE  /\ BaseValues(k) \subseteq Machine /\ Nominal \cup {Unset} \subseteq BaseValues(k)
         /\ Default(k) \in BaseValues(k)
<1>1. /\ k.form \in {"int", "dynamic", "enum", "float", "missing", "array"}
      /\ k.form = "int" => {k.lo, k.hi} \subseteq Machine
      /\ k.form = "enum" => k.values \in Seq(Machine)
      /\ Nominal \cup {Unset} \subseteq BaseValues(k)
  BY KindsAssumption
<1>2. MaxMachine \in Nat
  BY Numbers
<1>3. CASE k.form = "int"
  <2>1. BaseValues(k) = k.lo .. k.hi
    BY <1>3 DEF BaseValues
  <2>2. Default(k) = IF 0 \notin k.lo .. k.hi THEN k.lo ELSE 0
    BY <1>3 DEF Default
  <2>3. Unset \in k.lo .. k.hi
    BY <1>1, <2>1
  <2>4. k.lo \in Nat /\ k.hi \in Nat /\ k.hi <= MaxMachine
    BY <1>1, <1>2, <1>3 DEF Machine
  <2>5. k.lo \in k.lo .. k.hi
    BY <2>3, <2>4
  <2>6. BaseValues(k) \subseteq Machine
    BY <1>2, <2>1, <2>4 DEF Machine
  <2>7. QED
    BY <1>1, <2>1, <2>2, <2>5, <2>6
<1>4. CASE k.form = "enum" /\ k.values # <<>>
  <2>1. BaseValues(k) = ToSet(k.values)
    BY <1>4 DEF BaseValues
  <2>2. Default(k) = IF ~Contains(k.values, 0) THEN Head(k.values) ELSE 0
    BY <1>4 DEF Default
  <2>3. k.values \in Seq(Machine) /\ Len(k.values) \in Nat /\ Len(k.values) # 0
        /\ DOMAIN k.values = 1..Len(k.values)
    BY <1>1, <1>4, EmptySeq
  <2>4. Head(k.values) = k.values[1] /\ 1 \in 1..Len(k.values)
    BY <2>3
  <2>5. \A i \in 1..Len(k.values) : k.values[i] \in Machine
    BY <2>3
  <2>6. Default(k) \in ToSet(k.values)
    BY <2>2, <2>3, <2>4 DEF ToSet, Contains
  <2>7. ToSet(k.values) \subseteq Machine
    BY <2>3, <2>5 DEF ToSet
  <2>8. QED
    BY <1>1, <2>1, <2>6, <2>7
<1>5. CASE ~(k.form = "int") /\ ~(k.form = "enum" /\ k.values # <<>>)
  <2>1. BaseValues(k) = Machine /\ Default(k) = 0
    BY <1>5 DEF BaseValues, Default
  <2>2. QED
    BY <1>1, <2>1, Numbers
<1>6. QED
  BY <1>3, <1>4, <1>5

LEMMA JoinStarts ==
  ASSUME Valid(ops), NEW o \in DOMAIN ops, ops[o].op = "object"
  PROVE  /\ StartOfJoin \in 2..(Len(ops) + 1)
         /\ \A i \in 1..Len(ops) : ops[i].blk < 3 <=> i < StartOfJoin
<1>1. /\ Len(ops) \in Nat /\ DOMAIN ops = 1..Len(ops)
      /\ \A k \in 1..Len(ops) : ops[k].blk \in 1..3
      /\ \A k \in 1..Len(ops), j \in 1..Len(ops) : j < k => ops[j].blk <= ops[k].blk
  BY BlockOrder
<1>2. ops[1].blk = 1 /\ 1 \in 1..Len(ops)
  BY <1>1, ObjectFirst
<1> DEFINE T == {n \in 1..(Len(ops) + 1) : n \in 1..Len(ops) => ops[n].blk = 3}
           R(p) == \A i \in 1..Len(ops) : ops[i].blk < 3 <=> i < p
<1>3. Len(ops) + 1 \in T /\ T \in SUBSET Nat
  BY <1>1
<1> HIDE DEF T
<1>4. PICK p \in T : \A q \in T : p <= q
  BY <1>3, LeastNat
<1> USE DEF T
<1>5. p \in 1..(Len(ops) + 1) /\ (p \in 1..Len(ops) => ops[p].blk = 3)
  BY <1>4
<1>6. ASSUME NEW i \in 1..Len(ops) PROVE ops[i].blk < 3 <=> i < p
  <2>1. CASE i < p
    <3>1. i \notin T
      BY <1>1, <1>4, <1>5, <2>1
    <3>2. QED
      BY <1>1, <2>1, <3>1
  <2>2. CASE ~(i < p)
    <3>1. p \in 1..Len(ops) /\ (p = i \/ p < i)
      BY <1>1, <1>5, <2>2
    <3>2. QED
      BY <1>1, <1>5, <2>2, <3>1
  <2>3. QED
    BY <2>1, <2>2
<1> HIDE DEF T
<1>7. \E n \in 1..(Len(ops) + 1) : R(n)
  BY <1>5, <1>6
<1>8. StartOfJoin = CHOOSE n \in 1..(Len(ops) + 1) : R(n)
  BY <1>1 DEF StartOfJoin
<1>9. StartOfJoin \in 1..(Len(ops) + 1) /\ R(StartOfJoin)
  <2> HIDE DEF R
  <2>1. QED
    BY <1>7, <1>8
<1>10. StartOfJoin # 1
  BY <1>2, <1>9
<1>11. QED
  BY <1>1, <1>9, <1>10

LEMMA InsertIs ==
  ASSUME NEW L \in Seq(Records), NEW p \in 1..(Len(L) + 1), NEW q \in Records
  PROVE  LET M == InsertAt(L, p, q) IN
         /\ M \in Seq(Records) /\ Len(M) = Len(L) + 1 /\ Len(L) \in Nat
         /\ M[p] = q
         /\ \A k \in 1..Len(L) : k < p => M[k] = L[k]
         /\ \A k \in 1..Len(L) : k >= p => M[k + 1] = L[k]
<1> DEFINE A == SubSeq(L, 1, p - 1)
           B == SubSeq(L, p, Len(L))
           C == A \o <<q>>
           N == Len(L)
<1>1. N \in Nat /\ p \in Nat /\ p <= N + 1 /\ p >= 1
  OBVIOUS
<1>2. /\ A \in Seq(Records) /\ Len(A) = p - 1 /\ \A k \in 1..(p - 1) : A[k] = L[k]
  BY <1>1
<1>3. /\ B \in Seq(Records) /\ Len(B) = N - p + 1 /\ \A k \in 1..(N - p + 1) : B[k] = L[p + k - 1]
  BY <1>1
<1> HIDE DEF A, B
<1>4. /\ C \in Seq(Records) /\ Len(C) = p /\ C[p] = q /\ \A k \in 1..(p - 1) : C[k] = A[k]
  <2>1. <<q>> \in Seq(Records) /\ Len(<<q>>) = 1 /\ <<q>>[1] = q
    OBVIOUS
  <2>2. /\ C \in Seq(Records) /\ Len(C) = Len(A) + 1
        /\ \A k \in 1..(Len(A) + 1) : C[k] = IF k <= Len(A) THEN A[k] ELSE <<q>>[k - Len(A)]
    BY <1>2, <2>1, ConcatProperties
  <2> HIDE DEF C
  <2>3. p \in 1..(Len(A) + 1) /\ ~(p <= Len(A)) /\ p - Len(A) = 1
    BY <1>1, <1>2
  <2>4. C[p] = q
    BY <2>1, <2>2, <2>3
  <2>5. QED
    BY <1>1, <1>2, <2>2, <2>4
<1> HIDE DEF C
<1>5. /\ C \o B \in Seq(Records) /\ Len(C \o B) = p + (N - p + 1)
      /\ \A k \in 1..(p + (N - p + 1)) : (C \o B)[k] = IF k <= p THEN C[k] ELSE B[k - p]
  <2>1. /\ C \o B \in Seq(Records) /\ Len(C \o B) = Len(C) + Len(B)
        /\ \A k \in 1..(Len(C) + Len(B)) :
             (C \o B)[k] = IF k <= Len(C) THEN C[k] ELSE B[k - Len(C)]
    BY <1>3, <1>4, ConcatProperties
  <2>2. QED
    BY <1>3, <1>4, <2>1
<1>6. Len(C \o B) = N + 1 /\ (C \o B)[p] = q
  BY <1>1, <1>4, <1>5
<1>7. ASSUME NEW k \in 1..N, k < p PROVE (C \o B)[k] = L[k]
  <2>1. k \in 1..(p - 1) /\ k \in 1..(p + (N - p + 1)) /\ k <= p
    BY <1>1, <1>7
  <2>2. QED
    BY <1>2, <1>4, <1>5, <2>1
<1>8. ASSUME NEW k \in 1..N, k >= p PROVE (C \o B)[k + 1] = L[k]
  <2>1. /\ k + 1 \in 1..(p + (N - p + 1)) /\ ~(k + 1 <= p) /\ (k + 1) - p \in 1..(N - p + 1)
        /\ p + ((k + 1) - p) - 1 = k
    BY <1>1, <1>8
  <2>2. QED
    BY <1>3, <1>5, <2>1
<1>9. InsertAt(L, p, q) = C \o B
  BY DEF InsertAt, A, B, C
<1>10. QED
  BY <1>1, <1>5, <1>6, <1>7, <1>8, <1>9

XRead(o) == o.op = "read" /\ o.ref = "x"
Defines(o) == o.op = "object" \/ XWrite(o)

LEMMA LeavingNamed ==
  ASSUME Valid(ops), NEW o \in DOMAIN ops, ops[o].op = "object"
  PROVE  /\ \E j \in 1..Len(ops) : Defines(ops[j]) /\ ops[j].blk = 1 /\ LeavingEntry = ops[j].id
         /\ WriteIn(2) => \E j \in 1..Len(ops) :
                            XWrite(ops[j]) /\ ops[j].blk = 2 /\ LeavingBranch = ops[j].id
<1> DEFINE i == Len(ops) + 1
           w(b) == LastWrite(i, b)
           W(b) == XWrites(i - 1, b)
<1>1. Len(ops) \in Nat /\ DOMAIN ops = 1..Len(ops)
  BY BlockOrder
<1>2. ops[1].id = Fresh /\ ops[1].blk = 1 /\ ops[1].op = "object" /\ 1 \in 1..Len(ops)
  BY <1>1, ObjectFirst
<1>3. i \in 1..(Len(ops) + 1) /\ i - 1 = Len(ops)
  BY <1>1
<1>4. \A b : \/ w(b) = {} /\ W(b) = {}
             \/ \E j \in W(b) : w(b) = {j}
  BY <1>1, <1>3, LastWriteIs
<1>5. \A b : \A j \in W(b) : j \in 1..Len(ops) /\ XWrite(ops[j]) /\ ops[j].blk = b
  BY <1>3 DEF XWrites
<1>6. LeavingEntry = IF w(1) = {} THEN Fresh ELSE ops[CHOOSE j \in w(1) : TRUE].id
  BY DEF LeavingEntry
<1>7. LeavingBranch = ops[CHOOSE j \in w(2) : TRUE].id
  BY DEF LeavingBranch
<1>8. WriteIn(2) => W(2) # {}
  BY <1>1, <1>3 DEF WriteIn, XWrites, XWrite
<1> HIDE DEF w, W
<1>9. \E j \in 1..Len(ops) : Defines(ops[j]) /\ ops[j].blk = 1 /\ LeavingEntry = ops[j].id
  <2>1. CASE w(1) = {}
    BY <1>2, <1>6, <2>1 DEF Defines
  <2>2. CASE w(1) # {}
    <3>1. PICK j \in W(1) : w(1) = {j}
      BY <1>4, <2>2
    <3>2. LeavingEntry = ops[j].id
      BY <1>6, <3>1
    <3>3. QED
      BY <1>5, <3>2 DEF Defines
  <2>3. QED
    BY <2>1, <2>2
<1>10. ASSUME WriteIn(2)
       PROVE  \E j \in 1..Len(ops) : XWrite(ops[j]) /\ ops[j].blk = 2 /\ LeavingBranch = ops[j].id
  <2>1. PICK j \in W(2) : w(2) = {j}
    BY <1>4, <1>8, <1>10
  <2>2. LeavingBranch = ops[j].id
    BY <1>7, <2>1
  <2>3. QED
    BY <1>5, <2>2
<1>11. QED
  BY <1>9, <1>10

(* A read names an operation that defines x and is visible to it.          *)
LEMMA ReachingNamed ==
  ASSUME Valid(ops), NEW o \in DOMAIN ops, ops[o].op = "object", NEW i \in 2..Len(ops)
  PROVE  LET r == ReachingDefinition(i) IN
         \/ \E j \in 1..(i - 1) :
              Defines(ops[j]) /\ ops[j].blk \in {1, ops[i].blk} /\ r = ops[j].id
         \/ WriteIn(2) /\ ops[i].blk = 3 /\ r = JoinId
<1> DEFINE b == ops[i].blk
           W == XWrites(i - 1, b)
           w == LastWrite(i, b)
           r == ReachingDefinition(i)
           Named == \E j \in 1..(i - 1) :
                      Defines(ops[j]) /\ ops[j].blk \in {1, b} /\ r = ops[j].id
<1>1. /\ Len(ops) \in Nat /\ DOMAIN ops = 1..Len(ops)
      /\ \A k \in 1..Len(ops) : ops[k].blk \in 1..3
      /\ \A k \in 1..Len(ops), j \in 1..Len(ops) : j < k => ops[j].blk <= ops[k].blk
  BY BlockOrder
<1>2. i \in 1..Len(ops) /\ i \in 1..(Len(ops) + 1) /\ i - 1 \in Nat /\ b \in 1..3
  BY <1>1
<1>3. ops[1].id = Fresh /\ ops[1].blk = 1 /\ ops[1].op = "object" /\ 1 \in 1..(i - 1)
  BY <1>1, ObjectFirst
<1>4. r = IF w = {} THEN Entering(b) ELSE ops[CHOOSE j \in w : TRUE].id
  BY DEF ReachingDefinition
<1>5. w = {} \/ \E j \in W : w = {j}
  BY <1>1, <1>2, LastWriteIs
<1> HIDE DEF w, r
<1>6. ASSUME NEW j \in W, w = {j} PROVE Named
  <2>1. j \in 1..(i - 1) /\ XWrite(ops[j]) /\ ops[j].blk = b
    BY DEF XWrites
  <2>2. r = ops[j].id
    BY <1>4, <1>6
  <2>3. QED
    BY <2>1, <2>2 DEF Defines
<1>7. ASSUME b # 1, r = LeavingEntry PROVE Named
  <2>1. PICK j \in 1..Len(ops) : Defines(ops[j]) /\ ops[j].blk = 1 /\ LeavingEntry = ops[j].id
    BY LeavingNamed
  <2>2. j \in 1..(i - 1)
    BY <1>1, <1>2, <1>7, <2>1
  <2>3. QED
    BY <1>7, <2>1, <2>2
<1>8. ASSUME w = {} PROVE Named \/ (WriteIn(2) /\ b = 3 /\ r = JoinId)
  <2>1. r = Entering(b)
    BY <1>4, <1>8
  <2>2. CASE b = 1
    <3>1. r = ops[1].id
      BY <1>3, <2>1, <2>2 DEF Entering
    <3>2. QED
      BY <1>3, <3>1 DEF Defines
  <2>3. CASE b = 2
    BY <1>7, <2>1, <2>3 DEF Entering
  <2>4. CASE b = 3
    <3>1. r = IF WriteIn(2) THEN JoinId ELSE LeavingEntry
      BY <2>1, <2>4 DEF Entering
    <3>2. CASE WriteIn(2)
      BY <2>4, <3>1, <3>2
    <3>3. CASE ~WriteIn(2)
      BY <1>7, <2>4, <3>1, <3>3
    <3>4. QED
      BY <3>2, <3>3
  <2>5. QED
    BY <1>2, <2>2, <2>3, <2>4
<1>9. QED
  BY <1>5, <1>6, <1>8 DEF r

Constant(id, v) == [Operation("constant", id, 1) EXCEPT !.val = v, !.type = "base"]

LEMMA ConstantIs ==
  ASSUME NEW id \in NewIds, NEW v \in Machine
  PROVE  LET q == Constant(id, v) IN
         /\ q \in Records /\ Shaped(q)
         /\ q.op = "constant" /\ q.op \in Kinded
         /\ q.id = id /\ q.blk = 1 /\ q.val = v /\ q.alt = NoValue /\ q.type = "base"
<1> DEFINE a == Operation("constant", id, 1)
           b == [a EXCEPT !.val = v]
           c == [op |-> "constant", id |-> id, blk |-> 1, ref |-> None, refs |-> {},
                 val |-> v, alt |-> NoValue, type |-> "base"]
           q == Constant(id, v)
<1>1. q = c
  <2>1. a = [op |-> "constant", id |-> id, blk |-> 1, ref |-> None, refs |-> {},
             val |-> NoValue, alt |-> NoValue, type |-> "nominal"]
    BY DEF Operation
  <2>2. q = [b EXCEPT !.type = "base"]
    BY DEF Constant
  <2> HIDE DEF a
  <2>3. b = [op |-> "constant", id |-> id, blk |-> 1, ref |-> None, refs |-> {},
             val |-> v, alt |-> NoValue, type |-> "nominal"]
    BY <2>1
  <2> HIDE DEF b
  <2>4. [b EXCEPT !.type = "base"] = c
    BY <2>3
  <2> HIDE DEF q, c
  <2>5. QED
    BY <2>2, <2>4
<1>2. v # NoValue /\ v \in Vals
  BY Numbers DEF Vals
<1>3. c \in Records /\ Shaped(c)
  BY <1>2 DEF Records, Shaped, Kinded, Vals, OpNames
<1> HIDE DEF q
<1>4. QED
  BY <1>1, <1>3 DEF Kinded, q

(* Operation i is replaced by one of the same name in the same block.      *)
Replaces(i, k, q) ==
  LET o == ops[i] IN
  /\ q \in Records /\ Shaped(q) /\ q.id = o.id /\ q.blk = o.blk
  /\ Defines(o) => /\ q.op \in {"constant", "requalify"} /\ q.type = "base" /\ q.alt = NoValue
                   /\ q.val = IF o.val = NoValue THEN Default(k) ELSE o.val
  /\ XRead(o) => /\ q.op = "requalify" /\ q.type = o.type /\ q.alt = NoValue
                 /\ q.val = ReachingDefinition(i)
  /\ ~Defines(o) /\ ~XRead(o) => q = o

LEMMA PromotedIs ==
  ASSUME Valid(ops), NEW o \in DOMAIN ops, ops[o].op = "object",
         NEW i \in 1..Len(ops), NEW k \in Kinds
  PROVE  Replaces(i, k, PromotedOp(i, k))
<1> DEFINE p == ops[i]
           q == PromotedOp(i, k)
<1>1. /\ Len(ops) \in Nat /\ DOMAIN ops = 1..Len(ops)
      /\ \A n \in 1..Len(ops) : ops[n] \in Records /\ Shaped(ops[n])
  BY ValidLists DEF Valid
<1>2. p \in Records /\ Shaped(p) /\ p.id \in NewIds /\ p.type \in Types
  BY <1>1 DEF Records, Types
<1>3. Default(k) \in Machine /\ Default(k) # NoValue
  BY DefaultIs, Numbers
<1>4. CASE p.op = "object"
  <2>1. p.blk = 1 /\ p.val \in Nominal \cup {NoValue} /\ Defines(p) /\ ~XRead(p)
    BY <1>2, <1>4 DEF Shaped, Defines, XRead
  <2>2. CASE p.val = NoValue
    <3>1. q = Constant(p.id, Default(k))
      BY <1>4, <2>2 DEF PromotedOp, Constant
    <3> HIDE DEF q
    <3>2. /\ q \in Records /\ Shaped(q) /\ q.op = "constant"
          /\ q.id = p.id /\ q.blk = 1 /\ q.val = Default(k) /\ q.alt = NoValue /\ q.type = "base"
      BY <1>2, <1>3, <3>1, ConstantIs
    <3>3. QED
      BY <2>1, <2>2, <3>2 DEF Replaces, q
  <2>3. CASE p.val # NoValue
    <3>1. q = Requalify(p, p.val, "base") /\ p.val \in Ids
      BY <1>4, <2>1, <2>3, Numbers DEF PromotedOp
    <3> HIDE DEF q
    <3>2. /\ q \in Records /\ Shaped(q) /\ q.op = "requalify"
          /\ q.id = p.id /\ q.blk = p.blk /\ q.val = p.val /\ q.alt = NoValue /\ q.type = "base"
      BY <1>2, <3>1, RequalifyIs DEF Types
    <3>3. QED
      BY <2>1, <2>3, <3>2 DEF Replaces, q
  <2>4. QED
    BY <2>2, <2>3
<1>5. CASE XWrite(p)
  <2>1. p.op = "write" /\ p.ref = "x" /\ p.val # NoValue /\ p.val \in Ids /\ Defines(p) /\ ~XRead(p)
    BY <1>2, <1>5 DEF XWrite, Shaped, Records, Vals, Defines, XRead
  <2>2. q = Requalify(p, p.val, "base")
    BY <2>1 DEF PromotedOp
  <2> HIDE DEF q
  <2>3. /\ q \in Records /\ Shaped(q) /\ q.op = "requalify"
        /\ q.id = p.id /\ q.blk = p.blk /\ q.val = p.val /\ q.alt = NoValue /\ q.type = "base"
    BY <1>2, <2>1, <2>2, RequalifyIs DEF Types
  <2>4. QED
    BY <2>1, <2>3 DEF Replaces, q
<1>6. CASE XRead(p)
  <2>1. p.op = "read" /\ p.ref = "x" /\ ~Defines(p)
    BY <1>6 DEF XRead, Defines, XWrite
  <2>2. q = Requalify(p, ReachingDefinition(i), p.type)
    BY <2>1 DEF PromotedOp
  <2>3. i \in 2..Len(ops)
    <3>1. ops[1].op = "object"
      BY <1>1, ObjectFirst
    <3>2. QED
      BY <1>1, <2>1, <3>1
  <2>4. ReachingDefinition(i) \in Ids
    <3>1. \A j \in 1..(i - 1) : ops[j].id \in Ids
      BY <1>1 DEF Records, NewIds
    <3>2. JoinId \in Ids
      BY Numbers DEF NewIds
    <3>3. QED
      BY <2>3, <3>1, <3>2, ReachingNamed
  <2> HIDE DEF q
  <2>5. /\ q \in Records /\ Shaped(q) /\ q.op = "requalify" /\ q.id = p.id /\ q.blk = p.blk
        /\ q.val = ReachingDefinition(i) /\ q.alt = NoValue /\ q.type = p.type
    BY <1>2, <2>2, <2>4, RequalifyIs
  <2>6. QED
    BY <1>6, <2>1, <2>5 DEF Replaces, q
<1>7. CASE ~(p.op = "object") /\ ~XWrite(p) /\ ~XRead(p)
  <2>1. q = p
    BY <1>7 DEF PromotedOp, XWrite, XRead
  <2>2. QED
    BY <1>2, <1>7, <2>1 DEF Replaces, Defines
<1>8. QED
  BY <1>4, <1>5, <1>6, <1>7

(* The list before the requalifications that change nothing are dropped.   *)
Unsettled(k) ==
  LET each == [i \in DOMAIN ops |-> PromotedOp(i, k)] IN
  IF WriteIn(2) THEN InsertAt(each, StartOfJoin, Join) ELSE each
Place(i) == IF WriteIn(2) /\ i >= StartOfJoin THEN i + 1 ELSE i

LEMMA JoinIs ==
  ASSUME Valid(ops), NEW o \in DOMAIN ops, ops[o].op = "object", WriteIn(2)
  PROVE  /\ Join \in Records /\ Shaped(Join)
         /\ Join.op = "join" /\ Join.id = JoinId /\ Join.blk = 3 /\ Join.type = "base"
         /\ Join.val = LeavingBranch /\ Join.alt = LeavingEntry
<1> DEFINE a == Operation("join", JoinId, 3)
           b == [a EXCEPT !.val = LeavingBranch]
           c == [b EXCEPT !.alt = LeavingEntry]
           d == [op |-> "join", id |-> JoinId, blk |-> 3, ref |-> None, refs |-> {},
                 val |-> LeavingBranch, alt |-> LeavingEntry, type |-> "base"]
<1>1. Join = d
  <2>1. a = [op |-> "join", id |-> JoinId, blk |-> 3, ref |-> None, refs |-> {},
             val |-> NoValue, alt |-> NoValue, type |-> "nominal"]
    BY DEF Operation
  <2>2. Join = [c EXCEPT !.type = "base"]
    BY DEF Join
  <2> HIDE DEF a
  <2>3. b = [op |-> "join", id |-> JoinId, blk |-> 3, ref |-> None, refs |-> {},
             val |-> LeavingBranch, alt |-> NoValue, type |-> "nominal"]
    BY <2>1
  <2> HIDE DEF b
  <2>4. c = [op |-> "join", id |-> JoinId, blk |-> 3, ref |-> None, refs |-> {},
             val |-> LeavingBranch, alt |-> LeavingEntry, type |-> "nominal"]
    BY <2>3
  <2> HIDE DEF c
  <2>5. [c EXCEPT !.type = "base"] = d
    BY <2>4
  <2> HIDE DEF d
  <2>6. QED
    BY <2>2, <2>5
<1>2. LeavingEntry \in Ids /\ LeavingBranch \in Ids
  <2>1. \A j \in 1..Len(ops) : ops[j].id \in Ids
    <3>1. \A j \in 1..Len(ops) : ops[j] \in Records
      BY ValidLists
    <3>2. QED
      BY <3>1 DEF Records, NewIds
  <2>2. QED
    BY <2>1, LeavingNamed
<1>3. LeavingEntry \in Vals \ {NoValue} /\ LeavingBranch \in Vals \ {NoValue} /\ JoinId \in NewIds
  BY <1>2, Numbers DEF Vals
<1>4. d \in Records /\ Shaped(d)
  BY <1>3 DEF Records, Shaped, OpNames
<1>5. QED
  BY <1>1, <1>4

LEMMA UnsettledIs ==
  ASSUME Valid(ops), NEW o \in DOMAIN ops, ops[o].op = "object", NEW k \in Kinds
  PROVE  LET M == Unsettled(k) IN
         /\ M \in Seq(Records) /\ Len(M) = IF WriteIn(2) THEN Len(ops) + 1 ELSE Len(ops)
         /\ \A i \in 1..Len(ops) : Place(i) \in 1..Len(M) /\ M[Place(i)] = PromotedOp(i, k)
         /\ WriteIn(2) => M[StartOfJoin] = Join
         /\ \A m \in 1..Len(M) : \/ \E i \in 1..Len(ops) : m = Place(i)
                                 \/ WriteIn(2) /\ m = StartOfJoin
<1> DEFINE each == [i \in DOMAIN ops |-> PromotedOp(i, k)]
           M == Unsettled(k)
           p == StartOfJoin
<1>1. Len(ops) \in Nat /\ DOMAIN ops = 1..Len(ops)
  BY BlockOrder
<1>2. \A i \in 1..Len(ops) : PromotedOp(i, k) \in Records
  <2>1. \A i \in 1..Len(ops) : Replaces(i, k, PromotedOp(i, k))
    BY PromotedIs
  <2>2. QED
    BY <2>1 DEF Replaces
<1>3. /\ each \in Seq(Records) /\ Len(each) = Len(ops)
      /\ \A i \in 1..Len(ops) : each[i] = PromotedOp(i, k)
  BY <1>1, <1>2
<1>4. M = IF WriteIn(2) THEN InsertAt(each, p, Join) ELSE each
  BY DEF Unsettled
<1>5. p \in 2..(Len(ops) + 1)
  BY JoinStarts
<1> HIDE DEF each, M, p
<1>6. CASE ~WriteIn(2)
  BY <1>1, <1>3, <1>4, <1>6 DEF Place, M
<1>7. CASE WriteIn(2)
  <2>1. Join \in Records
    BY <1>7, JoinIs
  <2>2. p \in 1..(Len(each) + 1)
    BY <1>1, <1>3, <1>5
  <2>3. /\ M \in Seq(Records) /\ Len(M) = Len(each) + 1 /\ M[p] = Join
        /\ \A i \in 1..Len(each) : i < p => M[i] = each[i]
        /\ \A i \in 1..Len(each) : i >= p => M[i + 1] = each[i]
    BY <1>3, <1>4, <1>7, <2>1, <2>2, InsertIs
  <2>4. \A i \in 1..Len(ops) : Place(i) = IF i >= p THEN i + 1 ELSE i
    BY <1>7 DEF Place, p
  <2>5. \A i \in 1..Len(ops) : Place(i) \in 1..Len(M) /\ M[Place(i)] = PromotedOp(i, k)
    BY <1>1, <1>3, <1>5, <2>3, <2>4
  <2>6. ASSUME NEW m \in 1..Len(M), m # p PROVE \E i \in 1..Len(ops) : m = Place(i)
    <3>1. CASE m < p
      <4>1. m \in 1..Len(ops) /\ Place(m) = m
        BY <1>1, <1>3, <1>5, <2>3, <2>4, <3>1
      <4>2. QED
        BY <4>1
    <3>2. CASE m > p
      <4>1. m - 1 \in 1..Len(ops) /\ Place(m - 1) = m
        BY <1>1, <1>3, <1>5, <2>3, <2>4, <3>2
      <4>2. QED
        BY <4>1
    <3>3. QED
      BY <1>1, <1>3, <1>5, <2>3, <2>6, <3>1, <3>2
  <2>7. QED
    BY <1>3, <1>7, <2>3, <2>5, <2>6 DEF M, p
<1>8. QED
  BY <1>6, <1>7

LEMMA UnsettledValid ==
  ASSUME Valid(ops), Early(ops), NEW o \in DOMAIN ops, ops[o].op = "object", NEW k \in Kinds
  PROVE  Valid(Unsettled(k))
<1> DEFINE M == Unsettled(k)
           N == Len(ops)
           s == StartOfJoin
           q(i) == PromotedOp(i, k)
<1>1. /\ N \in Nat /\ DOMAIN ops = 1..N
      /\ \A j \in 1..N : ops[j].blk \in 1..3
      /\ \A i \in 1..N, j \in 1..N : j < i => ops[j].blk <= ops[i].blk
  BY BlockOrder
<1>2. \A i \in 1..N : Fits(Upto(ops, i - 1), ops[i]) /\ Shaped(ops[i])
  BY ValidLists
<1>3. /\ \A i \in 1..N : ops[i].op \notin {"alloca", "load", "store", "join", "constant"}
      /\ \A i \in 1..N : ops[i].id # JoinId
      /\ \A i \in 1..N, j \in 1..N : i # j => ops[i].id # ops[j].id
  <2>1. \A i \in 1..N : ops[i].op \notin {"alloca", "load", "store", "join", "constant"}
    BY <1>1 DEF Early
  <2>2. \A i \in 1..N : ops[i].id # JoinId
    BY <2>1, Numbers DEF Early
  <2>3. \A i \in 1..N, j \in 1..N : j < i => ops[i].id # ops[j].id
    BY <2>1, ValidLists DEF Mere
  <2>4. QED
    BY <2>1, <2>2, <2>3
<1>4. /\ M \in Seq(Records) /\ Len(M) = IF WriteIn(2) THEN N + 1 ELSE N
      /\ \A i \in 1..N : Place(i) \in 1..Len(M) /\ M[Place(i)] = q(i)
      /\ WriteIn(2) => M[s] = Join
      /\ \A m \in 1..Len(M) : \/ \E i \in 1..N : m = Place(i)
                              \/ WriteIn(2) /\ m = s
  BY UnsettledIs
<1>5. \A i \in 1..N : Replaces(i, k, q(i))
  BY PromotedIs
<1>6. s \in 2..(N + 1) /\ \A i \in 1..N : ops[i].blk < 3 <=> i < s
  BY JoinStarts
<1> HIDE DEF M, s, q, N
<1>7. \A i \in 1..N : Place(i) = IF WriteIn(2) /\ i >= s THEN i + 1 ELSE i
  BY DEF Place, s
<1>8. ASSUME NEW j \in 1..N, ops[j].op \in Kinded
      PROVE  /\ q(j).op \in Kinded /\ q(j).id = ops[j].id /\ q(j).blk = ops[j].blk
             /\ q(j).type = ops[j].type
  <2>1. Replaces(j, k, q(j)) /\ ~Defines(ops[j])
    BY <1>5, <1>8 DEF Kinded, Defines, XWrite
  <2>2. QED
    BY <1>8, <2>1 DEF Replaces, Kinded
<1>9. ASSUME NEW j \in 1..N, Defines(ops[j])
      PROVE  /\ q(j).op \in Kinded /\ q(j).id = ops[j].id /\ q(j).blk = ops[j].blk
             /\ q(j).type = "base"
  <2>1. Replaces(j, k, q(j))
    BY <1>5
  <2>2. QED
    BY <1>9, <2>1 DEF Replaces, Kinded
<1>10. ASSUME NEW i \in 1..N PROVE Fits(Upto(M, Place(i) - 1), q(i))
  <2> DEFINE P == Upto(ops, i - 1)
             R == Upto(M, Place(i) - 1)
             p == ops[i]
  <2>1. \A j \in 1..(i - 1) : q(j) \in R
    <3> SUFFICES ASSUME NEW j \in 1..(i - 1) PROVE q(j) \in R
      OBVIOUS
    <3>1. j \in 1..N /\ Place(j) \in 1..(Place(i) - 1)
      BY <1>1, <1>6, <1>7
    <3>2. M[Place(j)] = q(j)
      BY <1>4, <3>1
    <3>3. QED
      BY <3>1, <3>2 DEF Upto
  <2>2. \A r \in R : \/ \E j \in 1..(i - 1) : r = q(j)
                     \/ WriteIn(2) /\ i >= s /\ r = Join
    <3> SUFFICES ASSUME NEW m \in 1..(Place(i) - 1)
                 PROVE  \/ \E j \in 1..(i - 1) : M[m] = q(j)
                        \/ WriteIn(2) /\ i >= s /\ M[m] = Join
      BY DEF Upto
    <3>1. m \in 1..Len(M)
      BY <1>1, <1>4
    <3>2. CASE WriteIn(2) /\ m = s
      <4>1. i >= s
        BY <1>1, <1>6, <1>7, <3>2
      <4>2. QED
        BY <1>4, <3>2, <4>1
    <3>3. CASE ~(WriteIn(2) /\ m = s)
      <4>1. PICK j \in 1..N : m = Place(j)
        BY <1>4, <3>1, <3>3
      <4>2. j \in 1..(i - 1)
        BY <1>1, <1>7, <4>1
      <4>3. QED
        BY <1>4, <4>1, <4>2
    <3>4. QED
      BY <3>2, <3>3
  <2>3. WriteIn(2) /\ p.blk = 3 => Join \in R
    <3> SUFFICES ASSUME WriteIn(2), p.blk = 3 PROVE Join \in R
      OBVIOUS
    <3>1. i >= s /\ s \in 1..(Place(i) - 1)
      BY <1>1, <1>6, <1>7
    <3>2. QED
      BY <1>4, <3>1 DEF Upto
  <2>4. \A v, S, T : Has(P, v, S, T) => Has(R, v, S, T)
    <3> SUFFICES ASSUME NEW v, NEW S, NEW T, Has(P, v, S, T) PROVE Has(R, v, S, T)
      OBVIOUS
    <3>1. CASE v \in Nominal /\ "nominal" \in T
      BY <3>1 DEF Has
    <3>2. CASE ~(v \in Nominal /\ "nominal" \in T)
      <4>1. PICK j \in 1..(i - 1) : /\ ops[j].op \in Kinded /\ ops[j].id = v
                                    /\ ops[j].blk \in S /\ ops[j].type \in T
        BY <3>2 DEF Has, Upto
      <4>2. j \in 1..N
        BY <1>1
      <4>3. QED
        BY <1>8, <2>1, <4>1, <4>2 DEF Has
    <3>3. QED
      BY <3>1, <3>2
  <2>5. Fits(P, p) /\ Shaped(p)
    BY <1>2
  <2>6. Replaces(i, k, q(i))
    BY <1>5
  <2>7. ASSUME NEW r \in R PROVE r.blk <= q(i).blk /\ r.id # q(i).id
    <3>1. q(i).blk = p.blk /\ q(i).id = p.id
      BY <2>6 DEF Replaces
    <3>2. CASE WriteIn(2) /\ i >= s /\ r = Join
      <4>1. r.blk = 3 /\ r.id = JoinId /\ p.blk = 3
        BY <1>1, <1>6, <3>2, JoinIs
      <4>2. QED
        BY <1>3, <3>1, <4>1
    <3>3. ASSUME NEW j \in 1..(i - 1), r = q(j) PROVE r.blk <= q(i).blk /\ r.id # q(i).id
      <4>1. j \in 1..N /\ j < i
        BY <1>1
      <4>2. r.blk = ops[j].blk /\ r.id = ops[j].id
        BY <1>5, <3>3, <4>1 DEF Replaces
      <4>3. QED
        BY <1>1, <1>3, <3>1, <4>1, <4>2
    <3>4. QED
      BY <2>2, <3>2, <3>3
  <2> HIDE DEF P, R, p
  <2>8. Shaped(q(i)) /\ q(i).op \notin {"object", "join"}
    <3>1. Shaped(q(i))
      BY <2>6 DEF Replaces
    <3>2. p.op # "join"
      BY <1>3 DEF p
    <3>3. QED
      BY <2>6, <3>1, <3>2 DEF Replaces, Defines, p
  <2>9. q(i).op # "constant" /\ q(i).val # NoValue => Has(R, q(i).val, {1, q(i).blk}, Takes(q(i)))
    <3> SUFFICES ASSUME q(i).op # "constant", q(i).val # NoValue
                 PROVE  Has(R, q(i).val, {1, q(i).blk}, Takes(q(i)))
      OBVIOUS
    <3>1. CASE Defines(p)
      <4>1. /\ q(i).op = "requalify" /\ q(i).blk = p.blk
            /\ q(i).val = IF p.val = NoValue THEN Default(k) ELSE p.val
        BY <2>6, <3>1 DEF Replaces, p
      <4>2. Takes(q(i)) = Types
        BY <4>1 DEF Takes
      <4>3. CASE p.op = "object"
        <5>1. p.val # NoValue
          <6>1. i = 1
            BY <4>3, ObjectFirst DEF p, N
          <6>2. p.val = NoValue => q(i).op = "constant"
            BY <4>3 DEF q, p, PromotedOp, Operation
          <6>3. QED
            BY <6>2
        <5>2. q(i).val \in Nominal
          BY <2>5, <4>1, <4>3, <5>1 DEF Shaped
        <5>3. QED
          BY <4>2, <5>2 DEF Has, Types
      <4>4. CASE p.op # "object"
        <5>1. p.op = "write" /\ p.val # NoValue /\ q(i).val = p.val
          BY <2>5, <3>1, <4>1, <4>4 DEF Defines, XWrite, Shaped
        <5>2. Has(P, p.val, {1, p.blk}, {"nominal"})
          BY <2>5, <5>1 DEF Fits, Scope, Takes
        <5>3. Has(R, p.val, {1, p.blk}, {"nominal"})
          BY <2>4, <5>2
        <5>4. QED
          BY <4>1, <4>2, <5>1, <5>3 DEF Has, Types
      <4>5. QED
        BY <4>3, <4>4
    <3>2. CASE XRead(p)
      <4>1. q(i).op = "requalify" /\ q(i).blk = p.blk /\ q(i).val = ReachingDefinition(i)
        BY <2>6, <3>2 DEF Replaces, XRead, p
      <4>2. Takes(q(i)) = Types
        BY <4>1 DEF Takes
      <4>3. i \in 2..N
        <5>1. ops[1].op = "object"
          BY <1>1, ObjectFirst DEF N
        <5>2. QED
          BY <1>1, <3>2, <5>1 DEF XRead, p
      <4>4. CASE WriteIn(2) /\ p.blk = 3 /\ ReachingDefinition(i) = JoinId
        <5>1. Join \in R /\ Join.op = "join" /\ Join.id = JoinId /\ Join.blk = 3 /\ Join.type = "base"
          BY <2>3, <4>4, JoinIs
        <5>2. QED
          BY <4>1, <4>2, <4>4, <5>1 DEF Has, Types, Kinded
      <4>5. ASSUME NEW j \in 1..(i - 1), Defines(ops[j]), ops[j].blk \in {1, p.blk},
                   ReachingDefinition(i) = ops[j].id
            PROVE  Has(R, q(i).val, {1, q(i).blk}, Takes(q(i)))
        <5>1. j \in 1..N /\ q(j) \in R
          BY <1>1, <2>1
        <5>2. q(j).op \in Kinded /\ q(j).id = ops[j].id /\ q(j).blk = ops[j].blk /\ q(j).type = "base"
          BY <1>9, <4>5, <5>1
        <5>3. QED
          BY <4>1, <4>2, <4>5, <5>1, <5>2 DEF Has, Types
      <4>6. QED
        BY <4>3, <4>4, <4>5, ReachingNamed DEF p, N
    <3>3. CASE ~Defines(p) /\ ~XRead(p)
      <4>1. q(i) = p /\ p.op \notin {"object", "join", "constant"} /\ p.val # NoValue
        BY <1>3, <2>6, <3>3 DEF Replaces, p, Defines
      <4>2. Has(P, p.val, {1, p.blk}, Takes(p))
        BY <2>5, <4>1 DEF Fits, Scope
      <4>3. QED
        BY <2>4, <4>1, <4>2
    <3>4. QED
      BY <3>1, <3>2, <3>3
  <2>10. Scope(q(i)) = {1, q(i).blk}
    BY <2>8 DEF Scope
  <2>11. Fits(R, q(i))
    BY <2>7, <2>8, <2>9, <2>10 DEF Fits
  <2>12. QED
    BY <2>11 DEF R
<1>11. ASSUME WriteIn(2) PROVE Fits(Upto(M, s - 1), Join)
  <2> DEFINE R == Upto(M, s - 1)
  <2>1. /\ Shaped(Join) /\ Join.op = "join" /\ Join.id = JoinId /\ Join.blk = 3
        /\ Join.val = LeavingBranch /\ Join.alt = LeavingEntry
    BY <1>11, JoinIs
  <2>2. \A j \in 1..(s - 1) : j \in 1..N /\ M[j] = q(j)
    <3> SUFFICES ASSUME NEW j \in 1..(s - 1) PROVE j \in 1..N /\ M[j] = q(j)
      OBVIOUS
    <3>1. j \in 1..N /\ Place(j) = j
      BY <1>1, <1>6, <1>7
    <3>2. QED
      BY <1>4, <3>1
  <2>3. \A r \in R : r.blk <= 3 /\ r.id # JoinId
    <3> SUFFICES ASSUME NEW j \in 1..(s - 1) PROVE M[j].blk <= 3 /\ M[j].id # JoinId
      BY DEF Upto
    <3>1. j \in 1..N /\ M[j].blk = ops[j].blk /\ M[j].id = ops[j].id
      BY <1>5, <2>2 DEF Replaces
    <3>2. QED
      BY <1>1, <1>3, <3>1
  <2>4. \A j \in 1..N : ops[j].blk < 3 => j \in 1..(s - 1)
    BY <1>1, <1>6
  <2>5. PICK a \in 1..N : Defines(ops[a]) /\ ops[a].blk = 1 /\ LeavingEntry = ops[a].id
    BY LeavingNamed DEF N
  <2>6. PICK b \in 1..N : XWrite(ops[b]) /\ ops[b].blk = 2 /\ LeavingBranch = ops[b].id
    BY <1>11, LeavingNamed DEF N
  <2>7. a \in 1..(s - 1) /\ b \in 1..(s - 1) /\ Defines(ops[b])
    BY <2>4, <2>5, <2>6 DEF Defines
  <2>8. q(a) \in R /\ q(b) \in R
    BY <2>2, <2>7 DEF Upto
  <2>9. Has(R, LeavingEntry, {1}, {"base"}) /\ Has(R, LeavingBranch, {1, 2}, {"base"})
    BY <1>9, <2>5, <2>6, <2>7, <2>8 DEF Has
  <2> HIDE DEF R
  <2>10. Fits(R, Join)
    BY <2>1, <2>3, <2>9 DEF Fits, Scope, Takes
  <2>11. QED
    BY <2>10 DEF R
<1>12. ASSUME NEW m \in 1..Len(M) PROVE Fits(Upto(M, m - 1), M[m])
  <2>1. CASE WriteIn(2) /\ m = s
    BY <1>4, <1>11, <2>1
  <2>2. CASE ~(WriteIn(2) /\ m = s)
    <3>1. PICK i \in 1..N : m = Place(i)
      BY <1>4, <2>2
    <3>2. QED
      BY <1>4, <1>10, <3>1
  <2>3. QED
    BY <2>1, <2>2
<1>13. QED
  BY <1>4, <1>12 DEF Valid, M

-----------------------------------------------------------------------------
(* Promotion keeps what the list shows *)

(* env is any environment, and junk the environment in which storage never *)
(* written holds what promotion gives x at first.                          *)
Promoting(junk, env, k, B) ==
  /\ Valid(ops) /\ Early(ops) /\ \E o \in DOMAIN ops : ops[o].op = "object"
  /\ k \in Kinds /\ \A i \in UsersOf(ops, "x") : ops[i].op \in {"read", "write"}
  /\ env \in Environments /\ junk = [env EXCEPT !.junk = Default(k)]
  /\ B \in SUBSET Machine /\ Nominal \subseteq B /\ Default(k) \in B /\ Held(ops, junk, B)

Definers == {ops[j].id : j \in {i \in 1..Len(ops) : Defines(ops[i])}}

LEMMA SameEnvironment ==
  ASSUME NEW env \in Environments, NEW d \in Machine
  PROVE  LET junk == [env EXCEPT !.junk = d] IN
         /\ junk \in Environments /\ junk.junk = d /\ junk.cond = env.cond /\ junk.alias = env.alias
         /\ \A s, o : Execute(junk, s, o) = Execute(env, s, o)
         /\ \A s, o : Runs(junk, s, o) <=> Runs(env, s, o)
         /\ \A o : Operand(junk, o) = Operand(env, o)
         /\ \A r : Cell(junk, r) = Cell(env, r)
<1> DEFINE junk == [env EXCEPT !.junk = d]
<1>1. junk \in Environments /\ junk.junk = d /\ junk.cond = env.cond /\ junk.alias = env.alias
  BY DEF Environments
<1> HIDE DEF junk
<1>2. \A r : Cell(junk, r) = Cell(env, r)
  BY <1>1 DEF Cell
<1>3. \A s, o : Called(s, junk, o) = Called(s, env, o)
  <2> SUFFICES ASSUME NEW s, NEW o PROVE Called(s, junk, o) = Called(s, env, o)
    OBVIOUS
  <2>1. {Cell(junk, r) : r \in o.refs \cup Shared} = {Cell(env, r) : r \in o.refs \cup Shared}
    BY <1>2
  <2> DEFINE result(seen) ==
               [s EXCEPT !.trace = Append(@, [c \in seen |-> s.mem[c]]),
                         !.mem = [c \in Refs |->
                                    IF c \in seen THEN CHOOSE n \in Nominal \ {@[c]} : TRUE ELSE @[c]]]
             A == {Cell(junk, r) : r \in o.refs \cup Shared}
             C == {Cell(env, r) : r \in o.refs \cup Shared}
  <2>2. Called(s, junk, o) = result(A) /\ Called(s, env, o) = result(C)
    BY DEF Called
  <2>3. A = C
    BY <2>1
  <2> HIDE DEF result, A, C
  <2>4. QED
    BY <2>2, <2>3
<1>4. \A s, o : Execute(junk, s, o) = Execute(env, s, o)
  <2> SUFFICES ASSUME NEW s, NEW o PROVE Execute(junk, s, o) = Execute(env, s, o)
    OBVIOUS
  <2>1. Cell(junk, o.ref) = Cell(env, o.ref) /\ Called(s, junk, o) = Called(s, env, o)
    BY <1>2, <1>3
  <2>2. QED
    BY <1>1, <2>1 DEF Execute
<1>5. (\A s, o : Runs(junk, s, o) <=> Runs(env, s, o)) /\ (\A o : Operand(junk, o) = Operand(env, o))
  BY <1>1 DEF Runs, Active, Operand
<1>6. QED
  BY <1>1, <1>2, <1>4, <1>5 DEF junk

LEMMA PromotingFacts ==
  ASSUME NEW junk, NEW env, NEW k, NEW B, Promoting(junk, env, k, B)
  PROVE  LET M == Unsettled(k) IN
         /\ Len(ops) \in Nat /\ Len(ops) >= 1 /\ DOMAIN ops = 1..Len(ops) /\ ops[1].op = "object"
         /\ \A i \in 1..Len(ops) :
              /\ Shaped(ops[i]) /\ ops[i] \in Records /\ ops[i].id \in NewIds /\ ops[i].id # JoinId
              /\ ops[i].op \in {"object", "read", "write", "check", "call", "requalify"}
              /\ i # 1 => ops[i].op # "object"
              /\ Replaces(i, k, PromotedOp(i, k))
         /\ \A i \in 1..Len(ops), j \in 1..Len(ops) : i # j => ops[i].id # ops[j].id
         /\ junk \in Environments /\ env \in Environments /\ k \in Kinds
         /\ Valid(M) /\ Len(M) \in Nat /\ Listed(M)
         /\ \A n \in 0..Len(ops) : After(ops, junk)[n] \in States
         /\ \A n \in 0..Len(M) : After(M, env)[n] \in States
         /\ \A n \in 1..Len(ops) : After(ops, junk)[n] = Execute(env, After(ops, junk)[n - 1], ops[n])
         /\ \A n \in 1..Len(M) : After(M, env)[n] = Execute(env, After(M, env)[n - 1], M[n])
         /\ \A n \in 0..Len(ops) : \A v \in After(ops, junk)[n].done :
              v \in NewIds /\ v # JoinId /\ v \notin Definers
              /\ \E j \in 1..n : ops[j].id = v /\ ops[j].op \in Kinded
<1> DEFINE M == Unsettled(k)
           N == Len(ops)
<1>1. PICK o \in DOMAIN ops : ops[o].op = "object"
  BY DEF Promoting
<1>2. /\ Valid(ops) /\ Early(ops) /\ k \in Kinds /\ env \in Environments
      /\ junk = [env EXCEPT !.junk = Default(k)]
  BY DEF Promoting
<1>3. N \in Nat /\ DOMAIN ops = 1..N
  BY <1>2, BlockOrder
<1>4. ops[1].op = "object" /\ N >= 1
  BY <1>1, <1>2, <1>3, ObjectFirst
<1>5. \A i \in 1..N : Shaped(ops[i]) /\ ops[i] \in Records /\ ops[i].id \in NewIds
  <2>1. \A i \in 1..N : Shaped(ops[i]) /\ ops[i] \in Records
    BY <1>2, ValidLists
  <2>2. QED
    BY <2>1 DEF Records
<1>6. \A i \in 1..N : ops[i].op \in {"object", "read", "write", "check", "call", "requalify"}
  <2>1. \A i \in 1..N : ops[i].op \in OpNames
    BY <1>5 DEF Records
  <2>2. \A i \in 1..N : ops[i].op \notin {"alloca", "load", "store", "join", "constant"}
    BY <1>1, <1>2, <1>3 DEF Early
  <2>3. QED
    BY <2>1, <2>2 DEF OpNames
<1>7. \A i \in 1..N : ops[i].id # JoinId
  BY <1>2, <1>6, Numbers DEF Early
<1>8. \A i \in 1..N, j \in 1..N : i # j => ops[i].id # ops[j].id
  <2>1. \A i \in 1..N, j \in 1..N : j < i => ops[i].id # ops[j].id
    BY <1>2, <1>6, ValidLists DEF Mere
  <2>2. QED
    BY <1>3, <2>1
<1>9. \A i \in 1..N : i # 1 => ops[i].op # "object"
  BY <1>2, ObjectFirst
<1>10. \A i \in 1..N : Replaces(i, k, PromotedOp(i, k))
  BY <1>1, <1>2, PromotedIs
<1>11. Valid(M)
  BY <1>1, <1>2, UnsettledValid
<1> HIDE DEF M
<1>12. Listed(ops) /\ Listed(M) /\ Len(M) \in Nat
  BY <1>2, <1>11, ValidLists
<1>13. junk \in Environments /\ \A s, p : Execute(junk, s, p) = Execute(env, s, p)
  <2>1. Default(k) \in Machine
    BY <1>2, DefaultIs
  <2>2. QED
    BY <1>2, <2>1, SameEnvironment
<1>14. /\ \A n \in 0..N : After(ops, junk)[n] \in States
       /\ \A n \in 1..N : After(ops, junk)[n] = Execute(env, After(ops, junk)[n - 1], ops[n])
  BY <1>12, <1>13, RunIs
<1>15. /\ \A n \in 0..Len(M) : After(M, env)[n] \in States
       /\ \A n \in 1..Len(M) : After(M, env)[n] = Execute(env, After(M, env)[n - 1], M[n])
  BY <1>2, <1>12, RunIs
<1>16. ASSUME NEW n \in 0..N, NEW v \in After(ops, junk)[n].done
       PROVE  /\ v \in NewIds /\ v # JoinId /\ v \notin Definers
              /\ \E j \in 1..n : ops[j].id = v /\ ops[j].op \in Kinded
  <2>1. PICK j \in 1..n : ops[j].id = v /\ ops[j].op \in Kinded
    <3>1. Computed(ops, junk, n)
      BY <1>2, <1>13, Computes
    <3>2. QED
      BY <3>1 DEF Computed
  <2>2. j \in 1..N
    BY <1>3
  <2>3. ~Defines(ops[j])
    BY <2>1 DEF Kinded, Defines, XWrite
  <2>4. v \notin Definers
    BY <1>8, <2>1, <2>2, <2>3 DEF Definers
  <2>5. QED
    BY <1>5, <1>7, <2>1, <2>2, <2>4
<1>17. QED
  BY <1>2, <1>3, <1>4, <1>5, <1>6, <1>7, <1>8, <1>9, <1>10, <1>11, <1>12, <1>13, <1>14,
     <1>15, <1>16 DEF M

(* After n operations of the list and m of the promoted one: the same to   *)
(* the outside and in every value; what defined x last holds its value, as *)
(* does the join once passed (J) and until x is written after it.          *)
Promotes(junk, env, k, B, n, m, J) ==
  LET s == After(ops, junk)[n]
      t == After(Unsettled(k), env)[m]
  IN  /\ Agree(s, t, [v \in Ids |-> v], Shared, Machine \cup s.done)
      /\ \E c : Current(ops, env, n, c) /\ (~s.raised => t.val[ops[c].id] = s.mem["x"])
      /\ \A v \in t.done : v \in s.done \/ (v \in Definers \cup {JoinId} /\ t.val[v] \in B)
      /\ J /\ ~s.raised /\ (\A j \in 1..n : XWrite(ops[j]) => ops[j].blk < 3)
           => t.val[JoinId] = s.mem["x"]

(* An operation that leaves x alone, or does not run.                      *)
LEMMA PromoteSame ==
  ASSUME NEW junk, NEW env, NEW k, NEW B, Promoting(junk, env, k, B),
         NEW n \in 1..(Len(ops) - 1), NEW m \in 1..(Len(Unsettled(k)) - 1), NEW J \in BOOLEAN,
         Promotes(junk, env, k, B, n, m, J),
         LET s == After(ops, junk)[n]
             t == After(Unsettled(k), env)[m]
             s2 == After(ops, junk)[n + 1]
             t2 == After(Unsettled(k), env)[m + 1]
             o == ops[n + 1]
         IN  /\ Agree(s2, t2, [v \in Ids |-> v], Shared, Machine \cup s2.done)
             /\ s.raised => s2.raised
             /\ s2.mem["x"] = s.mem["x"] /\ s.done \subseteq s2.done
             /\ t2.done \subseteq t.done \cup s2.done
             /\ \A v \in Ids : t2.val[v] = t.val[v] \/ (v = o.id /\ v \in s2.done)
             /\ ~s2.raised => ~(XWrite(o) /\ Active(env, o))
  PROVE  Promotes(junk, env, k, B, n + 1, m + 1, J)
<1> DEFINE s == After(ops, junk)[n]
           t == After(Unsettled(k), env)[m]
           s2 == After(ops, junk)[n + 1]
           t2 == After(Unsettled(k), env)[m + 1]
           o == ops[n + 1]
           f == [v \in Ids |-> v]
<1>1. /\ Len(ops) \in Nat
      /\ \A i \in 1..Len(ops) : ops[i].id \in NewIds /\ ops[i].id # JoinId
      /\ \A i \in 1..Len(ops), j \in 1..Len(ops) : i # j => ops[i].id # ops[j].id
  BY PromotingFacts
<1>2. /\ n \in 1..Len(ops) /\ n + 1 \in 1..Len(ops)
      /\ \A c \in 1..n : c \in 1..Len(ops) /\ c # n + 1
  BY <1>1
<1>3. JoinId \in Ids /\ NewIds \subseteq Ids
  BY Numbers DEF NewIds
<1>4. /\ Agree(s2, t2, f, Shared, Machine \cup s2.done)
      /\ s.raised => s2.raised
      /\ s2.mem["x"] = s.mem["x"] /\ s.done \subseteq s2.done
      /\ t2.done \subseteq t.done \cup s2.done
      /\ \A v \in Ids : t2.val[v] = t.val[v] \/ (v = o.id /\ v \in s2.done)
      /\ ~s2.raised => ~(XWrite(o) /\ Active(env, o))
  OBVIOUS
<1>5. /\ \E c : Current(ops, env, n, c) /\ (~s.raised => t.val[ops[c].id] = s.mem["x"])
      /\ \A v \in t.done : v \in s.done \/ (v \in Definers \cup {JoinId} /\ t.val[v] \in B)
      /\ J /\ ~s.raised /\ (\A j \in 1..n : XWrite(ops[j]) => ops[j].blk < 3)
           => t.val[JoinId] = s.mem["x"]
  BY DEF Promotes
<1> HIDE DEF s, t, s2, t2, f
<1>6. \E c : Current(ops, env, n + 1, c) /\ (~s2.raised => t2.val[ops[c].id] = s2.mem["x"])
  <2>1. PICK c : Current(ops, env, n, c) /\ (~s.raised => t.val[ops[c].id] = s.mem["x"])
    BY <1>5
  <2>2. c \in 1..n /\ c \in 1..(n + 1)
    BY <2>1, <1>2 DEF Current
  <2>3. CASE XWrite(o) /\ Active(env, o)
    <3>1. Current(ops, env, n + 1, n + 1)
      BY <1>2, <2>3 DEF Current
    <3>2. QED
      BY <1>4, <2>3, <3>1
  <2>4. CASE ~(XWrite(o) /\ Active(env, o))
    <3>1. Current(ops, env, n + 1, c)
      <4>1. \A j \in (c + 1)..(n + 1) : j \in (c + 1)..n \/ j = n + 1
        BY <1>2, <2>2
      <4>2. QED
        BY <2>1, <2>2, <2>4, <4>1 DEF Current
    <3>2. t2.val[ops[c].id] = t.val[ops[c].id]
      BY <1>1, <1>2, <1>3, <1>4, <2>2
    <3>3. QED
      BY <1>4, <2>1, <3>1, <3>2
  <2>5. QED
    BY <2>3, <2>4
<1>7. ASSUME NEW v \in t2.done
      PROVE  v \in s2.done \/ (v \in Definers \cup {JoinId} /\ t2.val[v] \in B)
  <2> SUFFICES ASSUME v \notin s2.done
               PROVE  v \in Definers \cup {JoinId} /\ t2.val[v] \in B
    OBVIOUS
  <2>1. v \in t.done /\ v \notin s.done
    BY <1>4, <1>7
  <2>2. v \in Definers \cup {JoinId} /\ t.val[v] \in B
    BY <1>5, <2>1
  <2>3. v \in Ids
    BY <1>1, <1>3, <2>2 DEF Definers
  <2>4. QED
    BY <1>4, <2>2, <2>3
<1>8. J /\ ~s2.raised /\ (\A j \in 1..(n + 1) : XWrite(ops[j]) => ops[j].blk < 3)
        => t2.val[JoinId] = s2.mem["x"]
  <2> SUFFICES ASSUME J, ~s2.raised, \A j \in 1..(n + 1) : XWrite(ops[j]) => ops[j].blk < 3
               PROVE  t2.val[JoinId] = s2.mem["x"]
    OBVIOUS
  <2>1. ~s.raised /\ \A j \in 1..n : XWrite(ops[j]) => ops[j].blk < 3
    BY <1>2, <1>4
  <2>2. t2.val[JoinId] = t.val[JoinId]
    BY <1>1, <1>2, <1>3, <1>4
  <2>3. QED
    BY <1>4, <1>5, <2>1, <2>2
<1>9. QED
  BY <1>4, <1>6, <1>7, <1>8 DEF Promotes, s, t, s2, t2, f

LEMMA PromoteStep ==
  ASSUME NEW junk, NEW env, NEW k, NEW B, Promoting(junk, env, k, B),
         NEW n \in 1..(Len(ops) - 1), NEW m \in 1..(Len(Unsettled(k)) - 1), NEW J \in BOOLEAN,
         Unsettled(k)[m + 1] = PromotedOp(n + 1, k),
         J => ops[n + 1].blk = 3, ~J /\ WriteIn(2) => ops[n + 1].blk < 3,
         Promotes(junk, env, k, B, n, m, J)
  PROVE  Promotes(junk, env, k, B, n + 1, m + 1, J)
<1> DEFINE M == Unsettled(k)
           s == After(ops, junk)[n]
           t == After(M, env)[m]
           s2 == After(ops, junk)[n + 1]
           t2 == After(M, env)[m + 1]
           o == ops[n + 1]
           q == M[m + 1]
           f == [v \in Ids |-> v]
           D == Machine \cup s.done
<1>1. /\ Len(ops) \in Nat /\ DOMAIN ops = 1..Len(ops)
      /\ \A i \in 1..Len(ops) :
           /\ Shaped(ops[i]) /\ ops[i] \in Records /\ ops[i].id \in NewIds /\ ops[i].id # JoinId
           /\ ops[i].op \in {"object", "read", "write", "check", "call", "requalify"}
           /\ i # 1 => ops[i].op # "object"
           /\ Replaces(i, k, PromotedOp(i, k))
      /\ \A i \in 1..Len(ops), j \in 1..Len(ops) : i # j => ops[i].id # ops[j].id
      /\ junk \in Environments /\ env \in Environments /\ k \in Kinds
      /\ Len(M) \in Nat /\ ops[1].op = "object" /\ Len(ops) >= 1
  BY PromotingFacts
<1>2. /\ n \in 0..Len(ops) /\ n + 1 \in 0..Len(ops) /\ n \in 1..Len(ops) /\ n + 1 \in 1..Len(ops)
      /\ (n + 1) - 1 = n /\ n + 1 # 1
      /\ m \in 0..Len(M) /\ m + 1 \in 0..Len(M) /\ m + 1 \in 1..Len(M) /\ (m + 1) - 1 = m
  BY <1>1
<1>3. /\ Shaped(o) /\ o \in Records /\ o.id \in NewIds /\ o.id # JoinId
      /\ o.op \in {"read", "write", "check", "call", "requalify"}
      /\ Replaces(n + 1, k, q)
  BY <1>1, <1>2
<1>4. /\ s \in States /\ s2 = Execute(env, s, o) /\ t \in States /\ t2 = Execute(env, t, q)
  <2>1. /\ \A i \in 0..Len(ops) : After(ops, junk)[i] \in States
        /\ \A i \in 0..Len(M) : After(M, env)[i] \in States
        /\ \A i \in 1..Len(ops) : After(ops, junk)[i] = Execute(env, After(ops, junk)[i - 1], ops[i])
        /\ \A i \in 1..Len(M) : After(M, env)[i] = Execute(env, After(M, env)[i - 1], M[i])
    BY PromotingFacts
  <2>2. QED
    BY <1>2, <2>1
<1>5. /\ q \in Records /\ Shaped(q) /\ q.id = o.id /\ q.blk = o.blk
      /\ XWrite(o) => q.op = "requalify" /\ q.alt = NoValue /\ q.val = o.val
      /\ XRead(o) => q.op = "requalify" /\ q.alt = NoValue /\ q.val = ReachingDefinition(n + 1)
      /\ ~XWrite(o) /\ ~XRead(o) => q = o
  <2>1. q = PromotedOp(n + 1, k)
    OBVIOUS
  <2>2. XWrite(o) => o.val # NoValue
    BY <1>3 DEF XWrite, Shaped
  <2>3. XWrite(o) => q = Requalify(o, o.val, "base")
    BY <2>1 DEF PromotedOp, XWrite
  <2>4. XWrite(o) => q.op = "requalify"
    BY <2>3 DEF Requalify, Operation
  <2>5. QED
    BY <1>3, <2>2, <2>4 DEF Replaces, Defines
<1>6. \A v \in s.done : v \in NewIds /\ v # JoinId /\ v \notin Definers /\ v # o.id
  <2> SUFFICES ASSUME NEW v \in s.done
               PROVE  v \in NewIds /\ v # JoinId /\ v \notin Definers /\ v # o.id
    OBVIOUS
  <2>1. /\ v \in NewIds /\ v # JoinId /\ v \notin Definers
        /\ \E j \in 1..n : ops[j].id = v /\ ops[j].op \in Kinded
    BY <1>2, PromotingFacts
  <2>2. \A j \in 1..n : j \in 1..Len(ops) /\ j # n + 1
    BY <1>1, <1>2
  <2>3. QED
    BY <1>1, <1>2, <2>1, <2>2
<1>7. D \in SUBSET Ids /\ Machine \subseteq Ids /\ NewIds = Ids \ Machine /\ \A v \in Ids : f[v] = v
  BY <1>4, Numbers DEF States, NewIds
<1>8. /\ Agree(s, t, f, Shared, D)
      /\ \E c : Current(ops, env, n, c) /\ (~s.raised => t.val[ops[c].id] = s.mem["x"])
      /\ \A v \in t.done : v \in s.done \/ (v \in Definers \cup {JoinId} /\ t.val[v] \in B)
      /\ J /\ ~s.raised /\ (\A j \in 1..n : XWrite(ops[j]) => ops[j].blk < 3)
           => t.val[JoinId] = s.mem["x"]
  BY DEF Promotes
<1>9. Runs(env, s, o) /\ o.val # NoValue => o.val \in D
  <2> SUFFICES ASSUME Runs(env, s, o), o.val # NoValue PROVE o.val \in D
    OBVIOUS
  <2>1. Default(k) \in Machine /\ junk = [env EXCEPT !.junk = Default(k)] /\ Valid(ops)
    BY <1>1, DefaultIs DEF Promoting
  <2>2. Runs(junk, s, o) /\ Operand(junk, o) = Operand(env, o)
    BY <1>1, <2>1, SameEnvironment
  <2>3. Operand(env, o) = o.val
    BY <1>3 DEF Operand
  <2>4. QED
    BY <1>1, <1>2, <2>1, <2>2, <2>3, Needs
<1>10. Effect(env, s, o, s2) /\ Effect(env, t, q, t2)
  BY <1>1, <1>3, <1>4, <1>5, Executes
<1>11. Runs(env, t, q) <=> Runs(env, s, o)
  BY <1>5, <1>8 DEF Runs, Active, Agree
<1> HIDE DEF s, t, s2, t2, M, q, o, D, f
<1>12. CASE ~Runs(env, s, o)
  <2>1. s2 = s /\ t2 = t
    BY <1>10, <1>11, <1>12 DEF Effect
  <2>2. /\ Agree(s2, t2, f, Shared, Machine \cup s2.done)
        /\ s.raised => s2.raised
        /\ s2.mem["x"] = s.mem["x"] /\ s.done \subseteq s2.done
        /\ t2.done \subseteq t.done \cup s2.done
        /\ \A v \in Ids : t2.val[v] = t.val[v] \/ (v = o.id /\ v \in s2.done)
        /\ ~s2.raised => ~(XWrite(o) /\ Active(env, o))
    BY <1>8, <1>12, <2>1 DEF Runs, D
  <2>3. QED
    BY <2>2, PromoteSame DEF s, t, s2, t2, M, o, f
<1>13. CASE Runs(env, s, o) /\ XRead(o)
  <2> DEFINE r == ReachingDefinition(n + 1)
  <2>1. /\ o.op = "read" /\ o.ref = "x" /\ ~XWrite(o) /\ Cell(env, o.ref) = "x"
    BY <1>1, <1>13, Cells DEF XRead, XWrite, Refs
  <2>2. q.op = "requalify" /\ q.val = r /\ Operand(env, q) = r
    BY <1>5, <1>13 DEF Operand
  <2>3. ~s.raised /\ Active(env, o)
    BY <1>13 DEF Runs
  <2>4. t.val[r] = s.mem["x"]
    <3>1. PICK c : Current(ops, env, n, c) /\ t.val[ops[c].id] = s.mem["x"]
      BY <1>8, <2>3
    <3>2. \/ r = ops[c].id
          \/ /\ WriteIn(2) /\ o.blk = 3 /\ r = JoinId
             /\ \A j \in 1..n : XWrite(ops[j]) => ops[j].blk < 3
      BY <1>1, <2>3, <3>1, Reaching DEF Promoting, o
    <3>3. WriteIn(2) /\ o.blk = 3 => J
      BY DEF o
    <3>4. QED
      BY <1>8, <2>3, <3>1, <3>2, <3>3
  <2>5. Gives(env, t, q, t2)
    <3>1. MemoryEffectFree(q)
      BY <2>2 DEF MemoryEffectFree
    <3>2. QED
      BY <1>1, <1>4, <1>5, <3>1, Quiet
  <2>6. Results(env, s, o) /\ ResultOf(env, s, o) = s.mem["x"] /\ \A d \in Refs : ~Stores(env, s, o, d)
    BY <1>13, <2>1 DEF Results, ResultOf, Stores, Kinded
  <2>7. /\ s2.raised = s.raised /\ s2.trace = s.trace /\ \A d \in Refs : s2.mem[d] = s.mem[d]
        /\ s2.done = s.done \cup {o.id}
        /\ \A v \in Ids : s2.val[v] = IF v = o.id THEN s.mem["x"] ELSE s.val[v]
    <3>1. s.raised \in BOOLEAN
      BY <1>4 DEF States
    <3>2. QED
      BY <1>10, <2>1, <2>6, <3>1 DEF Effect
  <2>8. /\ t2.raised = t.raised /\ t2.trace = t.trace /\ \A d \in Refs : t2.mem[d] = t.mem[d]
        /\ t2.done = t.done \cup {o.id}
        /\ \A v \in Ids : t2.val[v] = IF v = o.id THEN s.mem["x"] ELSE t.val[v]
    BY <1>5, <1>11, <1>13, <2>2, <2>4, <2>5 DEF Gives
  <2>9. Agree(s2, t2, f, Shared, Machine \cup s2.done)
    <3>1. \A v \in Machine \cup s2.done : v \in Ids /\ (v # o.id => v \in D)
      BY <1>3, <1>7, <2>7 DEF D
    <3>2. \A d \in Shared : d \in Refs
      BY DEF Shared, Refs
    <3>3. \A v \in Machine \cup s2.done : t2.val[f[v]] = s2.val[v]
      BY <1>7, <1>8, <2>7, <2>8, <3>1 DEF Agree
    <3>4. QED
      BY <1>8, <2>7, <2>8, <3>2, <3>3 DEF Agree
  <2>10. /\ s.raised => s2.raised
         /\ s2.mem["x"] = s.mem["x"] /\ s.done \subseteq s2.done
         /\ t2.done \subseteq t.done \cup s2.done
         /\ \A v \in Ids : t2.val[v] = t.val[v] \/ (v = o.id /\ v \in s2.done)
         /\ ~s2.raised => ~(XWrite(o) /\ Active(env, o))
    BY <2>1, <2>7, <2>8 DEF Refs
  <2>11. QED
    BY <2>9, <2>10, PromoteSame DEF s, t, s2, t2, M, o, f
<1>14. CASE Runs(env, s, o) /\ XWrite(o)
  <2>1. /\ o.op = "write" /\ o.ref = "x" /\ Cell(env, o.ref) = "x" /\ o.val # NoValue
        /\ o.op \notin Kinded
    BY <1>1, <1>3, <1>14, Cells DEF XWrite, Refs, Shaped, Kinded
  <2>2. q.op = "requalify" /\ q.val = o.val /\ Operand(env, q) = o.val
    BY <1>5, <1>14 DEF Operand
  <2>3. ~s.raised /\ Active(env, o)
    BY <1>14 DEF Runs
  <2>4. o.val \in D /\ o.val \in Ids /\ t.val[o.val] = s.val[o.val]
    BY <1>7, <1>8, <1>9, <1>14, <2>1 DEF Agree
  <2>5. s.val[o.val] \in Nominal
    <3>1. Valid(ops) /\ Nominal \subseteq B /\ Held(ops, junk, B)
      BY DEF Promoting
    <3>2. Fits(Upto(ops, n), o)
      BY <1>2, <3>1, ValidLists DEF o
    <3>3. Has(Upto(ops, n), o.val, {1, o.blk}, {"nominal"})
      BY <2>1, <3>2 DEF Fits, Scope, Takes
    <3>4. "base" \notin {"nominal"} /\ o.val \in Machine \cup After(ops, junk)[n].done
      BY <2>4 DEF D, s
    <3>5. QED
      BY <1>1, <1>2, <3>1, <3>3, <3>4, OperandHeld DEF s
  <2>6. Gives(env, t, q, t2)
    <3>1. MemoryEffectFree(q)
      BY <2>2 DEF MemoryEffectFree
    <3>2. QED
      BY <1>1, <1>4, <1>5, <3>1, Quiet
  <2>7. /\ t2.raised = t.raised /\ t2.trace = t.trace /\ \A d \in Refs : t2.mem[d] = t.mem[d]
        /\ t2.done = t.done \cup {o.id}
        /\ \A v \in Ids : t2.val[v] = IF v = o.id THEN s.val[o.val] ELSE t.val[v]
    BY <1>5, <1>11, <1>14, <2>2, <2>4, <2>6 DEF Gives
  <2>8. /\ s2.raised = s.raised /\ s2.trace = s.trace
        /\ s2.mem["x"] = s.val[o.val] /\ \A d \in Shared : s2.mem[d] = s.mem[d]
        /\ s2.done = s.done /\ \A v \in Ids : s2.val[v] = s.val[v]
    <3>1. /\ s.raised \in BOOLEAN /\ ~Results(env, s, o)
          /\ Stores(env, s, o, "x") /\ Stored(s, o, "x") = s.val[o.val]
      BY <1>4, <1>14, <2>1 DEF States, Results, Stores, Stored
    <3>2. \A d \in Shared : d \in Refs /\ ~Stores(env, s, o, d)
      BY <2>1 DEF Stores, Shared, Refs
    <3>3. QED
      BY <1>10, <2>1, <3>1, <3>2 DEF Effect, Refs
  <2>9. Agree(s2, t2, f, Shared, Machine \cup s2.done)
    <3>1. \A v \in Machine \cup s2.done : v \in Ids /\ v \in D /\ v # o.id
      BY <1>3, <1>6, <1>7, <2>8 DEF D
    <3>2. \A d \in Shared : d \in Refs
      BY DEF Shared, Refs
    <3>3. \A v \in Machine \cup s2.done : t2.val[f[v]] = s2.val[v]
      BY <1>7, <1>8, <2>7, <2>8, <3>1 DEF Agree
    <3>4. QED
      BY <1>8, <2>7, <2>8, <3>2, <3>3 DEF Agree
  <2>10. o.id \in Ids /\ o.id \in Definers /\ Nominal \subseteq B
    BY <1>2, <1>3, <1>7, <1>14 DEF Definers, Defines, o, Promoting
  <2>11. \E c : Current(ops, env, n + 1, c) /\ (~s2.raised => t2.val[ops[c].id] = s2.mem["x"])
    <3>1. Current(ops, env, n + 1, n + 1)
      BY <1>2, <1>14, <2>3 DEF Current, o
    <3>2. t2.val[ops[n + 1].id] = s2.mem["x"]
      BY <2>7, <2>8, <2>10 DEF o
    <3>3. QED
      BY <3>1, <3>2
  <2>12. ASSUME NEW v \in t2.done
         PROVE  v \in s2.done \/ (v \in Definers \cup {JoinId} /\ t2.val[v] \in B)
    <3>1. CASE v = o.id
      BY <2>5, <2>7, <2>10, <3>1
    <3>2. CASE v # o.id
      <4>1. v \in t.done /\ v \in Ids
        BY <1>4, <2>7, <3>2 DEF States
      <4>2. QED
        BY <1>8, <2>7, <2>8, <3>2, <4>1
    <3>3. QED
      BY <3>1, <3>2
  <2>13. ~(J /\ \A j \in 1..(n + 1) : XWrite(ops[j]) => ops[j].blk < 3)
    BY <1>1, <1>2, <1>14 DEF o
  <2>14. QED
    BY <2>9, <2>11, <2>12, <2>13 DEF Promotes, s2, t2, M, f
<1>15. CASE Runs(env, s, o) /\ ~XRead(o) /\ ~XWrite(o)
  <2>1. q = o /\ t2 = Execute(env, t, o)
    BY <1>4, <1>5, <1>15
  <2>2. /\ o.op \in {"read", "write"} => o.ref # "x"
        /\ o.op = "call" => "x" \notin o.refs
    <3>1. o.op = "call" => n + 1 \notin UsersOf(ops, "x")
      BY DEF Promoting, o
    <3>2. o.op = "call" => "x" \notin o.refs
      BY <1>1, <1>2, <3>1 DEF UsersOf, o
    <3>3. QED
      BY <1>15, <3>2 DEF XRead, XWrite
  <2>3. /\ o.op \in {"read", "write"} => Cell(env, o.ref) \in Shared
        /\ o.op = "call" => Seen(env, o) \subseteq Shared
    <3>1. \A x \in Refs : x # "x" => Cell(env, x) \in Shared
      BY <1>1, Cells DEF Refs, Shared
    <3>2. o.refs \subseteq Refs /\ (o.op \in {"read", "write"} => o.ref \in Refs)
      BY <1>3 DEF Shaped, Records
    <3>3. QED
      BY <2>2, <3>1, <3>2 DEF Seen, Shared, Refs
  <2>4. Given(env, o, o, f, Shared, D)
    <3>1. Operand(env, o) = o.val
      BY <1>3 DEF Operand
    <3>2. o.op # "load"
      BY <1>3
    <3>3. o.val # NoValue => o.val \in D /\ o.val = f[o.val]
      BY <1>7, <1>9, <1>15
    <3>4. QED
      BY <2>3, <3>1, <3>2, <3>3 DEF Given
  <2>5. /\ Results(env, t, o) <=> Results(env, s, o)
        /\ Agree(s2, t2, f, Shared \cup {c \in Refs : Stores(env, s, o, c)},
                 D \cup {v \in {o.id} : Results(env, s, o)})
    <3>1. Alike(o, o) /\ (\A v \in D : f[v] \in Ids) /\ Shared \in SUBSET Refs /\ o.id \in Ids
      BY <1>3, <1>7 DEF Alike, Shared, Refs
    <3>2. o.op \in Kinded => f[o.id] = o.id /\ \A v \in D : v # o.id => f[v] # o.id
      BY <1>7, <3>1
    <3>3. env \in Environments /\ Shaped(o) /\ s \in States /\ t \in States /\ Agree(s, t, f, Shared, D)
          /\ D \in SUBSET Ids
      BY <1>1, <1>3, <1>4, <1>7, <1>8
    <3>4. /\ Results(env, t, o) <=> Results(env, s, o)
          /\ Agree(Execute(env, s, o), Execute(env, t, o), f,
                   Shared \cup {c \in Refs : Stores(env, s, o, c)},
                   D \cup {v \in {o.id} : Results(env, s, o)})
      BY <2>4, <3>1, <3>2, <3>3, SameStep, SMTT(40)
    <3>5. QED
      BY <1>4, <2>1, <3>4
  <2>6. s2.done = s.done \cup {v \in {o.id} : Results(env, s, o)}
        /\ t2.done = t.done \cup {v \in {o.id} : Results(env, s, o)}
    BY <1>10, <2>1, <2>5 DEF Effect
  <2>7. Agree(s2, t2, f, Shared, Machine \cup s2.done)
    BY <2>5, <2>6 DEF Agree, D
  <2>8. s2.mem["x"] = s.mem["x"]
    <3>1. ~Stores(env, s, o, "x")
      BY <1>3, <2>3 DEF Stores, Shared
    <3>2. QED
      BY <1>10, <3>1 DEF Effect, Refs
  <2>9. \A v \in Ids : t2.val[v] = t.val[v] \/ (v = o.id /\ v \in s2.done)
    BY <1>10, <2>1, <2>5, <2>6 DEF Effect
  <2>10. s.raised => s2.raised
    BY <1>10 DEF Effect
  <2>11. /\ s.done \subseteq s2.done /\ t2.done \subseteq t.done \cup s2.done
         /\ ~s2.raised => ~(XWrite(o) /\ Active(env, o))
    BY <1>15, <2>6
  <2>12. QED
    BY <2>7, <2>8, <2>9, <2>10, <2>11, PromoteSame DEF s, t, s2, t2, M, o, f
<1>16. QED
  BY <1>12, <1>13, <1>14, <1>15

(* The declaration: x holds what the storage did, or the default.          *)
LEMMA PromoteStart ==
  ASSUME NEW junk, NEW env, NEW k, NEW B, Promoting(junk, env, k, B)
  PROVE  Promotes(junk, env, k, B, 1, 1, FALSE)
<1> DEFINE M == Unsettled(k)
           s == After(ops, junk)[0]
           t == After(M, env)[0]
           s2 == After(ops, junk)[1]
           t2 == After(M, env)[1]
           o == ops[1]
           q == M[1]
           f == [v \in Ids |-> v]
           d == Default(k)
<1>1. /\ Len(ops) \in Nat /\ DOMAIN ops = 1..Len(ops) /\ o.op = "object" /\ 1 \in 1..Len(ops)
      /\ Shaped(o) /\ o.id \in NewIds /\ o.id \in Ids
      /\ junk \in Environments /\ env \in Environments /\ k \in Kinds
      /\ Len(M) \in Nat
  BY PromotingFacts, Numbers DEF NewIds
<1>2. /\ Valid(ops) /\ junk = [env EXCEPT !.junk = d]
      /\ B \in SUBSET Machine /\ Nominal \subseteq B /\ d \in B /\ d \in Machine
  BY DEF Promoting
<1>3. junk.junk = d
  BY <1>1, <1>2, SameEnvironment
<1>4. o.id = Fresh /\ o.blk = 1 /\ o.val \in Nominal \cup {NoValue} /\ o.ref = "x"
  BY <1>1, <1>2, ObjectFirst DEF Shaped
<1>5. 1 \in 1..Len(M) /\ M[1] = PromotedOp(1, k)
  <2>1. Place(1) = 1
    BY <1>1, <1>2, JoinStarts DEF Place
  <2>2. QED
    BY <1>1, <1>2, <2>1, UnsettledIs
<1>6. /\ Shaped(q) /\ q.id = o.id /\ q.blk = 1
      /\ q.op \in {"constant", "requalify"} /\ q.alt = NoValue
      /\ q.val = IF o.val = NoValue THEN d ELSE o.val
  <2>1. Replaces(1, k, q)
    BY <1>1, <1>5, PromotingFacts
  <2>2. Defines(o)
    BY <1>1 DEF Defines
  <2>3. QED
    BY <1>4, <2>1, <2>2 DEF Replaces
<1>7. /\ s = Start(junk) /\ t = Start(env)
      /\ s \in States /\ s2 = Execute(env, s, o) /\ t \in States /\ t2 = Execute(env, t, q)
  <2>1. /\ \A i \in 0..Len(ops) : After(ops, junk)[i] \in States
        /\ \A i \in 0..Len(M) : After(M, env)[i] \in States
        /\ \A i \in 1..Len(ops) : After(ops, junk)[i] = Execute(env, After(ops, junk)[i - 1], ops[i])
        /\ \A i \in 1..Len(M) : After(M, env)[i] = Execute(env, After(M, env)[i - 1], M[i])
        /\ Listed(M)
    BY PromotingFacts
  <2>2. s = Start(junk) /\ t = Start(env)
    BY <1>1, <1>2, <2>1, RunIs, ValidLists
  <2>3. 0 \in 0..Len(ops) /\ 0 \in 0..Len(M) /\ 1 - 1 = 0
    BY <1>1
  <2>4. QED
    BY <1>1, <1>5, <2>1, <2>2, <2>3
<1>8. /\ ~s.raised /\ ~t.raised /\ s.trace = t.trace /\ s.done = {} /\ t.done = {}
      /\ s.mem["x"] = d /\ \A c \in Shared : t.mem[c] = s.mem[c]
      /\ \A v \in Ids : s.val[v] = v /\ t.val[v] = v
  BY <1>3, <1>7 DEF Start, Shared, Refs
<1>9. Effect(env, s, o, s2)
  BY <1>1, <1>7, Executes
<1> HIDE DEF s, t, s2, t2, M, q, o, f, d
<1>10. Gives(env, t, q, t2)
  <2>1. MemoryEffectFree(q)
    BY <1>6 DEF MemoryEffectFree
  <2>2. QED
    BY <1>1, <1>6, <1>7, <2>1, Quiet
<1>11. Runs(env, s, o) /\ Runs(env, t, q)
  BY <1>4, <1>6, <1>8 DEF Runs, Active
<1> DEFINE w == IF o.val = NoValue THEN d ELSE o.val
<1>12. w \in Machine /\ w \in Ids /\ w \in B
  BY <1>2, <1>4, Numbers
<1>13. /\ s2.raised = s.raised /\ s2.trace = s.trace
       /\ s2.mem["x"] = w /\ \A c \in Shared : s2.mem[c] = s.mem[c]
       /\ s2.done = s.done /\ \A v \in Ids : s2.val[v] = s.val[v]
  <2>1. /\ s.raised \in BOOLEAN /\ ~Results(env, s, o)
        /\ Stores(env, s, o, "x") <=> o.val # NoValue
        /\ Stored(s, o, "x") = s.val[o.val]
    BY <1>1, <1>7, <1>11 DEF States, Results, Stores, Stored, Kinded
  <2>2. \A c \in Shared : c \in Refs /\ ~Stores(env, s, o, c)
    BY <1>1 DEF Stores, Shared, Refs
  <2>3. s2.mem["x"] = w
    BY <1>8, <1>9, <1>12, <2>1 DEF Effect, Refs
  <2>4. QED
    BY <1>1, <1>9, <2>1, <2>2, <2>3 DEF Effect
<1>14. /\ t2.raised = t.raised /\ t2.trace = t.trace /\ \A c \in Refs : t2.mem[c] = t.mem[c]
       /\ t2.done = t.done \cup {o.id}
       /\ \A v \in Ids : t2.val[v] = IF v = o.id THEN w ELSE t.val[v]
  <2>1. Operand(env, q) = w
    BY <1>6 DEF Operand
  <2>2. QED
    BY <1>6, <1>8, <1>10, <1>11, <1>12, <2>1 DEF Gives
<1>15. Agree(s2, t2, f, Shared, Machine \cup s2.done)
  <2>1. \A v \in Machine \cup s2.done : v \in Ids /\ v # o.id /\ f[v] = v
    BY <1>1, <1>8, <1>13, Numbers DEF NewIds, f
  <2>2. \A c \in Shared : c \in Refs
    BY DEF Shared, Refs
  <2>3. \A v \in Machine \cup s2.done : t2.val[f[v]] = s2.val[v]
    BY <1>8, <1>13, <1>14, <2>1
  <2>4. s.raised \in BOOLEAN /\ t.raised \in BOOLEAN
    BY <1>7 DEF States
  <2>5. t2.raised = s2.raised
    BY <1>8, <1>13, <1>14, <2>4
  <2>6. t2.trace = s2.trace /\ \A c \in Shared : t2.mem[c] = s2.mem[c]
    BY <1>8, <1>13, <1>14, <2>2
  <2>7. QED
    BY <2>3, <2>5, <2>6 DEF Agree
<1>16. Current(ops, env, 1, 1) /\ t2.val[o.id] = s2.mem["x"]
  BY <1>1, <1>4, <1>13, <1>14 DEF Current, Active, o
<1>17. \A v \in t2.done : v \in Definers \cup {JoinId} /\ t2.val[v] \in B
  <2>1. o.id \in Definers
    BY <1>1 DEF Definers, Defines, o
  <2>2. QED
    BY <1>1, <1>8, <1>12, <1>14, <2>1
<1>18. QED
  BY <1>15, <1>16, <1>17 DEF Promotes, s2, t2, M, f, o

(* The join: on the path taken, the value x has.                           *)
LEMMA PromoteJoin ==
  ASSUME NEW junk, NEW env, NEW k, NEW B, Promoting(junk, env, k, B), WriteIn(2),
         NEW n \in 1..Len(ops), n + 1 = StartOfJoin,
         Promotes(junk, env, k, B, n, n, FALSE)
  PROVE  Promotes(junk, env, k, B, n, n + 1, TRUE)
<1> DEFINE M == Unsettled(k)
           s == After(ops, junk)[n]
           t == After(M, env)[n]
           t2 == After(M, env)[n + 1]
           f == [v \in Ids |-> v]
<1>1. PICK o \in DOMAIN ops : ops[o].op = "object"
  BY DEF Promoting
<1>2. /\ Len(ops) \in Nat /\ n \in 0..Len(ops) /\ Len(M) \in Nat
      /\ \A i \in 1..Len(ops) : ops[i].id \in NewIds /\ ops[i].id # JoinId
      /\ \A i \in 1..Len(ops), j \in 1..Len(ops) : i # j => ops[i].id # ops[j].id
      /\ junk \in Environments /\ env \in Environments /\ k \in Kinds
      /\ Valid(M) /\ Valid(ops) /\ Nominal \subseteq B
  BY PromotingFacts DEF Promoting
<1>3. /\ Join \in Records /\ Shaped(Join)
      /\ Join.op = "join" /\ Join.id = JoinId /\ Join.blk = 3 /\ Join.type = "base"
      /\ Join.val = LeavingBranch /\ Join.alt = LeavingEntry
  BY <1>1, <1>2, JoinIs
<1>4. Len(M) = Len(ops) + 1 /\ M[n + 1] = Join
  BY <1>1, <1>2, UnsettledIs
<1>5. n \in 0..Len(M) /\ n + 1 \in 1..Len(M) /\ (n + 1) - 1 = n
  BY <1>2, <1>4
<1>6. s \in States /\ t \in States /\ t2 = Execute(env, t, Join)
  <2>1. /\ \A i \in 0..Len(ops) : After(ops, junk)[i] \in States
        /\ \A i \in 0..Len(M) : After(M, env)[i] \in States
        /\ \A i \in 1..Len(M) : After(M, env)[i] = Execute(env, After(M, env)[i - 1], M[i])
    BY PromotingFacts
  <2>2. QED
    BY <1>2, <1>4, <1>5, <2>1
<1>7. \A v \in s.done : v \in NewIds /\ v # JoinId /\ v \notin Definers
  BY <1>2, PromotingFacts
<1>8. /\ Agree(s, t, f, Shared, Machine \cup s.done)
      /\ \E c : Current(ops, env, n, c) /\ (~s.raised => t.val[ops[c].id] = s.mem["x"])
      /\ \A v \in t.done : v \in s.done \/ (v \in Definers \cup {JoinId} /\ t.val[v] \in B)
  BY DEF Promotes
<1>9. PICK c : Current(ops, env, n, c) /\ (~s.raised => t.val[ops[c].id] = s.mem["x"])
  BY <1>8
<1>10. Operand(env, Join) = ops[c].id
  <2>1. \A i \in 1..Len(ops) : ops[i].blk < 3 <=> i <= n
    BY <1>1, <1>2, JoinStarts
  <2>2. ops[c].id = IF env.cond THEN LeavingBranch ELSE LeavingEntry
    BY <1>1, <1>2, <1>9, <2>1, JoinOperand
  <2>3. QED
    BY <1>3, <2>2 DEF Operand
<1>11. c \in 1..n /\ c \in 1..Len(ops) /\ ops[c].id \in NewIds /\ ops[c].id # JoinId
  BY <1>2, <1>9 DEF Current
<1>12. Defines(ops[c]) /\ ops[c].id \in Definers
  <2>1. Defines(ops[c])
    BY <1>1, <1>2, <1>9, ObjectFirst, BlockOrder DEF Current, Defines
  <2>2. QED
    BY <1>11, <2>1 DEF Definers
<1>13. Gives(env, t, Join, t2)
  BY <1>2, <1>3, <1>6, Quiet DEF MemoryEffectFree
<1>14. Runs(env, t, Join) <=> ~s.raised
  BY <1>3, <1>8 DEF Runs, Active, Agree
<1>15. ~s.raised => t.val[ops[c].id] \in B
  <2> SUFFICES ASSUME ~s.raised PROVE t.val[ops[c].id] \in B
    OBVIOUS
  <2>1. Operand(env, Join) # NoValue
    BY <1>10, <1>11, Numbers DEF NewIds
  <2>2. Operand(env, Join) \in Machine \cup t.done
    BY <1>2, <1>4, <1>5, <1>14, <2>1, Needs
  <2>3. ops[c].id \in t.done /\ ops[c].id \notin s.done
    BY <1>7, <1>10, <1>11, <1>12, <2>2 DEF NewIds
  <2>4. QED
    BY <1>8, <2>3
<1> HIDE DEF s, t, t2, M, f
<1>16. /\ t2.raised = t.raised /\ t2.trace = t.trace /\ \A d \in Refs : t2.mem[d] = t.mem[d]
       /\ t2.done = IF ~s.raised THEN t.done \cup {JoinId} ELSE t.done
       /\ \A v \in Ids : t2.val[v] = IF ~s.raised /\ v = JoinId THEN t.val[ops[c].id] ELSE t.val[v]
  BY <1>3, <1>10, <1>13, <1>14 DEF Gives
<1>17. JoinId \in NewIds /\ JoinId \in Ids /\ NewIds = Ids \ Machine /\ Machine \subseteq Ids
  BY Numbers DEF NewIds
<1>18. Agree(s, t2, f, Shared, Machine \cup s.done)
  <2>1. \A v \in Machine \cup s.done : v \in Ids /\ v # JoinId /\ f[v] = v
    BY <1>7, <1>17 DEF f
  <2>2. \A d \in Shared : d \in Refs
    BY DEF Shared, Refs
  <2>3. \A v \in Machine \cup s.done : t2.val[f[v]] = s.val[v]
    BY <1>8, <1>16, <2>1 DEF Agree
  <2>4. QED
    BY <1>8, <1>16, <2>2, <2>3 DEF Agree
<1>19. ~s.raised => t2.val[ops[c].id] = s.mem["x"] /\ t2.val[JoinId] = s.mem["x"]
  BY <1>9, <1>11, <1>16, <1>17
<1>20. ASSUME NEW v \in t2.done, v \notin s.done
       PROVE  v \in Definers \cup {JoinId} /\ t2.val[v] \in B
  <2>1. CASE v = JoinId /\ ~s.raised
    BY <1>15, <1>16, <1>17, <2>1
  <2>2. CASE ~(v = JoinId /\ ~s.raised)
    <3>1. v \in t.done /\ v \in Ids
      BY <1>6, <1>16, <1>20, <2>2 DEF States
    <3>2. QED
      BY <1>8, <1>16, <1>20, <2>2, <3>1
  <2>3. QED
    BY <2>1, <2>2
<1>21. QED
  BY <1>9, <1>18, <1>19, <1>20 DEF Promotes, s, t2, M, f

(* A stretch of operations, the join before it or not.                     *)
LEMMA PromoteSpan ==
  ASSUME NEW junk, NEW env, NEW k, NEW B, Promoting(junk, env, k, B),
         NEW a \in 1..Len(ops), NEW b \in 1..Len(ops), a <= b, NEW d \in {0, 1},
         b + d <= Len(Unsettled(k)), NEW J \in BOOLEAN,
         \A i \in (a + 1)..b : /\ Unsettled(k)[i + d] = PromotedOp(i, k)
                               /\ J => ops[i].blk = 3
                               /\ ~J /\ WriteIn(2) => ops[i].blk < 3,
         Promotes(junk, env, k, B, a, a + d, J)
  PROVE  Promotes(junk, env, k, B, b, b + d, J)
<1> DEFINE M == Unsettled(k)
           T == {n \in Nat : Promotes(junk, env, k, B, n, n + d, J)}
<1>1. Len(ops) \in Nat /\ Len(M) \in Nat /\ a \in Nat /\ b \in Nat /\ d \in Nat
  BY PromotingFacts
<1>2. ASSUME NEW n \in a..(b - 1), n \in T PROVE n + 1 \in T
  <2>1. /\ n \in 1..(Len(ops) - 1) /\ n + 1 \in (a + 1)..b /\ n \in Nat /\ n + 1 \in Nat
        /\ n + d \in 1..(Len(M) - 1)
        /\ (n + d) + 1 = (n + 1) + d
    BY <1>1, <1>2
  <2>2. /\ M[(n + d) + 1] = PromotedOp(n + 1, k)
        /\ J => ops[n + 1].blk = 3
        /\ ~J /\ WriteIn(2) => ops[n + 1].blk < 3
    BY <2>1
  <2>3. Promotes(junk, env, k, B, n, n + d, J)
    BY <1>2
  <2> HIDE DEF M, T
  <2>4. Promotes(junk, env, k, B, n + 1, (n + d) + 1, J)
    BY <2>1, <2>2, <2>3, PromoteStep DEF M
  <2>5. QED
    BY <2>1, <2>4 DEF T
<1>3. a \in T
  BY <1>1
<1> HIDE DEF M, T
<1>4. \A n \in a..b : n \in T
  BY <1>1, <1>2, <1>3, Progress
<1>5. b \in a..b
  BY <1>1
<1>6. b \in T
  BY <1>4, <1>5
<1>7. QED
  BY <1>6 DEF T

(* The whole list.                                                         *)
LEMMA PromoteAll ==
  ASSUME NEW junk, NEW env, NEW k, NEW B, Promoting(junk, env, k, B)
  PROVE  \E J \in BOOLEAN : Promotes(junk, env, k, B, Len(ops), Len(Unsettled(k)), J)
<1> DEFINE M == Unsettled(k)
           N == Len(ops)
<1>1. /\ N \in Nat /\ N >= 1 /\ DOMAIN ops = 1..N /\ ops[1].op = "object" /\ 1 \in 1..N
      /\ Len(M) \in Nat /\ k \in Kinds
  BY PromotingFacts
<1>2. Valid(ops)
  BY DEF Promoting
<1>3. Promotes(junk, env, k, B, 1, 1, FALSE)
  BY PromoteStart
<1>4. /\ Len(M) = IF WriteIn(2) THEN N + 1 ELSE N
      /\ \A i \in 1..N : M[Place(i)] = PromotedOp(i, k)
  BY <1>1, <1>2, UnsettledIs
<1>5. CASE ~WriteIn(2)
  <2>1. \A i \in (1 + 1)..N : M[i + 0] = PromotedOp(i, k)
    <3>1. TAKE i \in (1 + 1)..N
    <3>2. i \in 1..N /\ i + 0 = i
      BY <1>1
    <3>3. Place(i) = i
      BY <1>5 DEF Place
    <3>4. QED
      BY <1>4, <3>2, <3>3
  <2>2. Len(M) = N /\ N + 0 = N /\ 1 + 0 = 1 /\ N \in 1..N /\ N + 0 <= Len(M) /\ 1 <= N
    BY <1>1, <1>4, <1>5
  <2>3. Promotes(junk, env, k, B, 1, 1 + 0, FALSE)
    BY <1>3, <2>2
  <2> HIDE DEF M, N
  <2>4. Promotes(junk, env, k, B, N, N + 0, FALSE)
    BY <1>1, <1>5, <2>1, <2>2, <2>3, PromoteSpan DEF M, N
  <2>5. QED
    BY <2>2, <2>4 DEF M, N
<1>6. CASE WriteIn(2)
  <2> DEFINE S == StartOfJoin
             c == S - 1
  <2>1. S \in 2..(N + 1) /\ \A i \in 1..N : ops[i].blk < 3 <=> i < S
    BY <1>1, <1>2, JoinStarts
  <2>2. /\ c \in 1..N /\ c + 1 = S /\ c \in Nat /\ 1 <= c /\ c + 0 = c /\ 1 + 0 = 1
        /\ Len(M) = N + 1 /\ c + 0 <= Len(M) /\ N \in 1..N /\ c <= N /\ N + 1 <= Len(M)
        /\ S \in Nat
    BY <1>1, <1>4, <1>6, <2>1
  <2>3. \A i \in (1 + 1)..c : M[i + 0] = PromotedOp(i, k) /\ ops[i].blk < 3
    <3>1. TAKE i \in (1 + 1)..c
    <3>2. i \in 1..N /\ i + 0 = i /\ i < S /\ ~(i >= S)
      BY <1>1, <2>2
    <3>3. Place(i) = i
      BY <3>2 DEF Place
    <3>4. QED
      BY <1>4, <2>1, <3>2, <3>3
  <2>4. \A i \in (c + 1)..N : M[i + 1] = PromotedOp(i, k) /\ ops[i].blk = 3
    <3>1. TAKE i \in (c + 1)..N
    <3>2. i \in 1..N /\ i >= S /\ ~(i < S)
      BY <1>1, <2>2
    <3>3. Place(i) = i + 1
      BY <1>6, <3>2 DEF Place
    <3>4. ops[i].blk \in 1..3
      BY <1>2, <3>2, BlockOrder
    <3>5. QED
      BY <1>4, <2>1, <3>2, <3>3, <3>4
  <2>5. Promotes(junk, env, k, B, 1, 1 + 0, FALSE)
    BY <1>3, <2>2
  <2> HIDE DEF M, N, S, c
  <2>6. Promotes(junk, env, k, B, c, c + 0, FALSE)
    BY <1>1, <2>2, <2>3, <2>5, PromoteSpan DEF M, N
  <2>7. Promotes(junk, env, k, B, c, c + 1, TRUE)
    <3>1. Promotes(junk, env, k, B, c, c, FALSE)
      BY <2>2, <2>6
    <3>2. QED
      BY <1>6, <2>2, <3>1, PromoteJoin DEF N, S
  <2>8. Promotes(junk, env, k, B, N, N + 1, TRUE)
    BY <1>1, <2>2, <2>4, <2>7, PromoteSpan DEF M, N
  <2>9. QED
    BY <2>2, <2>8 DEF M, N
<1>7. QED
  BY <1>5, <1>6

(* Two executions show the same.                                           *)
Alikes(s, t) == t.raised = s.raised /\ t.trace = s.trace /\ \A c \in Shared : t.mem[c] = s.mem[c]

LEMMA PromoteShows ==
  ASSUME NEW junk, NEW env, NEW k, NEW B, Promoting(junk, env, k, B)
  PROVE  /\ Alikes(Executed(ops, junk), Executed(Unsettled(k), env))
         /\ Held(Unsettled(k), env, B)
<1> DEFINE M == Unsettled(k)
           N == Len(ops)
           s == Executed(ops, junk)
           t == Executed(M, env)
<1>1. /\ N \in Nat /\ DOMAIN ops = 1..N /\ 1 \in 1..N /\ ops[1].op = "object"
      /\ Len(M) \in Nat /\ k \in Kinds /\ N \in 0..N
      /\ \A i \in 1..N : /\ ops[i].op \in {"object", "read", "write", "check", "call", "requalify"}
                         /\ ops[i].id # JoinId /\ ops[i].id \in NewIds
                         /\ Replaces(i, k, PromotedOp(i, k))
      /\ \A i \in 1..N, j \in 1..N : i # j => ops[i].id # ops[j].id
  BY PromotingFacts
<1>2. /\ Valid(ops) /\ Held(ops, junk, B) /\ Nominal \subseteq B
  BY DEF Promoting
<1>3. PICK J \in BOOLEAN : Promotes(junk, env, k, B, N, Len(M), J)
  BY PromoteAll
<1>4. s = After(ops, junk)[N] /\ t = After(M, env)[Len(M)]
  BY DEF Executed
<1>5. /\ Agree(s, t, [v \in Ids |-> v], Shared, Machine \cup s.done)
      /\ \A v \in t.done : v \in s.done \/ (v \in Definers \cup {JoinId} /\ t.val[v] \in B)
  BY <1>3, <1>4 DEF Promotes
<1>6. \A v \in s.done : /\ v \in NewIds /\ v # JoinId /\ v \notin Definers
                        /\ \E j \in 1..N : ops[j].id = v /\ ops[j].op \in Kinded
  BY <1>1, <1>4, PromotingFacts
<1> HIDE DEF s, t, M
<1>7. Alikes(s, t)
  BY <1>5 DEF Agree, Alikes
<1>8. \A v \in s.done : t.val[v] = s.val[v]
  <2>1. \A v \in s.done : v \in Ids
    BY <1>6 DEF NewIds
  <2>2. QED
    BY <1>5, <2>1 DEF Agree
<1>9. ASSUME NEW q \in Whole(M), q.op \in Kinded, q.id \in t.done
      PROVE  t.val[q.id] \in (IF q.type = "nominal" THEN Nominal ELSE B)
  <2>1. PICK m \in 1..Len(M) : q = M[m]
    BY <1>9 DEF Whole, Upto
  <2>2. \/ \E i \in 1..N : q = PromotedOp(i, k)
        \/ WriteIn(2) /\ q = Join
    BY <1>1, <1>2, <2>1, UnsettledIs DEF M
  <2>3. CASE WriteIn(2) /\ q = Join
    <3>1. q.id = JoinId /\ q.type = "base"
      BY <1>1, <1>2, <2>3, JoinIs
    <3>2. QED
      BY <1>5, <1>6, <1>9, <3>1
  <2>4. ASSUME NEW i \in 1..N, q = PromotedOp(i, k)
        PROVE  t.val[q.id] \in (IF q.type = "nominal" THEN Nominal ELSE B)
    <3>1. Replaces(i, k, q) /\ q.id = ops[i].id /\ q.id # JoinId
      BY <1>1, <2>4 DEF Replaces
    <3>2. CASE Defines(ops[i])
      <4>1. q.type = "base" /\ q.id \in Definers
        BY <3>1, <3>2 DEF Replaces, Definers
      <4>2. QED
        BY <1>5, <1>6, <1>9, <4>1
    <3>3. CASE ~Defines(ops[i])
      <4>1. q.id \notin Definers
        BY <1>1, <3>1, <3>3 DEF Definers
      <4>2. q.id \in s.done
        BY <1>5, <1>9, <3>1, <4>1
      <4>3. ops[i].op \in Kinded
        <5>1. PICK j \in 1..N : ops[j].id = q.id /\ ops[j].op \in Kinded
          BY <1>6, <4>2
        <5>2. i = j
          BY <1>1, <3>1, <5>1
        <5>3. QED
          BY <5>1, <5>2
      <4>4. q.type = ops[i].type
        BY <3>1, <3>3 DEF Replaces
      <4>5. ops[i] \in Whole(ops)
        BY DEF Whole, Upto
      <4>6. s.val[q.id] \in (IF q.type = "nominal" THEN Nominal ELSE B)
        BY <1>2, <3>1, <4>2, <4>3, <4>4, <4>5 DEF Held, s
      <4>7. QED
        BY <1>8, <4>2, <4>6
    <3>4. QED
      BY <3>2, <3>3
  <2>5. QED
    BY <2>2, <2>3, <2>4
<1>10. Held(M, env, B)
  BY <1>9 DEF Held, t
<1>11. QED
  BY <1>7, <1>10 DEF M, s, t

LEMMA Requalifies ==
  ASSUME NEW L, NEW M, NEW env, Keeps(L, M, env)
  PROVE  Alikes(Executed(L, env), Executed(M, env))
BY DEF Keeps, Alikes

LEMMA AlikeChain ==
  ASSUME NEW r, NEW s, NEW t, Alikes(r, s), Alikes(s, t)
  PROVE  Alikes(r, t)
BY DEF Alikes

(* Promotion as a whole: env shows what the list shows where storage never *)
(* written holds the default, and values are in their types all the same.  *)
LEMMA PromotionKeeps ==
  ASSUME Valid(ops), Early(ops), NEW o \in DOMAIN ops, ops[o].op = "object",
         NEW k \in Kinds, Promotable(k)
  PROVE  LET M == Promoted(k) IN
         /\ Valid(M) /\ Early(M) /\ \A q \in Whole(M) : q.op # "object"
         /\ \A env \in Environments, B \in SUBSET Machine :
              LET junk == [env EXCEPT !.junk = Default(k)] IN
              Nominal \subseteq B /\ Default(k) \in B /\ Held(ops, junk, B) =>
                Alikes(Executed(ops, junk), Executed(M, env)) /\ Held(M, env, B)
<1> DEFINE L == Unsettled(k)
           ids == {ops[i].id : i \in {j \in DOMAIN ops : ops[j].op \in {"object", "read", "write"}}}
           M == Requalified(L, ids)
<1>1. Promoted(k) = M
  BY DEF Promoted, Unsettled
<1>2. Valid(L)
  BY UnsettledValid
<1> HIDE DEF L, ids, M
<1>3. /\ Valid(M)
      /\ \A q \in Whole(M) : \E p \in Whole(L) : Alike(p, q)
      /\ \A env \in Environments : Keeps(L, M, env)
  BY <1>2, RequalifiedKeeps DEF M
<1>4. ASSUME NEW p \in Whole(L)
      PROVE  /\ p.op \notin {"object", "alloca", "load", "store"}
             /\ IF p.op = "join" THEN p.id = JoinId ELSE p.id \in Fresh..(Fresh + MaxOps)
  <2>1. PICK m \in 1..Len(L) : p = L[m]
    BY <1>4 DEF Whole, Upto
  <2>2. \/ \E i \in 1..Len(ops) : p = PromotedOp(i, k)
        \/ WriteIn(2) /\ p = Join
    BY <2>1, UnsettledIs DEF L
  <2>3. CASE WriteIn(2) /\ p = Join
    BY <2>3, JoinIs
  <2>4. ASSUME NEW i \in 1..Len(ops), p = PromotedOp(i, k)
        PROVE  /\ p.op \notin {"object", "alloca", "load", "store"}
               /\ IF p.op = "join" THEN p.id = JoinId ELSE p.id \in Fresh..(Fresh + MaxOps)
    <3>1. Replaces(i, k, p)
      BY <2>4, PromotedIs
    <3>2. DOMAIN ops = 1..Len(ops)
      BY BlockOrder
    <3>3. /\ ops[i].op \notin {"alloca", "load", "store", "join", "constant"}
          /\ ops[i].id \in Fresh..(Fresh + MaxOps)
      BY <3>2 DEF Early
    <3>4. QED
      BY <3>1, <3>3 DEF Replaces, Defines
  <2>5. QED
    BY <2>2, <2>3, <2>4
<1>5. \A i \in 1..Len(M) : M[i] \in Whole(M)
  BY DEF Whole, Upto
<1>6. \A q \in Whole(M) :
        /\ q.op \notin {"object", "alloca", "load", "store"}
        /\ IF q.op = "join" THEN q.id = JoinId ELSE q.id \in Fresh..(Fresh + MaxOps)
  BY <1>3, <1>4 DEF Alike
<1>7. Early(M) /\ \A q \in Whole(M) : q.op # "object"
  BY <1>5, <1>6 DEF Early
<1>8. ASSUME NEW env \in Environments, NEW B \in SUBSET Machine,
             Nominal \subseteq B, Default(k) \in B, Held(ops, [env EXCEPT !.junk = Default(k)], B)
      PROVE  /\ Alikes(Executed(ops, [env EXCEPT !.junk = Default(k)]), Executed(M, env))
             /\ Held(M, env, B)
  <2> DEFINE junk == [env EXCEPT !.junk = Default(k)]
  <2>1. \A i \in UsersOf(ops, "x") : ops[i].op \in {"read", "write"}
    BY DEF Promotable
  <2>2. Promoting(junk, env, k, B)
    BY <1>8, <2>1 DEF Promoting
  <2> HIDE DEF junk
  <2>3. Alikes(Executed(ops, junk), Executed(L, env)) /\ Held(L, env, B)
    BY <2>2, PromoteShows DEF L
  <2>4. Alikes(Executed(L, env), Executed(M, env)) /\ Held(M, env, B)
    BY <1>3, <2>3, Requalifies, KeepsHeld
  <2>5. QED
    BY <2>3, <2>4, AlikeChain DEF junk
<1>9. QED
  BY <1>1, <1>3, <1>7, <1>8

-----------------------------------------------------------------------------
(* The operations lowering makes *)

Alloca(o) == [Operation("alloca", o.id, o.blk) EXCEPT !.ref = "x", !.type = "base"]
Save(o, ref) == [Operation("store", o.id, o.blk) EXCEPT !.ref = ref, !.val = LoweredId(o.id)]
Load(o) == [Operation("load", LoweredId(o.id), o.blk) EXCEPT !.ref = o.ref, !.type = "base"]
Helper(o) == [o EXCEPT !.id = LoweredId(@)]

LEMMA AllocaIs ==
  ASSUME NEW o \in Records, o.blk = 1
  PROVE  LET q == Alloca(o) IN
         /\ q \in Records /\ Shaped(q)
         /\ q.op = "alloca" /\ q.id = o.id /\ q.blk = o.blk /\ q.val = NoValue /\ q.alt = NoValue
<1> DEFINE a == Operation("alloca", o.id, o.blk)
           b == [a EXCEPT !.ref = "x"]
           c == [op |-> "alloca", id |-> o.id, blk |-> o.blk, ref |-> "x", refs |-> {},
                 val |-> NoValue, alt |-> NoValue, type |-> "base"]
           q == Alloca(o)
<1>1. a = [op |-> "alloca", id |-> o.id, blk |-> o.blk, ref |-> None, refs |-> {},
           val |-> NoValue, alt |-> NoValue, type |-> "nominal"]
  BY DEF Operation
<1>2. q = [b EXCEPT !.type = "base"]
  BY DEF Alloca
<1> HIDE DEF a
<1>3. b = [op |-> "alloca", id |-> o.id, blk |-> o.blk, ref |-> "x", refs |-> {},
           val |-> NoValue, alt |-> NoValue, type |-> "nominal"]
  BY <1>1
<1> HIDE DEF b
<1>4. [b EXCEPT !.type = "base"] = c
  BY <1>3
<1>5. c \in Records /\ Shaped(c)
  BY Numbers DEF Records, Shaped, Vals, OpNames, Refs
<1> HIDE DEF q
<1>6. q = c
  BY <1>2, <1>4
<1>7. QED
  BY <1>5, <1>6 DEF q

LEMMA SaveIs ==
  ASSUME NEW o \in Records, LoweredId(o.id) \in NewIds, NEW ref \in Refs
  PROVE  LET q == Save(o, ref) IN
         /\ q \in Records /\ Shaped(q)
         /\ q.op = "store" /\ q.id = o.id /\ q.blk = o.blk /\ q.ref = ref
         /\ q.val = LoweredId(o.id) /\ q.alt = NoValue
<1> DEFINE v == LoweredId(o.id)
           a == Operation("store", o.id, o.blk)
           b == [a EXCEPT !.ref = ref]
           c == [op |-> "store", id |-> o.id, blk |-> o.blk, ref |-> ref, refs |-> {},
                 val |-> v, alt |-> NoValue, type |-> "nominal"]
           q == Save(o, ref)
<1>0. v \in Vals /\ v # NoValue
  BY Numbers DEF Vals, NewIds
<1>1. a = [op |-> "store", id |-> o.id, blk |-> o.blk, ref |-> None, refs |-> {},
           val |-> NoValue, alt |-> NoValue, type |-> "nominal"]
  BY DEF Operation
<1>2. q = [b EXCEPT !.val = v]
  BY DEF Save
<1> HIDE DEF a, v
<1>3. b = [op |-> "store", id |-> o.id, blk |-> o.blk, ref |-> ref, refs |-> {},
           val |-> NoValue, alt |-> NoValue, type |-> "nominal"]
  BY <1>1
<1> HIDE DEF b
<1>4. [b EXCEPT !.val = v] = c
  BY <1>3
<1>5. c \in Records /\ Shaped(c)
  BY <1>0, Numbers DEF Records, Shaped, OpNames, Vals
<1> HIDE DEF q
<1>6. q = c
  BY <1>2, <1>4
<1>7. QED
  BY <1>5, <1>6 DEF q, v

LEMMA LoadIs ==
  ASSUME NEW o \in Records, LoweredId(o.id) \in NewIds, o.ref \in Refs
  PROVE  LET q == Load(o) IN
         /\ q \in Records /\ Shaped(q)
         /\ q.op = "load" /\ q.op \in Kinded /\ q.id = LoweredId(o.id) /\ q.blk = o.blk
         /\ q.ref = o.ref /\ q.val = NoValue /\ q.alt = NoValue /\ q.type = "base"
<1> DEFINE v == LoweredId(o.id)
           a == Operation("load", v, o.blk)
           b == [a EXCEPT !.ref = o.ref]
           c == [op |-> "load", id |-> v, blk |-> o.blk, ref |-> o.ref, refs |-> {},
                 val |-> NoValue, alt |-> NoValue, type |-> "base"]
           q == Load(o)
<1>0. v \in NewIds
  OBVIOUS
<1>1. a = [op |-> "load", id |-> v, blk |-> o.blk, ref |-> None, refs |-> {},
           val |-> NoValue, alt |-> NoValue, type |-> "nominal"]
  BY DEF Operation
<1>2. q = [b EXCEPT !.type = "base"]
  BY DEF Load
<1> HIDE DEF a, v
<1>3. b = [op |-> "load", id |-> v, blk |-> o.blk, ref |-> o.ref, refs |-> {},
           val |-> NoValue, alt |-> NoValue, type |-> "nominal"]
  BY <1>1
<1> HIDE DEF b
<1>4. [b EXCEPT !.type = "base"] = c
  BY <1>3
<1>5. c \in Records /\ Shaped(c)
  BY <1>0, Numbers DEF Records, Shaped, OpNames, Vals
<1> HIDE DEF q
<1>6. q = c
  BY <1>2, <1>4
<1>7. QED
  BY <1>5, <1>6 DEF q, v, Kinded

LEMMA HelperIs ==
  ASSUME NEW o \in Records, LoweredId(o.id) \in NewIds
  PROVE  Helper(o) \in Records /\ Helper(o).id = LoweredId(o.id) /\ Helper(o).blk = o.blk
<1> DEFINE v == LoweredId(o.id)
<1>1. Helper(o) = [o EXCEPT !.id = v]
  BY DEF Helper
<1>2. v \in NewIds
  OBVIOUS
<1> HIDE DEF v
<1>3. QED
  BY <1>1, <1>2 DEF Records, v

LEMMA OneAndOne ==
  ASSUME NEW a, NEW b
  PROVE  <<a>> \o <<b>> = <<a, b>>
<1> DEFINE S == {a, b}
           r == <<a>>
           s == <<b>>
           t == <<a, b>>
           u == r \o s
<1>1. r \in Seq(S) /\ s \in Seq(S) /\ t \in Seq(S) /\ u \in Seq(S)
  OBVIOUS
<1>2. Len(r) = 1 /\ Len(s) = 1 /\ Len(t) = 2 /\ r[1] = a /\ s[1] = b
  OBVIOUS
<1>3. t[1] = a /\ t[2] = b
  OBVIOUS
<1> HIDE DEF r, s, t
<1>4. Len(u) = 2 /\ u[1] = r[1] /\ u[2] = s[1]
  <2>1. /\ Len(u) = Len(r) + Len(s)
        /\ \A i \in 1..(Len(r) + Len(s)) : u[i] = IF i <= Len(r) THEN r[i] ELSE s[i - Len(r)]
    BY <1>1, ConcatProperties
  <2>2. 1 \in 1..(1 + 1) /\ 2 \in 1..(1 + 1) /\ 2 - 1 = 1 /\ 1 + 1 = 2 /\ 1 <= 1 /\ ~(2 <= 1)
    OBVIOUS
  <2> HIDE DEF u
  <2>3. QED
    BY <1>2, <2>1, <2>2
<1> HIDE DEF u
<1>5. \A i \in 1..2 : u[i] = t[i]
  BY <1>2, <1>3, <1>4
<1>6. u = t
  BY <1>1, <1>2, <1>4, <1>5, SeqEqual
<1>7. QED
  BY <1>6 DEF u, r, s, t

LEMMA OneAndTwo ==
  ASSUME NEW a, NEW b, NEW c
  PROVE  <<a>> \o <<b, c>> = <<a, b, c>>
<1> DEFINE S == {a, b, c}
           r == <<a>>
           s == <<b, c>>
           t == <<a, b, c>>
           u == r \o s
<1>1. r \in Seq(S) /\ s \in Seq(S) /\ t \in Seq(S) /\ u \in Seq(S)
  OBVIOUS
<1>2. Len(r) = 1 /\ Len(s) = 2 /\ Len(t) = 3 /\ r[1] = a /\ s[1] = b /\ s[2] = c
  OBVIOUS
<1>3. t[1] = a /\ t[2] = b /\ t[3] = c
  OBVIOUS
<1> HIDE DEF r, s, t
<1>4. Len(u) = 3 /\ u[1] = r[1] /\ u[2] = s[1] /\ u[3] = s[2]
  <2>1. /\ Len(u) = Len(r) + Len(s)
        /\ \A i \in 1..(Len(r) + Len(s)) : u[i] = IF i <= Len(r) THEN r[i] ELSE s[i - Len(r)]
    BY <1>1, ConcatProperties
  <2>2. 1 \in 1..(1 + 2) /\ 2 \in 1..(1 + 2) /\ 3 \in 1..(1 + 2) /\ 2 - 1 = 1 /\ 3 - 1 = 2
        /\ 1 + 2 = 3 /\ 1 <= 1 /\ ~(2 <= 1) /\ ~(3 <= 1)
    OBVIOUS
  <2> HIDE DEF u
  <2>3. QED
    BY <1>2, <2>1, <2>2
<1> HIDE DEF u
<1>5. \A i \in 1..3 : u[i] = t[i]
  BY <1>2, <1>3, <1>4
<1>6. u = t
  BY <1>1, <1>2, <1>4, <1>5, SeqEqual
<1>7. QED
  BY <1>6 DEF u, r, s, t

(* What an object, a read or a write becomes.                              *)
Reference(o) == o.op \in {"object", "read", "write"}

LEMMA LoweredOpIs ==
  ASSUME NEW o \in Records, Shaped(o)
  PROVE  /\ o.op = "object" /\ o.val = NoValue => LoweredOp(o) = <<Alloca(o)>>
         /\ o.op = "object" /\ o.val # NoValue =>
              LoweredOp(o) = <<Alloca(o), Requalify(Helper(o), o.val, "base"), Save(o, "x")>>
         /\ o.op = "read" => LoweredOp(o) = <<Load(o), Requalify(o, LoweredId(o.id), o.type)>>
         /\ o.op = "write" =>
              LoweredOp(o) = <<Requalify(Helper(o), o.val, "base"), Save(o, o.ref)>>
         /\ ~Reference(o) => LoweredOp(o) = <<o>>
<1> DEFINE v == LoweredId(o.id)
           h == [o EXCEPT !.id = v]
<1>1. h.id = v /\ Helper(o) = h
  BY DEF Records, Helper
<1>2. CASE o.op = "object"
  <2> DEFINE a == <<Alloca(o)>>
             q == Requalify(h, o.val, "base")
             s == [Operation("store", o.id, o.blk) EXCEPT !.ref = "x", !.val = h.id]
  <2>1. LoweredOp(o) = a \o (IF o.val = NoValue THEN <<>> ELSE <<q, s>>)
    BY <1>2 DEF LoweredOp, Alloca
  <2>2. s = Save(o, "x")
    BY <1>1 DEF Save
  <2> HIDE DEF q, s, h
  <2>3. <<Alloca(o)>> \o <<>> = <<Alloca(o)>>
    OBVIOUS
  <2>4. <<Alloca(o)>> \o <<q, s>> = <<Alloca(o), q, s>>
    BY OneAndTwo
  <2>5. QED
    BY <1>1, <1>2, <2>1, <2>2, <2>3, <2>4 DEF q, Reference
<1>3. CASE o.op = "read"
  <2>1. LoweredOp(o) = <<[Operation("load", h.id, o.blk) EXCEPT !.ref = o.ref, !.type = "base"],
                         Requalify(o, h.id, o.type)>>
    BY <1>3 DEF LoweredOp
  <2>2. QED
    BY <1>1, <1>3, <2>1 DEF Load, Reference
<1>4. CASE o.op = "write"
  <2>1. LoweredOp(o) = <<Requalify(h, o.val, "base"),
                         [Operation("store", o.id, o.blk) EXCEPT !.ref = o.ref, !.val = h.id]>>
    BY <1>4 DEF LoweredOp
  <2>2. QED
    BY <1>1, <1>4, <2>1 DEF Save, Reference
<1>5. CASE ~Reference(o)
  BY <1>5 DEF LoweredOp, Reference
<1>6. QED
  BY <1>2, <1>3, <1>4, <1>5 DEF Reference

LEMMA Appends ==
  ASSUME NEW P \in Seq(Records), NEW a \in Records, NEW b \in Records, NEW c \in Records
  PROVE  /\ P \o <<a>> = Append(P, a)
         /\ P \o <<a, b>> = Append(Append(P, a), b)
         /\ P \o <<a, b, c>> = Append(Append(Append(P, a), b), c)
<1>1. \A Q \in Seq(Records), d \in Records : Q \o <<d>> = Append(Q, d) /\ Append(Q, d) \in Seq(Records)
  BY AppendIsConcat
<1>2. <<a>> \in Seq(Records) /\ <<b>> \in Seq(Records) /\ <<c>> \in Seq(Records)
      /\ <<b, c>> \in Seq(Records)
  OBVIOUS
<1>3. \A Q \in Seq(Records) : Q \o <<b, c>> = Append(Append(Q, b), c)
  <2>1. TAKE Q \in Seq(Records)
  <2>2. <<b, c>> = <<b>> \o <<c>>
    BY OneAndOne
  <2>3. Q \o (<<b>> \o <<c>>) = (Q \o <<b>>) \o <<c>>
    BY <1>2, ConcatAssociative
  <2>4. QED
    BY <1>1, <2>2, <2>3
<1>4. P \o <<a, b>> = Append(Append(P, a), b)
  <2>1. <<a, b>> = <<a>> \o <<b>>
    BY OneAndOne
  <2>2. P \o (<<a>> \o <<b>>) = (P \o <<a>>) \o <<b>>
    BY <1>2, ConcatAssociative
  <2>3. QED
    BY <1>1, <2>1, <2>2
<1>5. P \o <<a, b, c>> = Append(Append(Append(P, a), b), c)
  <2>1. <<a, b, c>> = <<a>> \o <<b, c>>
    BY OneAndTwo
  <2>2. P \o (<<a>> \o <<b, c>>) = (P \o <<a>>) \o <<b, c>>
    BY <1>2, ConcatAssociative
  <2>3. QED
    BY <1>1, <1>3, <2>1, <2>2
<1>6. QED
  BY <1>1, <1>4, <1>5

-----------------------------------------------------------------------------
(* The list lowering makes, before requalifications are dropped *)

Pieces == [i \in DOMAIN ops |-> LoweredOp(ops[i])]
Spread(F) ==
  /\ F \in [0..Len(ops) -> Seq(Records)] /\ F[0] = <<>>
  /\ \A n \in 1..Len(ops) : F[n] = F[n - 1] \o LoweredOp(ops[n])

LEMMA Spreads ==
  ASSUME Len(ops) \in Nat, DOMAIN ops = 1..Len(ops),
         \A n \in 1..Len(ops) : LoweredOp(ops[n]) \in Seq(Records)
  PROVE  \E F : Spread(F) /\ FlattenSeq(Pieces) = F[Len(ops)]
<1> DEFINE N == Len(ops)
           g == [n \in 1..N |-> [s \in Seq(Records) |-> s \o LoweredOp(ops[n])]]
<1>1. g \in [1..N -> [Seq(Records) -> Seq(Records)]]
  BY ConcatProperties
<1>2. <<>> \in Seq(Records)
  OBVIOUS
<1>3. PICK F \in [0..N -> Seq(Records)] : F[0] = <<>> /\ \A n \in 1..N : F[n] = g[n][F[n - 1]]
  <2> HIDE DEF g, N
  <2>1. N \in Nat
    BY DEF N
  <2>2. Steps(N, Seq(Records), <<>>, g)
    BY <1>1, <1>2, <2>1, Recursion
  <2>3. QED
    BY <2>2 DEF Steps
<1>4. \A n \in 1..N : F[n] = F[n - 1] \o LoweredOp(ops[n])
  <2>1. TAKE n \in 1..N
  <2>2. n - 1 \in 0..N
    OBVIOUS
  <2>3. F[n - 1] \in Seq(Records) /\ F[n] = g[n][F[n - 1]]
    BY <1>3, <2>2
  <2>4. QED
    BY <2>3
<1>5. Spread(F)
  BY <1>3, <1>4 DEF Spread
<1>6. /\ DOMAIN Pieces = 1..N /\ Len(Pieces) = N
      /\ \A n \in 1..N : Pieces[n] = LoweredOp(ops[n])
  <2>1. DOMAIN Pieces = 1..N /\ \A n \in 1..N : Pieces[n] = LoweredOp(ops[n])
    BY DEF Pieces
  <2>2. Pieces \in Seq(Seq(Records))
    <3> DEFINE e(n) == LoweredOp(ops[n])
    <3>1. Pieces = [n \in 1..N |-> e(n)]
      BY DEF Pieces
    <3> HIDE DEF e
    <3>2. \A n \in 1..N : e(n) \in Seq(Records)
      BY DEF e
    <3>3. [n \in 1..N |-> e(n)] \in Seq(Seq(Records))
      BY <3>2, IsASeq
    <3>4. QED
      BY <3>1, <3>3
  <2>3. QED
    BY <2>1, <2>2, LenProperties
<1>7. CASE N = 0
  <2>1. FlattenSeq(Pieces) = Pieces
    BY <1>6, <1>7 DEF FlattenSeq
  <2>2. Pieces = <<>>
    BY <1>6, <1>7
  <2>3. QED
    BY <1>3, <1>5, <1>7, <2>1, <2>2
<1>8. CASE N # 0
  <2> DEFINE Q(f) == [i \in 1..N |-> IF i = 1 THEN Pieces[i] ELSE f[i - 1] \o Pieces[i]]
             f == [i \in 1..N |-> F[i]]
             flat == CHOOSE h : h = Q(h)
  <2>1. FlattenSeq(Pieces) = flat[N]
    BY <1>6, <1>8 DEF FlattenSeq
  <2>2. f[1] = Pieces[1]
    <3>1. 1 \in 1..N /\ 1 - 1 = 0
      BY <1>8
    <3>2. F[1] = <<>> \o LoweredOp(ops[1])
      BY <1>3, <1>4, <3>1
    <3>3. QED
      BY <1>6, <3>1, <3>2, ConcatEmptySeq
  <2>3. \A i \in 1..N : i # 1 => f[i] = f[i - 1] \o Pieces[i]
    <3>1. TAKE i \in 1..N
    <3>2. HAVE i # 1
    <3>3. i - 1 \in 1..N
      BY <3>2
    <3>4. QED
      BY <1>4, <1>6, <3>3
  <2>4. f = Q(f)
    BY <2>2, <2>3
  <2>5. flat = Q(flat)
    BY <2>4
  <2> HIDE DEF flat, f
  <2>6. \A i \in 1..N : flat[i] = IF i = 1 THEN Pieces[i] ELSE flat[i - 1] \o Pieces[i]
    BY <2>5
  <2> DEFINE T == {i \in Nat : i \in 1..N /\ flat[i] = f[i]}
  <2>7. 1 \in T
    BY <1>8, <2>2, <2>6
  <2>8. ASSUME NEW i \in 1..(N - 1), i \in T PROVE i + 1 \in T
    <3>1. i + 1 \in 1..N /\ i + 1 # 1 /\ (i + 1) - 1 = i /\ i + 1 \in Nat
      BY <2>8
    <3>2. flat[i + 1] = flat[i] \o Pieces[i + 1] /\ f[i + 1] = f[i] \o Pieces[i + 1]
      BY <2>3, <2>6, <3>1
    <3>3. QED
      BY <2>8, <3>1, <3>2
  <2> HIDE DEF T
  <2>9. \A i \in 1..N : i \in T
    <3> HIDE DEF N
    <3>1. N \in Nat
      BY DEF N
    <3>2. QED
      BY <2>7, <2>8, <3>1, Progress
  <2>10. N \in T
    BY <1>8, <2>9
  <2>11. flat[N] = F[N]
    BY <1>8, <2>10 DEF T, f
  <2>12. QED
    BY <1>5, <2>1, <2>11
<1>9. QED
  BY <1>7, <1>8

(* What stands for an operation: one of its name, or that helps it.        *)
From(q, o) ==
  /\ q.blk = o.blk /\ ~Reference(q)
  /\ IF q.op \in Kinded
     THEN \/ q.id = o.id /\ o.op \in Kinded /\ q.type = o.type
          \/ Reference(o) /\ q.id = LoweredId(o.id) /\ q.type = "base"
     ELSE q.id = o.id
Helping(o) == IF Reference(o) THEN {LoweredId(o.id)} ELSE {}

LEMMA LowerFacts ==
  ASSUME Valid(ops), Early(ops)
  PROVE  /\ Len(ops) \in Nat /\ DOMAIN ops = 1..Len(ops)
         /\ \A i \in 1..Len(ops) :
              /\ Shaped(ops[i]) /\ ops[i] \in Records /\ ops[i].id \in NewIds
              /\ ops[i].op \in {"object", "read", "write", "check", "call", "constant",
                                "requalify", "join"}
              /\ Fits(Upto(ops, i - 1), ops[i])
              /\ Helping(ops[i]) \subseteq NewIds
              /\ Reference(ops[i]) => LoweredId(ops[i].id) \in NewIds
         /\ \A i \in 1..Len(ops), j \in 1..Len(ops) :
              /\ i # j => ops[i].id # ops[j].id
              /\ Reference(ops[i]) => LoweredId(ops[i].id) # ops[j].id
              /\ i # j /\ Reference(ops[i]) /\ Reference(ops[j]) =>
                   LoweredId(ops[i].id) # LoweredId(ops[j].id)
<1>1. Len(ops) \in Nat /\ DOMAIN ops = 1..Len(ops)
  BY BlockOrder
<1>2. \A i \in 1..Len(ops) :
        /\ Shaped(ops[i]) /\ ops[i] \in Records /\ ops[i].id \in NewIds
        /\ Fits(Upto(ops, i - 1), ops[i])
  BY ValidLists DEF Records
<1>3. \A i \in 1..Len(ops) :
        /\ ops[i].op \notin {"alloca", "load", "store"}
        /\ IF ops[i].op = "join" THEN ops[i].id = JoinId ELSE ops[i].id \in Fresh..(Fresh + MaxOps)
  BY DEF Early
<1>4. \A i \in 1..Len(ops) : Reference(ops[i]) => ops[i].id \in Fresh..(Fresh + MaxOps)
  BY <1>3 DEF Reference
<1>5. \A i \in 1..Len(ops), j \in 1..Len(ops) : j < i => ops[j].id # ops[i].id
  BY <1>3, ValidLists DEF Mere
<1>6. \A i \in 1..Len(ops), j \in 1..Len(ops) : i # j => ops[i].id # ops[j].id
  BY <1>1, <1>5
<1>7. \A i \in 1..Len(ops) : Reference(ops[i]) => LoweredId(ops[i].id) \in NewIds
  BY <1>4, Numbers
<1>8. \A i \in 1..Len(ops), j \in 1..Len(ops) :
        Reference(ops[i]) => LoweredId(ops[i].id) # ops[j].id
  BY <1>3, <1>4, Numbers
<1>9. \A i \in 1..Len(ops), j \in 1..Len(ops) :
        i # j /\ Reference(ops[i]) /\ Reference(ops[j]) => LoweredId(ops[i].id) # LoweredId(ops[j].id)
  BY <1>4, <1>6, Numbers
<1>10. \A i \in 1..Len(ops) :
         ops[i].op \in {"object", "read", "write", "check", "call", "constant", "requalify", "join"}
  BY <1>2, <1>3 DEF Records, OpNames
<1>11. \A i \in 1..Len(ops) : Helping(ops[i]) \subseteq NewIds
  BY <1>7 DEF Helping
<1>12. QED
  BY <1>1, <1>2, <1>6, <1>7, <1>8, <1>9, <1>10, <1>11

(* The list made of the first n operations.                                *)
Stands(n, P) ==
  /\ Valid(P)
  /\ \A q \in Whole(P) : \E j \in 1..n : From(q, ops[j])
  /\ \A v, S, T : Has(Upto(ops, n), v, S, T) => Has(Whole(P), v, S, T)

(* No name in it is one the next operation or its helper takes.            *)
LEMMA StandsApart ==
  ASSUME Valid(ops), Early(ops), NEW n \in Nat, n + 1 \in 1..Len(ops), NEW P, Stands(n, P),
         NEW q \in Whole(P)
  PROVE  LET o == ops[n + 1] IN
         /\ q.id # o.id /\ q.id \notin Helping(o) /\ q.blk <= o.blk
         /\ q.id \in NewIds
<1> DEFINE o == ops[n + 1]
<1>1. PICK j \in 1..n : From(q, ops[j])
  BY DEF Stands
<1>2. j \in 1..Len(ops) /\ j # n + 1 /\ j < n + 1
  BY LowerFacts
<1>3. q.id = ops[j].id \/ (Reference(ops[j]) /\ q.id = LoweredId(ops[j].id))
  BY <1>1 DEF From
<1>4. q.blk <= o.blk
  BY <1>1, <1>2, BlockOrder DEF From
<1>5. q.id # o.id /\ q.id \notin Helping(o)
  BY <1>2, <1>3, LowerFacts DEF Helping
<1>6. q.id \in NewIds
  BY <1>2, <1>3, LowerFacts
<1>7. QED
  BY <1>4, <1>5, <1>6

LEMMA LowerMore ==
  ASSUME Valid(ops), Early(ops), NEW n \in Nat, n + 1 \in 1..Len(ops), NEW P, Stands(n, P),
         NEW Q, Valid(Q), NEW X, Whole(Q) = Whole(P) \cup X,
         \A q \in X : From(q, ops[n + 1]),
         LET o == ops[n + 1] IN
         o.op \in Kinded => \E q \in X : /\ q.op \in Kinded /\ q.id = o.id
                                         /\ q.blk = o.blk /\ q.type = o.type
  PROVE  Stands(n + 1, Q)
<1> DEFINE o == ops[n + 1]
<1>1. \A q \in Whole(Q) : \E j \in 1..(n + 1) : From(q, ops[j])
  <2>1. TAKE q \in Whole(Q)
  <2>2. CASE q \in Whole(P)
    <3>1. PICK j \in 1..n : From(q, ops[j])
      BY <2>2 DEF Stands
    <3>2. j \in 1..(n + 1)
      OBVIOUS
    <3>3. QED
      BY <3>1, <3>2
  <2>3. CASE q \in X
    <3>1. n + 1 \in 1..(n + 1)
      OBVIOUS
    <3>2. QED
      BY <2>3, <3>1
  <2>4. QED
    BY <2>1, <2>2, <2>3
<1>2. Upto(ops, n + 1) = Upto(ops, n) \cup {o}
  BY UptoNext
<1>3. ASSUME NEW v, NEW S, NEW T, Has(Upto(ops, n + 1), v, S, T)
      PROVE  Has(Whole(Q), v, S, T)
  <2>1. CASE Has(Upto(ops, n), v, S, T)
    <3>1. Has(Whole(P), v, S, T)
      BY <2>1 DEF Stands
    <3>2. QED
      BY <3>1 DEF Has
  <2>2. CASE ~Has(Upto(ops, n), v, S, T)
    <3>1. o.op \in Kinded /\ o.id = v /\ o.blk \in S /\ o.type \in T
      BY <1>2, <1>3, <2>2 DEF Has
    <3>2. PICK q \in X : /\ q.op \in Kinded /\ q.id = o.id
                         /\ q.blk = o.blk /\ q.type = o.type
      BY <3>1
    <3>3. q \in Whole(Q)
      OBVIOUS
    <3>4. QED
      BY <3>1, <3>2, <3>3 DEF Has
  <2>3. QED
    BY <2>1, <2>2
<1>4. QED
  BY <1>1, <1>3 DEF Stands

Conversion(o) == Requalify(Helper(o), o.val, "base")
Return(o) == Requalify(o, LoweredId(o.id), o.type)

LEMMA ConversionIs ==
  ASSUME NEW o \in Records, LoweredId(o.id) \in NewIds, o.val \in Ids
  PROVE  LET h == Conversion(o) IN
         /\ h \in Records /\ Shaped(h)
         /\ h.op = "requalify" /\ h.id = LoweredId(o.id) /\ h.blk = o.blk /\ h.type = "base"
         /\ h.val = o.val /\ h.alt = NoValue
<1>1. Helper(o) \in Records /\ Helper(o).id = LoweredId(o.id) /\ Helper(o).blk = o.blk
  BY HelperIs
<1>2. "base" \in Types
  BY DEF Types
<1>3. QED
  BY <1>1, <1>2, RequalifyIs DEF Conversion

(* The list Q is P, the operation h that converts o's value and the store  *)
(* s of it, and each of the two fits where it stands.                       *)
Joined(P, h, s, Q, o, ref) ==
  /\ h \in Records /\ s \in Records /\ Shaped(h) /\ Shaped(s)
  /\ Valid(Append(P, h)) /\ Valid(Q) /\ Whole(Q) = Whole(P) \cup {h, s}
  /\ h.op = "requalify" /\ h.id = LoweredId(o.id) /\ h.blk = o.blk /\ h.type = "base"
  /\ h.val = o.val /\ h.alt = NoValue
  /\ s.op = "store" /\ s.id = o.id /\ s.blk = o.blk /\ s.ref = ref
  /\ s.val = LoweredId(o.id) /\ s.alt = NoValue

(* A value requalified, then stored.                                       *)
LEMMA SaveFits ==
  ASSUME NEW o \in Records, Shaped(o), LoweredId(o.id) \in NewIds, LoweredId(o.id) # o.id,
         NEW P, Valid(P), NEW ref \in Refs, o.val # NoValue,
         \A q \in Whole(P) : /\ q.blk <= o.blk /\ q.id # LoweredId(o.id)
                             /\ q.id = o.id => q.op \in Mere,
         Has(Whole(P), o.val, {1, o.blk}, Types)
  PROVE  Joined(P, Conversion(o), Save(o, ref),
               Append(Append(P, Conversion(o)), Save(o, ref)), o, ref)
<1> DEFINE h == Conversion(o)
           P1 == Append(P, h)
           s == Save(o, ref)
           P2 == Append(P1, s)
<1>1. o.val \in Ids /\ "base" \in Types
  BY DEF Records, Vals, Types
<1>2. /\ h \in Records /\ Shaped(h)
      /\ h.op = "requalify" /\ h.id = LoweredId(o.id) /\ h.blk = o.blk /\ h.type = "base"
      /\ h.val = o.val /\ h.alt = NoValue
  BY <1>1, ConversionIs
<1>3. /\ s \in Records /\ Shaped(s)
      /\ s.op = "store" /\ s.id = o.id /\ s.blk = o.blk /\ s.ref = ref
      /\ s.val = LoweredId(o.id) /\ s.alt = NoValue
  BY SaveIs
<1> HIDE DEF h, s
<1>4. Fits(Whole(P), h)
  BY <1>2 DEF Fits, Scope, Takes
<1>5. Valid(P1)
  BY <1>4, AppendValid DEF Whole
<1>6. P \in Seq(Records)
  BY DEF Valid
<1>7. Whole(P1) = Whole(P) \cup {h}
  BY <1>2, <1>6, UptoAppend DEF Whole
<1> HIDE DEF P1
<1>8. Has(Whole(P1), LoweredId(o.id), {1, o.blk}, {"base"})
  BY <1>2, <1>7 DEF Has, Kinded
<1>9. h.blk <= s.blk
  BY <1>2, <1>3 DEF Records
<1>10. Fits(Whole(P1), s)
  <2>1. \A q \in Whole(P1) : q.blk <= s.blk /\ (q.id = s.id => q.op \in Mere /\ s.op \in Mere)
    BY <1>2, <1>3, <1>7, <1>9 DEF Mere
  <2>2. Takes(s) = {"base"} /\ Scope(s) = {1, s.blk}
    BY <1>3 DEF Takes, Scope
  <2>3. QED
    BY <1>3, <1>8, <2>1, <2>2 DEF Fits
<1>11. Valid(P2)
  BY <1>5, <1>10, AppendValid DEF Whole
<1>12. P1 \in Seq(Records)
  BY <1>5 DEF Valid
<1>13. Whole(P2) = Whole(P1) \cup {s}
  BY <1>3, <1>12, UptoAppend DEF Whole
<1>14. Whole(P2) = Whole(P) \cup {h, s}
  BY <1>7, <1>13
<1>15. QED
  <2>1. Joined(P, h, s, P2, o, ref)
    <3>1. Append(P, h) = P1
      BY DEF P1
    <3> HIDE DEF P2
    <3>2. QED
      BY <1>2, <1>3, <1>5, <1>11, <1>14, <3>1 DEF Joined
  <2>2. QED
    BY <2>1 DEF h, s, P1

LEMMA ExecutedIs ==
  ASSUME NEW env \in Environments, NEW L, Listed(L)
  PROVE  Executed(L, env) \in States
<1>1. Len(L) \in 0..Len(L)
  BY DEF Listed
<1>2. \A n \in 0..Len(L) : After(L, env)[n] \in States
  BY RunIs
<1>3. QED
  BY <1>1, <1>2 DEF Executed

(* What executing that does.                                               *)
Saves(env, t, o, ref, u) ==
  /\ u \in States
  /\ ~Runs(env, t, o) => u = t
  /\ Runs(env, t, o) =>
       /\ u.raised = t.raised /\ u.trace = t.trace
       /\ \A c \in Refs : u.mem[c] = IF c = Cell(env, ref) THEN t.val[o.val] ELSE t.mem[c]
       /\ u.done = t.done \cup {LoweredId(o.id)}
       /\ \A v \in Ids : u.val[v] = IF v = LoweredId(o.id) THEN t.val[o.val] ELSE t.val[v]

LEMMA SaveRuns ==
  ASSUME NEW env \in Environments, NEW o \in Records, NEW P, NEW ref \in Refs,
         NEW h \in Records, NEW s \in Records, Shaped(h), Shaped(s),
         Valid(P), Valid(Append(P, h)),
         LoweredId(o.id) \in Ids,
         h.op = "requalify", h.id = LoweredId(o.id), h.blk = o.blk, h.val = o.val,
         s.op = "store", s.blk = o.blk, s.ref = ref, s.val = LoweredId(o.id)
  PROVE  Saves(env, Executed(P, env), o, ref, Executed(Append(Append(P, h), s), env))
<1> DEFINE t == Executed(P, env)
           P1 == Append(P, h)
           t1 == Executed(P1, env)
           t2 == Executed(Append(P1, s), env)
           w == LoweredId(o.id)
<1>1. Listed(P) /\ Listed(P1)
  BY ValidLists
<1>2. t1 = Execute(env, t, h) /\ t2 = Execute(env, t1, s)
  BY <1>1, AppendRuns
<1>3. t \in States /\ t1 \in States
  <2>1. t \in States
    BY <1>1, ExecutedIs
  <2>2. t1 \in States
    BY <1>1, ExecutedIs
  <2>3. QED
    BY <2>1, <2>2
<1> HIDE DEF t, t1, t2, P1
<1>4. Gives(env, t, h, t1)
  <2>1. MemoryEffectFree(h)
    BY DEF MemoryEffectFree
  <2>2. QED
    BY <1>2, <1>3, <2>1, Quiet
<1>5. Effect(env, t, h, t1) /\ Effect(env, t1, s, t2)
  BY <1>2, <1>3, Executes
<1>6. Operand(env, h) = o.val /\ w \in Ids
  BY DEF Operand
<1> HIDE DEF w
<1>7. ~Results(env, t1, s)
  BY DEF Results, Kinded
<1>8. CASE ~Runs(env, t, o)
  <2>1. ~Runs(env, t, h)
    BY <1>8 DEF Runs, Active
  <2>2. t1 = t
    BY <1>5, <2>1 DEF Effect
  <2>3. ~Runs(env, t1, s)
    BY <1>8, <2>2 DEF Runs, Active
  <2>4. t2 = t
    BY <1>5, <2>2, <2>3 DEF Effect
  <2>5. QED
    BY <1>3, <1>8, <2>4 DEF Saves, t, t2, P1
<1>9. CASE Runs(env, t, o)
  <2>1. Runs(env, t, h) /\ ~t.raised
    BY <1>9 DEF Runs, Active
  <2>2. /\ t1.raised = t.raised /\ t1.trace = t.trace /\ \A c \in Refs : t1.mem[c] = t.mem[c]
        /\ t1.done = t.done \cup {w}
        /\ \A v \in Ids : t1.val[v] = IF v = w THEN t.val[o.val] ELSE t.val[v]
    BY <1>4, <1>6, <2>1 DEF Gives, w
  <2>3. Runs(env, t1, s)
    <3>1. ~t1.raised
      BY <2>1, <2>2
    <3>2. QED
      BY <1>9, <3>1 DEF Runs, Active
  <2>4. \A c \in Refs : Stores(env, t1, s, c) <=> c = Cell(env, ref)
    BY <2>3 DEF Stores
  <2>5. \A c \in Refs : Stored(t1, s, c) = t1.val[w]
    BY DEF Stored, w
  <2>6. t1.raised \in BOOLEAN
    BY <1>3 DEF States
  <2>7. t2.raised = t1.raised /\ t2.trace = t1.trace /\ t2.done = t1.done
        /\ \A v \in Ids : t2.val[v] = t1.val[v]
    BY <1>5, <1>7, <2>6 DEF Effect
  <2>8. \A c \in Refs : t2.mem[c] = IF c = Cell(env, ref) THEN t1.val[w] ELSE t1.mem[c]
    BY <1>5, <2>4, <2>5 DEF Effect
  <2>9. t1.val[w] = t.val[o.val] /\ t2 \in States
    BY <1>5, <1>6, <2>2 DEF Effect
  <2>10. QED
    BY <1>9, <2>2, <2>7, <2>8, <2>9 DEF Saves, t, t2, P1, w
<1>10. QED
  BY <1>8, <1>9

(* The lists on the way from P to the one with the next operation.         *)
Grows(n, P) ==
  LET o == ops[n + 1]
      P1 == Append(P, Alloca(o))
  IN  /\ ~Reference(o) => Valid(Append(P, o)) /\ P \o LoweredOp(o) = Append(P, o)
      /\ o.op = "read" => /\ Valid(Append(P, Load(o))) /\ Shaped(Load(o)) /\ Shaped(Return(o))
                          /\ P \o LoweredOp(o) = Append(Append(P, Load(o)), Return(o))
      /\ o.op = "write" => /\ Valid(Append(P, Conversion(o)))
                           /\ Shaped(Conversion(o)) /\ Shaped(Save(o, o.ref))
                           /\ P \o LoweredOp(o) = Append(Append(P, Conversion(o)), Save(o, o.ref))
      /\ o.op = "object" => Valid(P1) /\ Shaped(Alloca(o))
      /\ o.op = "object" /\ o.val = NoValue => P \o LoweredOp(o) = P1
      /\ o.op = "object" /\ o.val # NoValue =>
           /\ Valid(Append(P1, Conversion(o))) /\ Shaped(Conversion(o)) /\ Shaped(Save(o, "x"))
           /\ P \o LoweredOp(o) = Append(Append(P1, Conversion(o)), Save(o, "x"))
      /\ Stands(n + 1, P \o LoweredOp(o))

LEMMA LowerOther ==
  ASSUME Valid(ops), Early(ops), NEW n \in Nat, n + 1 \in 1..Len(ops), NEW P, Stands(n, P),
         ~Reference(ops[n + 1])
  PROVE  Grows(n, P)
<1> DEFINE o == ops[n + 1]
           Q == Append(P, o)
<1>1. Shaped(o) /\ o \in Records /\ Fits(Upto(ops, (n + 1) - 1), o) /\ (n + 1) - 1 = n
  BY LowerFacts
<1>2. Valid(P) /\ P \in Seq(Records)
  BY DEF Stands, Valid
<1>3. \A q \in Whole(P) : q.id # o.id /\ q.blk <= o.blk
  BY StandsApart
<1>4. Fits(Whole(P), o)
  <2>1. o.op # "object"
    BY DEF Reference
  <2>2. \A v, S, T : Has(Upto(ops, n), v, S, T) => Has(Whole(P), v, S, T)
    BY DEF Stands
  <2>3. o.op # "constant" /\ o.val # NoValue => Has(Whole(P), o.val, Scope(o), Takes(o))
    BY <1>1, <2>1, <2>2 DEF Fits
  <2>4. o.op = "join" => Has(Whole(P), o.alt, {1}, {"base"})
    BY <1>1, <2>2 DEF Fits
  <2> HIDE DEF o
  <2>5. QED
    BY <1>1, <1>3, <2>1, <2>3, <2>4 DEF Fits
<1>5. Valid(Q)
  BY <1>2, <1>4, AppendValid DEF Whole
<1>6. Whole(Q) = Whole(P) \cup {o}
  BY <1>1, <1>2, UptoAppend DEF Whole
<1>7. From(o, o)
  BY <1>1 DEF From
<1>8. P \o LoweredOp(o) = Q
  <2>1. LoweredOp(o) = <<o>>
    BY <1>1, LoweredOpIs
  <2> HIDE DEF o
  <2>2. P \o <<o>> = Append(P, o)
    BY <1>1, <1>2, Appends
  <2>3. QED
    BY <2>1, <2>2
<1>9. Stands(n + 1, Q)
  <2>1. \A q \in {o} : From(q, o)
    BY <1>7
  <2>2. o.op \in Kinded => \E q \in {o} : q.op \in Kinded /\ q.id = o.id /\ q.blk = o.blk /\ q.type = o.type
    OBVIOUS
  <2>3. QED
    BY <1>5, <1>6, <2>1, <2>2, LowerMore
<1>10. o.op \notin {"read", "write", "object"}
  BY DEF Reference
<1>11. QED
  BY <1>5, <1>8, <1>9, <1>10 DEF Grows

LEMMA LowerRead ==
  ASSUME Valid(ops), Early(ops), NEW n \in Nat, n + 1 \in 1..Len(ops), NEW P, Stands(n, P),
         ops[n + 1].op = "read"
  PROVE  Grows(n, P)
<1> DEFINE o == ops[n + 1]
           a == Load(o)
           b == Return(o)
           P1 == Append(P, a)
           Q == Append(P1, b)
<1>1. /\ Shaped(o) /\ o \in Records /\ o.op = "read" /\ o.ref \in Refs
      /\ LoweredId(o.id) \in NewIds /\ LoweredId(o.id) \in Ids /\ LoweredId(o.id) # o.id
      /\ Reference(o) /\ o.type \in Types
  <2>1. Reference(o)
    BY DEF Reference
  <2>2. QED
    BY <2>1, LowerFacts DEF Shaped, NewIds, Records, Types
<1>2. Valid(P) /\ P \in Seq(Records)
  BY DEF Stands, Valid
<1>3. \A q \in Whole(P) : q.id # o.id /\ q.id # LoweredId(o.id) /\ q.blk <= o.blk
  BY <1>1, StandsApart DEF Helping
<1>4. /\ a \in Records /\ Shaped(a) /\ a.op = "load" /\ a.op \in Kinded /\ a.id = LoweredId(o.id)
      /\ a.blk = o.blk /\ a.val = NoValue /\ a.type = "base"
  BY <1>1, LoadIs
<1>5. /\ b \in Records /\ Shaped(b) /\ b.op = "requalify" /\ b.op \in Kinded
      /\ b.id = o.id /\ b.blk = o.blk /\ b.val = LoweredId(o.id) /\ b.type = o.type
  BY <1>1, RequalifyIs DEF Return
<1>6. P \o LoweredOp(o) = Q
  BY <1>1, <1>2, <1>4, <1>5, LoweredOpIs, Appends DEF Return
<1> HIDE DEF o, a, b
<1>7. Fits(Whole(P), a)
  BY <1>3, <1>4 DEF Fits
<1>8. Valid(P1)
  BY <1>2, <1>7, AppendValid DEF Whole
<1>9. Whole(P1) = Whole(P) \cup {a} /\ P1 \in Seq(Records)
  BY <1>2, <1>4, <1>8, UptoAppend DEF Whole, Valid
<1> HIDE DEF P1
<1>10. Has(Whole(P1), b.val, {1, b.blk}, Types)
  BY <1>4, <1>5, <1>9 DEF Has, Types
<1>11. Fits(Whole(P1), b)
  <2>1. Scope(b) = {1, b.blk} /\ Takes(b) = Types
    BY <1>5 DEF Scope, Takes
  <2>2. o.blk <= o.blk
    BY <1>1 DEF Records
  <2>3. \A q \in Whole(P1) : q.blk <= b.blk /\ q.id # b.id
    BY <1>1, <1>3, <1>4, <1>5, <1>9, <2>2
  <2>4. QED
    BY <1>5, <1>10, <2>1, <2>3 DEF Fits
<1>12. Valid(Q)
  BY <1>8, <1>11, AppendValid DEF Whole
<1>13. Whole(Q) = Whole(P) \cup {a, b}
  <2>1. Whole(Q) = Whole(P1) \cup {b}
    BY <1>5, <1>9, UptoAppend DEF Whole
  <2>2. QED
    BY <1>9, <2>1
<1>14. From(a, o) /\ From(b, o)
  BY <1>1, <1>4, <1>5 DEF From, Reference, Kinded
<1>15. Stands(n + 1, Q)
  <2>1. \A q \in {a, b} : From(q, o)
    BY <1>14
  <2>2. \E q \in {a, b} : q.op \in Kinded /\ q.id = o.id /\ q.blk = o.blk /\ q.type = o.type
    BY <1>5
  <2> HIDE DEF Q
  <2>3. QED
    BY <1>12, <1>13, <2>1, <2>2, LowerMore DEF o
<1>16. QED
  BY <1>1, <1>4, <1>5, <1>6, <1>8, <1>15 DEF Grows, o, a, b, P1, Reference

LEMMA LowerWrite ==
  ASSUME Valid(ops), Early(ops), NEW n \in Nat, n + 1 \in 1..Len(ops), NEW P, Stands(n, P),
         ops[n + 1].op = "write"
  PROVE  Grows(n, P)
<1> DEFINE o == ops[n + 1]
           h == Conversion(o)
           s == Save(o, o.ref)
           P1 == Append(P, h)
           Q == Append(P1, s)
<1>1. /\ Shaped(o) /\ o \in Records /\ o.op = "write" /\ o.ref \in Refs /\ o.val # NoValue
      /\ LoweredId(o.id) \in NewIds /\ LoweredId(o.id) \in Ids /\ LoweredId(o.id) # o.id
      /\ Reference(o)
  <2>1. Reference(o)
    BY DEF Reference
  <2>2. QED
    BY <2>1, LowerFacts DEF Shaped, NewIds
<1>2. Valid(P) /\ P \in Seq(Records)
  BY DEF Stands, Valid
<1>3. \A q \in Whole(P) : q.id # o.id /\ q.id # LoweredId(o.id) /\ q.blk <= o.blk
  BY <1>1, StandsApart DEF Helping
<1>4. Has(Whole(P), o.val, {1, o.blk}, Types)
  <2>1. Fits(Upto(ops, (n + 1) - 1), o) /\ (n + 1) - 1 = n
    BY LowerFacts
  <2>2. Has(Upto(ops, n), o.val, {1, o.blk}, {"nominal"})
    BY <1>1, <2>1 DEF Fits, Scope, Takes
  <2>3. Has(Whole(P), o.val, {1, o.blk}, {"nominal"})
    BY <2>2 DEF Stands
  <2>4. QED
    BY <2>3 DEF Has, Types
<1> HIDE DEF o
<1>5. \A q \in Whole(P) : /\ q.blk <= o.blk /\ q.id # LoweredId(o.id)
                          /\ q.id = o.id => q.op \in Mere
  BY <1>3
<1>6. /\ h \in Records /\ s \in Records /\ Shaped(h) /\ Shaped(s)
      /\ Valid(P1) /\ Valid(Q) /\ Whole(Q) = Whole(P) \cup {h, s}
      /\ h.op = "requalify" /\ h.id = LoweredId(o.id) /\ h.blk = o.blk /\ h.type = "base"
      /\ s.op = "store" /\ s.id = o.id /\ s.blk = o.blk
  <2>1. Joined(P, h, s, Q, o, o.ref)
    BY <1>1, <1>2, <1>4, <1>5, SaveFits
  <2>2. Append(P, h) = P1
    OBVIOUS
  <2> HIDE DEF h, s, P1, Q
  <2>3. QED
    BY <2>1, <2>2 DEF Joined
<1> HIDE DEF h, s
<1>7. P \o LoweredOp(o) = Q
  <2>1. LoweredOp(o) = <<h, s>>
    BY <1>1, LoweredOpIs DEF Conversion, h, s
  <2>2. P \o <<h, s>> = Q
    BY <1>2, <1>6, Appends
  <2>3. QED
    BY <2>1, <2>2
<1>8. From(h, o) /\ From(s, o)
  BY <1>1, <1>6 DEF From, Reference, Kinded
<1>9. Stands(n + 1, Q)
  <2>1. \A q \in {h, s} : From(q, o)
    BY <1>8
  <2>2. o.op \notin Kinded
    BY <1>1 DEF Kinded
  <2> HIDE DEF Q
  <2>3. QED
    BY <1>6, <2>1, <2>2, LowerMore DEF o
<1>10. QED
  BY <1>1, <1>6, <1>7, <1>9 DEF Grows, o, h, s, P1, Reference

LEMMA LowerObject ==
  ASSUME Valid(ops), Early(ops), NEW n \in Nat, n + 1 \in 1..Len(ops), NEW P, Stands(n, P),
         ops[n + 1].op = "object"
  PROVE  Grows(n, P)
<1> DEFINE o == ops[n + 1]
           a == Alloca(o)
           P1 == Append(P, a)
           h == Conversion(o)
           P2 == Append(P1, h)
           s == Save(o, "x")
           Q == Append(P2, s)
<1>1. /\ Shaped(o) /\ o \in Records /\ o.op = "object" /\ o.blk = 1
      /\ o.val \in Nominal \cup {NoValue}
      /\ LoweredId(o.id) \in NewIds /\ LoweredId(o.id) \in Ids /\ LoweredId(o.id) # o.id
      /\ Reference(o) /\ "x" \in Refs
  <2>1. Reference(o)
    BY DEF Reference
  <2>2. QED
    BY <2>1, LowerFacts DEF Shaped, NewIds, Refs
<1>2. Valid(P) /\ P \in Seq(Records)
  BY DEF Stands, Valid
<1>3. \A q \in Whole(P) : q.id # o.id /\ q.id # LoweredId(o.id) /\ q.blk <= o.blk
  BY <1>1, StandsApart DEF Helping
<1>4. /\ a \in Records /\ Shaped(a)
      /\ a.op = "alloca" /\ a.id = o.id /\ a.blk = o.blk /\ a.val = NoValue
  BY <1>1, AllocaIs
<1> HIDE DEF o, a
<1>5. Fits(Whole(P), a)
  BY <1>3, <1>4 DEF Fits
<1>6. Valid(P1)
  BY <1>2, <1>5, AppendValid DEF Whole
<1>7. Whole(P1) = Whole(P) \cup {a} /\ P1 \in Seq(Records)
  BY <1>2, <1>4, <1>6, UptoAppend DEF Whole, Valid
<1>8. From(a, o)
  BY <1>1, <1>4 DEF From, Reference, Kinded
<1>9. o.op \notin Kinded
  BY <1>1 DEF Kinded
<1>10. CASE o.val = NoValue
  <2>1. P \o LoweredOp(o) = P1
    <3>1. LoweredOp(o) = <<a>>
      BY <1>1, <1>10, LoweredOpIs DEF a
    <3>2. P \o <<a>> = P1
      BY <1>2, <1>4, Appends
    <3>3. QED
      BY <3>1, <3>2
  <2>2. Stands(n + 1, P1)
    <3>1. \A q \in {a} : From(q, o)
      BY <1>8
    <3> HIDE DEF P1
    <3>2. QED
      BY <1>6, <1>7, <1>9, <3>1, LowerMore DEF o
  <2>3. QED
    BY <1>1, <1>4, <1>6, <1>10, <2>1, <2>2 DEF Grows, o, a, Reference
<1>11. CASE o.val # NoValue
  <2> HIDE DEF P1
  <2>1. Has(Whole(P1), o.val, {1, o.blk}, Types)
    BY <1>1, <1>11 DEF Has, Types
  <2>2. \A q \in Whole(P1) : /\ q.blk <= o.blk /\ q.id # LoweredId(o.id)
                             /\ q.id = o.id => q.op \in Mere
    <3>1. o.blk <= o.blk
      BY <1>1
    <3>2. QED
      BY <1>1, <1>3, <1>4, <1>7, <3>1 DEF Mere
  <2>3. /\ h \in Records /\ s \in Records /\ Shaped(h) /\ Shaped(s)
        /\ Valid(P2) /\ Valid(Q) /\ Whole(Q) = Whole(P1) \cup {h, s}
        /\ h.op = "requalify" /\ h.id = LoweredId(o.id) /\ h.blk = o.blk /\ h.type = "base"
        /\ s.op = "store" /\ s.id = o.id /\ s.blk = o.blk
    <3>1. Joined(P1, h, s, Q, o, "x")
      BY <1>1, <1>6, <1>11, <2>1, <2>2, SaveFits
    <3>2. Append(P1, h) = P2
      OBVIOUS
    <3> HIDE DEF h, s, P2, Q
    <3>3. QED
      BY <3>1, <3>2 DEF Joined
  <2> HIDE DEF h, s
  <2>4. P \o LoweredOp(o) = Q
    <3>1. LoweredOp(o) = <<a, h, s>>
      BY <1>1, <1>11, LoweredOpIs DEF Conversion, a, h, s
    <3>2. P \o <<a, h, s>> = Q
      BY <1>2, <1>4, <2>3, Appends DEF P1
    <3>3. QED
      BY <3>1, <3>2
  <2>5. From(h, o) /\ From(s, o)
    BY <1>1, <2>3 DEF From, Reference, Kinded
  <2>6. Stands(n + 1, Q)
    <3>1. \A q \in {a, h, s} : From(q, o)
      BY <1>8, <2>5
    <3>2. Whole(Q) = Whole(P) \cup {a, h, s}
      BY <1>7, <2>3
    <3>3. Valid(Q)
      BY <2>3
    <3> HIDE DEF Q
    <3>4. QED
      BY <1>9, <3>1, <3>2, <3>3, LowerMore DEF o
  <2>7. QED
    BY <1>1, <1>4, <1>6, <1>11, <2>3, <2>4, <2>6 DEF Grows, o, a, h, s, P1, P2, Reference
<1>12. QED
  BY <1>10, <1>11

LEMMA LowerGrows ==
  ASSUME Valid(ops), Early(ops), NEW n \in Nat, n + 1 \in 1..Len(ops), NEW P, Stands(n, P)
  PROVE  Grows(n, P)
BY LowerOther, LowerRead, LowerWrite, LowerObject DEF Reference

-----------------------------------------------------------------------------
(* Lowering keeps what the list shows *)

Lowering(env, B) ==
  /\ Valid(ops) /\ Early(ops) /\ env \in Environments
  /\ Nominal \subseteq B /\ Held(ops, env, B)

(* After n operations of the list, and all of the list P made of them.     *)
Lowers(env, B, n, P) ==
  LET s == After(ops, env)[n]
      t == Executed(P, env)
  IN  /\ Agree(s, t, [v \in Ids |-> v], Refs, Machine \cup s.done)
      /\ \A v \in t.done : \/ v \in s.done
                           \/ t.val[v] \in B /\ \E j \in 1..n : v \in Helping(ops[j])

LEMMA LowersApart ==
  ASSUME NEW env, NEW B, Lowering(env, B), NEW n \in Nat, n + 1 \in 1..Len(ops),
         NEW P, Lowers(env, B, n, P)
  PROVE  LET o == ops[n + 1] IN
         /\ \A v \in Machine \cup After(ops, env)[n].done \cup Executed(P, env).done :
              v \in Ids /\ v # o.id /\ v \notin Helping(o)
         /\ \A v \in Machine \cup After(ops, env)[n].done :
              Executed(P, env).val[v] = After(ops, env)[n].val[v]
<1> DEFINE s == After(ops, env)[n]
           t == Executed(P, env)
           o == ops[n + 1]
<1>1. Valid(ops) /\ Early(ops) /\ env \in Environments
  BY DEF Lowering
<1>2. n \in 0..Len(ops) /\ \A j \in 1..n : j \in 1..Len(ops) /\ j # n + 1
  BY <1>1, LowerFacts
<1>3. \A v \in s.done : \E j \in 1..n : ops[j].id = v
  BY <1>1, <1>2, Computes DEF Computed
<1>4. /\ \A v \in t.done : v \in s.done \/ \E j \in 1..n : v \in Helping(ops[j])
      /\ Agree(s, t, [v \in Ids |-> v], Refs, Machine \cup s.done)
  BY DEF Lowers
<1> HIDE DEF s, t
<1>5. o.id \in NewIds /\ Helping(o) \subseteq NewIds
  BY <1>1, LowerFacts
<1>6. \A v \in Machine : v \in Ids /\ v # o.id /\ v \notin Helping(o)
  BY <1>5, Numbers DEF NewIds
<1>7. \A v \in s.done : v \in Ids /\ v # o.id /\ v \notin Helping(o)
  <2>1. TAKE v \in s.done
  <2>2. PICK j \in 1..n : ops[j].id = v
    BY <1>3
  <2>3. j \in 1..Len(ops) /\ j # n + 1
    BY <1>2
  <2>4. QED
    BY <1>1, <2>2, <2>3, LowerFacts DEF Helping, NewIds
<1>8. ASSUME NEW v, NEW j \in 1..n, v \in Helping(ops[j])
      PROVE  v \in Ids /\ v # o.id /\ v \notin Helping(o)
  <2>1. j \in 1..Len(ops) /\ j # n + 1
    BY <1>2
  <2>2. Reference(ops[j]) /\ v = LoweredId(ops[j].id)
    BY <1>8 DEF Helping
  <2>3. QED
    BY <1>1, <2>1, <2>2, LowerFacts DEF Helping, NewIds
<1>9. \A v \in Machine \cup s.done \cup t.done : v \in Ids /\ v # o.id /\ v \notin Helping(o)
  BY <1>4, <1>6, <1>7, <1>8
<1>10. \A v \in Machine \cup s.done : t.val[v] = s.val[v]
  BY <1>4, <1>9 DEF Agree
<1>11. QED
  BY <1>9, <1>10 DEF s, t

(* From one to the next.                                                   *)
LEMMA LowersNext ==
  ASSUME NEW env, NEW B, Lowering(env, B), NEW n \in Nat, n + 1 \in 1..Len(ops),
         NEW P, NEW Q, Lowers(env, B, n, P),
         LET s == After(ops, env)[n]
             t == Executed(P, env)
             s2 == After(ops, env)[n + 1]
             t2 == Executed(Q, env)
         IN  /\ t2.raised = s2.raised /\ t2.trace = s2.trace
             /\ \A c \in Refs : t2.mem[c] = s2.mem[c]
             /\ \A v \in Machine \cup s2.done : v \in Ids /\ t2.val[v] = s2.val[v]
             /\ s.done \subseteq s2.done
             /\ \A v \in t2.done : \/ v \in t.done /\ t2.val[v] = t.val[v]
                                   \/ v \in s2.done
                                   \/ v \in Helping(ops[n + 1]) /\ t2.val[v] \in B
  PROVE  Lowers(env, B, n + 1, Q)
<1> DEFINE s == After(ops, env)[n]
           t == Executed(P, env)
           s2 == After(ops, env)[n + 1]
           t2 == Executed(Q, env)
<1>1. \A v \in t.done : v \in s.done \/ (t.val[v] \in B /\ \E j \in 1..n : v \in Helping(ops[j]))
  BY DEF Lowers
<1>2. n + 1 \in 1..(n + 1) /\ \A j \in 1..n : j \in 1..(n + 1)
  OBVIOUS
<1>3. /\ t2.raised = s2.raised /\ t2.trace = s2.trace
      /\ \A c \in Refs : t2.mem[c] = s2.mem[c]
      /\ \A v \in Machine \cup s2.done : v \in Ids /\ t2.val[v] = s2.val[v]
      /\ s.done \subseteq s2.done
      /\ \A v \in t2.done : \/ v \in t.done /\ t2.val[v] = t.val[v]
                            \/ v \in s2.done
                            \/ v \in Helping(ops[n + 1]) /\ t2.val[v] \in B
  OBVIOUS
<1> HIDE DEF s, t, s2, t2
<1>4. Agree(s2, t2, [v \in Ids |-> v], Refs, Machine \cup s2.done)
  BY <1>3 DEF Agree
<1>5. \A v \in t2.done : v \in s2.done \/ (t2.val[v] \in B /\ \E j \in 1..(n + 1) : v \in Helping(ops[j]))
  <2>1. TAKE v \in t2.done
  <2>2. CASE v \in t.done /\ t2.val[v] = t.val[v]
    <3>1. CASE v \in s.done
      BY <1>3, <3>1
    <3>2. CASE v \notin s.done
      BY <1>1, <1>2, <2>2, <3>2
    <3>3. QED
      BY <3>1, <3>2
  <2>3. CASE v \in Helping(ops[n + 1]) /\ t2.val[v] \in B
    BY <1>2, <2>3
  <2>4. QED
    BY <1>3, <2>2, <2>3
<1>6. QED
  BY <1>4, <1>5 DEF Lowers, s2, t2

LEMMA LowersFacts ==
  ASSUME NEW env, NEW B, Lowering(env, B), NEW n \in Nat, n + 1 \in 1..Len(ops),
         NEW P, Stands(n, P), Lowers(env, B, n, P)
  PROVE  LET s == After(ops, env)[n]
             t == Executed(P, env)
             o == ops[n + 1]
             s2 == After(ops, env)[n + 1]
         IN  /\ s \in States /\ t \in States /\ s2 \in States /\ s2 = Execute(env, s, o)
             /\ Effect(env, s, o, s2) /\ Shaped(o) /\ o \in Records /\ env \in Environments
             /\ o.id \in Ids /\ Listed(P)
             /\ t.raised = s.raised /\ t.trace = s.trace /\ \A c \in Refs : t.mem[c] = s.mem[c]
             /\ Runs(env, t, o) <=> Runs(env, s, o)
             /\ Runs(env, s, o) /\ Operand(env, o) # NoValue =>
                  Operand(env, o) \in Machine \cup s.done
             /\ s.raised \in BOOLEAN /\ Grows(n, P)
             /\ Reference(o) => LoweredId(o.id) \in Ids /\ Helping(o) = {LoweredId(o.id)}
                                /\ LoweredId(o.id) # o.id
             /\ o.op \notin {"alloca", "load", "store"}
<1> DEFINE s == After(ops, env)[n]
           t == Executed(P, env)
           o == ops[n + 1]
           s2 == After(ops, env)[n + 1]
<1>1. Valid(ops) /\ Early(ops) /\ env \in Environments
  BY DEF Lowering
<1>2. n \in 0..Len(ops) /\ n + 1 \in 0..Len(ops) /\ (n + 1) - 1 = n
  BY <1>1, LowerFacts
<1>3. Listed(ops) /\ Listed(P)
  BY <1>1, ValidLists DEF Stands
<1>4. s \in States /\ s2 \in States /\ s2 = Execute(env, s, o)
  BY <1>1, <1>2, <1>3, RunIs
<1>5. t \in States
  BY <1>1, <1>3, ExecutedIs
<1>6. /\ Shaped(o) /\ o \in Records /\ o.id \in NewIds
      /\ Reference(o) => LoweredId(o.id) \in NewIds /\ LoweredId(o.id) # o.id
      /\ o.op \notin {"alloca", "load", "store"}
  BY <1>1, LowerFacts
<1>7. Runs(env, s, o) /\ Operand(env, o) # NoValue => Operand(env, o) \in Machine \cup s.done
  BY <1>1, <1>2, Needs
<1>8. Agree(s, t, [v \in Ids |-> v], Refs, Machine \cup s.done)
  BY DEF Lowers
<1>9. Grows(n, P)
  BY <1>1, LowerGrows
<1> HIDE DEF s, t, o, s2
<1>10. Effect(env, s, o, s2)
  BY <1>1, <1>4, <1>6, Executes
<1>11. t.raised = s.raised /\ t.trace = s.trace /\ \A c \in Refs : t.mem[c] = s.mem[c]
  BY <1>8 DEF Agree
<1>12. Runs(env, t, o) <=> Runs(env, s, o)
  BY <1>11 DEF Runs
<1>13. s.raised \in BOOLEAN
  BY <1>4 DEF States
<1>14. o.id \in Ids /\ (Reference(o) => LoweredId(o.id) \in Ids /\ Helping(o) = {LoweredId(o.id)})
  BY <1>6 DEF NewIds, Helping
<1>15. QED
  BY <1>1, <1>3, <1>4, <1>5, <1>6, <1>7, <1>9, <1>10, <1>11, <1>12, <1>13, <1>14 DEF s, t, o, s2

(* What remains as it was.                                                 *)
LEMMA LowersOther ==
  ASSUME NEW env, NEW B, Lowering(env, B), NEW n \in Nat, n + 1 \in 1..Len(ops),
         NEW P, Stands(n, P), Lowers(env, B, n, P), ~Reference(ops[n + 1])
  PROVE  Lowers(env, B, n + 1, P \o LoweredOp(ops[n + 1]))
<1> DEFINE s == After(ops, env)[n]
           t == Executed(P, env)
           o == ops[n + 1]
           s2 == After(ops, env)[n + 1]
           Q == P \o LoweredOp(o)
           t2 == Executed(Q, env)
           f == [v \in Ids |-> v]
           D == Machine \cup s.done
<1>1. /\ s \in States /\ t \in States /\ s2 \in States /\ s2 = Execute(env, s, o)
      /\ Effect(env, s, o, s2) /\ Shaped(o) /\ o \in Records /\ env \in Environments
      /\ o.id \in Ids /\ Listed(P)
      /\ Runs(env, t, o) <=> Runs(env, s, o)
      /\ Runs(env, s, o) /\ Operand(env, o) # NoValue => Operand(env, o) \in D
      /\ o.op \notin {"alloca", "load", "store"}
  BY LowersFacts
<1>2. Grows(n, P)
  BY LowersFacts
<1>3. Q = Append(P, o)
  BY <1>2 DEF Grows
<1>4. t2 = Execute(env, t, o)
  BY <1>1, <1>3, AppendRuns
<1>5. Agree(s, t, f, Refs, D)
  BY DEF Lowers
<1>6. \A v \in Machine \cup s.done \cup t.done : v \in Ids /\ v # o.id
  <2>1. \A v \in Machine \cup s.done \cup t.done : v \in Ids /\ v # o.id /\ v \notin Helping(o)
    BY LowersApart
  <2> HIDE DEF s, t, o
  <2>2. QED
    BY <2>1
<1>7. o.op \notin {"object", "read", "write", "load"}
  BY <1>1 DEF Reference
<1> HIDE DEF s, t, o, s2, Q, t2, f, D
<1>8. Effect(env, t, o, t2)
  BY <1>1, <1>4, Executes
<1>9. D \in SUBSET Ids /\ \A v \in Ids : f[v] = v
  BY <1>6 DEF D, f
<1>10. /\ Results(env, t, o) <=> Results(env, s, o)
       /\ Agree(s2, t2, f, Refs \cup {c \in Refs : Stores(env, s, o, c)},
                D \cup {v \in {o.id} : Results(env, s, o)})
  <2>1. Alike(o, o) /\ (\A v \in D : f[v] \in Ids) /\ Refs \in SUBSET Refs
    BY <1>9 DEF Alike
  <2>2. o.op \in Kinded => f[o.id] = o.id /\ \A v \in D : v # o.id => f[v] # o.id
    BY <1>1, <1>9
  <2>3. Runs(env, s, o) => Given(env, o, o, f, Refs, D)
    <3> SUFFICES ASSUME Runs(env, s, o) PROVE Given(env, o, o, f, Refs, D)
      OBVIOUS
    <3>1. o.op = "call" => Seen(env, o) \subseteq Refs
      <4>1. o.refs \subseteq Refs /\ Shared \subseteq Refs
        BY <1>1 DEF Records, Shared, Refs
      <4>2. \A r \in o.refs \cup Shared : Cell(env, r) \in Refs
        BY <1>1, <4>1, Cells
      <4>3. QED
        BY <4>2 DEF Seen
    <3>2. Operand(env, o) # NoValue => Operand(env, o) \in D /\ Operand(env, o) = f[Operand(env, o)]
      BY <1>1, <1>9
    <3>3. QED
      BY <1>7, <3>1, <3>2 DEF Given
  <2>4. /\ Results(env, t, o) <=> Results(env, s, o)
        /\ Agree(Execute(env, s, o), Execute(env, t, o), f,
                 Refs \cup {c \in Refs : Stores(env, s, o, c)},
                 D \cup {v \in {o.id} : Results(env, s, o)})
    BY <1>1, <1>5, <1>9, <2>1, <2>2, <2>3, SameStep, SMTT(40)
  <2>5. QED
    BY <1>1, <1>4, <2>4
<1>11. s2.done = s.done \cup {v \in {o.id} : Results(env, s, o)}
       /\ t2.done = t.done \cup {v \in {o.id} : Results(env, s, o)}
  BY <1>1, <1>8, <1>10 DEF Effect
<1>12. \A v \in Machine \cup s2.done : v \in Ids /\ t2.val[v] = s2.val[v]
  <2>1. \A v \in Machine \cup s2.done : v \in Ids /\ v \in D \cup {w \in {o.id} : Results(env, s, o)}
    BY <1>1, <1>9, <1>11 DEF D
  <2>2. QED
    BY <1>9, <1>10, <2>1 DEF Agree
<1>13. \A v \in t2.done : (v \in t.done /\ t2.val[v] = t.val[v]) \/ v \in s2.done
  <2>1. \A v \in t.done : t2.val[v] = t.val[v]
    BY <1>6, <1>8 DEF Effect
  <2>2. QED
    BY <1>11, <2>1
<1>14. t2.raised = s2.raised /\ t2.trace = s2.trace /\ \A c \in Refs : t2.mem[c] = s2.mem[c]
  BY <1>10 DEF Agree
<1>15. s.done \subseteq s2.done
  BY <1>11
<1>16. QED
  BY <1>12, <1>13, <1>14, <1>15, LowersNext DEF s, t, o, s2, t2, Q

LEMMA LowersRead ==
  ASSUME NEW env, NEW B, Lowering(env, B), NEW n \in Nat, n + 1 \in 1..Len(ops),
         NEW P, Stands(n, P), Lowers(env, B, n, P), ops[n + 1].op = "read"
  PROVE  Lowers(env, B, n + 1, P \o LoweredOp(ops[n + 1]))
<1> DEFINE s == After(ops, env)[n]
           t == Executed(P, env)
           o == ops[n + 1]
           s2 == After(ops, env)[n + 1]
           a == Load(o)
           b == Return(o)
           P1 == Append(P, a)
           t1 == Executed(P1, env)
           Q == P \o LoweredOp(o)
           t2 == Executed(Q, env)
           w == LoweredId(o.id)
<1>1. /\ s \in States /\ t \in States /\ s2 \in States
      /\ Effect(env, s, o, s2) /\ Shaped(o) /\ o \in Records /\ env \in Environments
      /\ o.id \in Ids /\ Listed(P) /\ s.raised \in BOOLEAN
      /\ t.raised = s.raised /\ t.trace = s.trace /\ \A c \in Refs : t.mem[c] = s.mem[c]
      /\ Runs(env, t, o) <=> Runs(env, s, o)
  BY LowersFacts
<1>2. Grows(n, P)
  BY LowersFacts
<1>3. Reference(o) /\ w \in Ids /\ Helping(o) = {w} /\ w # o.id /\ o.op = "read"
  BY LowersFacts DEF Reference
<1>4. Valid(P1) /\ Shaped(a) /\ Shaped(b) /\ Q = Append(P1, b)
  BY <1>2, <1>3 DEF Grows
<1>5. /\ a.op = "load" /\ a.id = w /\ a.blk = o.blk /\ a.ref = o.ref /\ a.val = NoValue
      /\ b.op = "requalify" /\ b.id = o.id /\ b.blk = o.blk /\ b.val = w /\ b.alt = NoValue
      /\ o.ref \in Refs
  <2>1. o.ref \in Refs
    BY <1>1, <1>3 DEF Shaped
  <2>2. w \in NewIds
    BY <1>3, LowerFacts DEF Lowering
  <2>3. o.type \in Types
    BY <1>1 DEF Records, Types
  <2>4. /\ b.op = "requalify" /\ b.id = o.id /\ b.blk = o.blk /\ b.val = w /\ b.alt = NoValue
    BY <1>1, <1>3, <2>3, RequalifyIs DEF Return
  <2>5. /\ a.op = "load" /\ a.id = w /\ a.blk = o.blk /\ a.ref = o.ref /\ a.val = NoValue
    BY <1>1, <2>1, <2>2, LoadIs
  <2>6. QED
    BY <2>1, <2>4, <2>5
<1>6. Listed(P1)
  BY <1>4, ValidLists
<1>7. t1 = Execute(env, t, a) /\ t2 = Execute(env, t1, b) /\ t1 \in States
  BY <1>1, <1>4, <1>6, AppendRuns, ExecutedIs
<1>8. /\ \A v \in Machine \cup s.done \cup t.done : v \in Ids /\ v # o.id /\ v # w
      /\ \A v \in Machine \cup s.done : t.val[v] = s.val[v]
  BY <1>3, LowersApart
<1>9. Runs(env, s, o) => s.mem[Cell(env, o.ref)] \in B
  <2> SUFFICES ASSUME Runs(env, s, o) PROVE s.mem[Cell(env, o.ref)] \in B
    OBVIOUS
  <2>1. o.id \in s2.done /\ s2.val[o.id] = s.mem[Cell(env, o.ref)]
    BY <1>1, <1>3 DEF Effect, Results, ResultOf, Kinded
  <2>2. Valid(ops) /\ Held(ops, env, B) /\ Nominal \subseteq B
    BY DEF Lowering
  <2>3. n + 1 \in 0..Len(ops) /\ Len(ops) \in (n + 1)..Len(ops)
    BY <2>2, BlockOrder
  <2>4. LET u == After(ops, env)[Len(ops)] IN
        /\ s2.done \subseteq u.done
        /\ \A v \in Machine \cup s2.done : u.val[v] = s2.val[v]
    BY <1>1, <2>2, <2>3, Stays
  <2>5. o \in Whole(ops) /\ o.op \in Kinded
    BY <1>3 DEF Whole, Upto, Kinded
  <2>6. Executed(ops, env).val[o.id] \in B
    BY <2>1, <2>2, <2>4, <2>5 DEF Held, Executed
  <2>7. QED
    BY <2>1, <2>4, <2>6 DEF Executed
<1> HIDE DEF s, t, o, s2, a, b, P1, t1, Q, t2, w
<1>10. Effect(env, t, a, t1)
  BY <1>1, <1>4, <1>7, Executes
<1>11. Gives(env, t1, b, t2)
  <2>1. MemoryEffectFree(b)
    BY <1>5 DEF MemoryEffectFree
  <2>2. QED
    BY <1>1, <1>4, <1>7, <2>1, Quiet
<1>12. CASE ~Runs(env, s, o)
  <2>1. ~Runs(env, t, a)
    BY <1>1, <1>5, <1>12 DEF Runs, Active
  <2>2. t1 = t
    BY <1>10, <2>1 DEF Effect
  <2>3. Effect(env, t1, b, t2)
    BY <1>1, <1>4, <1>7, Executes
  <2>4. ~Runs(env, t1, b)
    BY <1>1, <1>5, <1>12, <2>2 DEF Runs, Active
  <2>5. t2 = t /\ s2 = s
    BY <1>1, <1>12, <2>2, <2>3, <2>4 DEF Effect
  <2>6. QED
    BY <1>1, <1>8, <2>5, LowersNext DEF s, t, o, s2, t2, Q
<1>13. CASE Runs(env, s, o)
  <2> DEFINE x == s.mem[Cell(env, o.ref)]
  <2>1. Cell(env, o.ref) \in Refs
    BY <1>1, <1>5, Cells
  <2>2. x = t.mem[Cell(env, o.ref)] /\ x \in B
    BY <1>1, <1>9, <1>13, <2>1
  <2>3. Runs(env, t, a) /\ ~t.raised
    BY <1>1, <1>5, <1>13 DEF Runs, Active
  <2>4. /\ t1.raised = t.raised /\ t1.trace = t.trace /\ \A c \in Refs : t1.mem[c] = t.mem[c]
        /\ t1.done = t.done \cup {w}
        /\ \A v \in Ids : t1.val[v] = IF v = w THEN x ELSE t.val[v]
    <3>1. Results(env, t, a) /\ ResultOf(env, t, a) = x /\ \A c \in Refs : ~Stores(env, t, a, c)
      BY <1>5, <2>2, <2>3 DEF Results, ResultOf, Stores, Kinded
    <3>2. t.raised \in BOOLEAN
      BY <1>1
    <3> HIDE DEF x
    <3>3. QED
      BY <1>5, <1>10, <3>1, <3>2 DEF Effect
  <2>5. Runs(env, t1, b)
    BY <1>5, <1>13, <2>3, <2>4 DEF Runs, Active
  <2>6. /\ t2.raised = t1.raised /\ t2.trace = t1.trace /\ \A c \in Refs : t2.mem[c] = t1.mem[c]
        /\ t2.done = t1.done \cup {o.id}
        /\ \A v \in Ids : t2.val[v] = IF v = o.id THEN t1.val[w] ELSE t1.val[v]
    <3>1. Operand(env, b) = w
      BY <1>5 DEF Operand
    <3>2. QED
      BY <1>5, <1>11, <2>5, <3>1 DEF Gives
  <2>7. /\ s2.raised = s.raised /\ s2.trace = s.trace /\ \A c \in Refs : s2.mem[c] = s.mem[c]
        /\ s2.done = s.done \cup {o.id}
        /\ \A v \in Ids : s2.val[v] = IF v = o.id THEN x ELSE s.val[v]
    <3>1. Results(env, s, o) /\ ResultOf(env, s, o) = x /\ \A c \in Refs : ~Stores(env, s, o, c)
      BY <1>3, <1>13 DEF Results, ResultOf, Stores, Kinded
    <3> HIDE DEF x
    <3>2. QED
      BY <1>1, <1>3, <3>1 DEF Effect
  <2> HIDE DEF x
  <2>8. t1.val[w] = x
    BY <1>3, <2>4
  <2>9. \A v \in Machine \cup s2.done : v \in Ids /\ t2.val[v] = s2.val[v]
    BY <1>1, <1>8, <2>4, <2>6, <2>7, <2>8
  <2>10. \A v \in t2.done : \/ v \in t.done /\ t2.val[v] = t.val[v]
                            \/ v \in s2.done
                            \/ v \in Helping(o) /\ t2.val[v] \in B
    BY <1>3, <1>8, <2>2, <2>4, <2>6, <2>7, <2>8
  <2>11. /\ t2.raised = s2.raised /\ t2.trace = s2.trace /\ \A c \in Refs : t2.mem[c] = s2.mem[c]
         /\ s.done \subseteq s2.done
    BY <1>1, <2>4, <2>6, <2>7
  <2>12. QED
    BY <2>9, <2>10, <2>11, LowersNext DEF s, t, o, s2, t2, Q
<1>14. QED
  BY <1>12, <1>13

(* What stores a value, itself or as an initial value.                     *)
LEMMA LowersSaved ==
  ASSUME NEW env, NEW B, Lowering(env, B), NEW n \in Nat, n + 1 \in 1..Len(ops),
         NEW P, Stands(n, P), Lowers(env, B, n, P),
         ops[n + 1].op \in {"object", "write"}, ops[n + 1].val # NoValue,
         NEW Q, Saves(env, Executed(P, env), ops[n + 1], ops[n + 1].ref, Executed(Q, env))
  PROVE  Lowers(env, B, n + 1, Q)
<1> DEFINE s == After(ops, env)[n]
           t == Executed(P, env)
           o == ops[n + 1]
           s2 == After(ops, env)[n + 1]
           t2 == Executed(Q, env)
           w == LoweredId(o.id)
           c == Cell(env, o.ref)
           x == s.val[o.val]
<1>1. /\ s \in States /\ t \in States /\ s2 \in States
      /\ Effect(env, s, o, s2) /\ Shaped(o) /\ o \in Records /\ env \in Environments
      /\ o.id \in Ids /\ s.raised \in BOOLEAN
      /\ t.raised = s.raised /\ t.trace = s.trace /\ \A d \in Refs : t.mem[d] = s.mem[d]
      /\ Runs(env, t, o) <=> Runs(env, s, o)
      /\ Runs(env, s, o) /\ Operand(env, o) # NoValue => Operand(env, o) \in Machine \cup s.done
  BY LowersFacts
<1>2. Reference(o) /\ w \in Ids /\ Helping(o) = {w} /\ o.op \in {"object", "write"} /\ o.val # NoValue
      /\ o.op \notin Kinded
  BY LowersFacts DEF Reference, Kinded
<1>3. /\ \A v \in Machine \cup s.done \cup t.done : v \in Ids /\ v # w
      /\ \A v \in Machine \cup s.done : t.val[v] = s.val[v]
  BY <1>2, LowersApart
<1>4. Saves(env, t, o, o.ref, t2)
  OBVIOUS
<1>5. Operand(env, o) = o.val
  BY <1>2 DEF Operand
<1>6. Runs(env, s, o) => x \in B
  <2> SUFFICES ASSUME Runs(env, s, o) PROVE x \in B
    OBVIOUS
  <2>1. Valid(ops) /\ Held(ops, env, B) /\ Nominal \subseteq B
    BY DEF Lowering
  <2>2. o.val \in Machine \cup s.done
    BY <1>1, <1>2, <1>5
  <2>3. n \in 0..Len(ops) /\ (n + 1) - 1 = n
    BY <2>1, BlockOrder
  <2>4. CASE o.op = "object"
    <3>1. o.val \in Nominal /\ o.val \in Machine
      BY <1>1, <1>2, <2>4, Numbers DEF Shaped
    <3>2. \A v \in Machine : s.val[v] = v
      BY <1>1, <2>1, <2>3, Computes DEF Computed
    <3>3. QED
      BY <2>1, <3>1, <3>2
  <2>5. CASE o.op = "write"
    <3>1. Fits(Upto(ops, n), o)
      BY <2>1, <2>3, ValidLists
    <3>2. Has(Upto(ops, n), o.val, {1, o.blk}, {"nominal"})
      BY <1>2, <2>5, <3>1 DEF Fits, Scope, Takes
    <3>3. "base" \notin {"nominal"}
      OBVIOUS
    <3>4. x \in Nominal
      BY <1>1, <2>1, <2>2, <2>3, <3>2, <3>3, OperandHeld
    <3>5. QED
      BY <2>1, <3>4
  <2>6. QED
    BY <1>2, <2>4, <2>5
<1>7. c \in Refs /\ (o.op = "object" => c = "x")
  <2>1. o.ref \in Refs /\ (o.op = "object" => o.ref = "x")
    BY <1>1, <1>2 DEF Shaped, Refs
  <2>2. QED
    BY <1>1, <2>1, Cells
<1> HIDE DEF s, t, o, s2, t2, w
<1>8. CASE ~Runs(env, s, o)
  <2>1. t2 = t /\ s2 = s
    BY <1>1, <1>4, <1>8 DEF Saves, Effect
  <2>2. QED
    BY <1>1, <1>3, <2>1, LowersNext DEF s, t, o, s2, t2
<1>9. CASE Runs(env, s, o)
  <2>1. o.val \in Machine \cup s.done /\ t.val[o.val] = x /\ x \in B
    BY <1>1, <1>2, <1>3, <1>5, <1>6, <1>9
  <2>2. /\ t2.raised = t.raised /\ t2.trace = t.trace
        /\ \A d \in Refs : t2.mem[d] = IF d = c THEN x ELSE t.mem[d]
        /\ t2.done = t.done \cup {w}
        /\ \A v \in Ids : t2.val[v] = IF v = w THEN x ELSE t.val[v]
    BY <1>1, <1>4, <1>9, <2>1 DEF Saves, w
  <2>3. /\ s2.raised = s.raised /\ s2.trace = s.trace
        /\ \A d \in Refs : s2.mem[d] = IF d = c THEN x ELSE s.mem[d]
        /\ s2.done = s.done /\ \A v \in Ids : s2.val[v] = s.val[v]
    <3>1. /\ ~Results(env, s, o) /\ o.op \notin {"check", "call"}
          /\ \A d \in Refs : Stores(env, s, o, d) <=> d = c
          /\ \A d \in Refs : Stored(s, o, d) = x
      BY <1>2, <1>7, <1>9 DEF Results, Stores, Stored
    <3> HIDE DEF c, x
    <3>2. QED
      BY <1>1, <3>1 DEF Effect
  <2> HIDE DEF c, x
  <2>4. \A v \in Machine \cup s2.done : v \in Ids /\ t2.val[v] = s2.val[v]
    BY <1>3, <2>2, <2>3
  <2>5. \A v \in t2.done : \/ v \in t.done /\ t2.val[v] = t.val[v]
                           \/ v \in s2.done
                           \/ v \in Helping(o) /\ t2.val[v] \in B
    BY <1>2, <1>3, <2>1, <2>2
  <2>6. /\ t2.raised = s2.raised /\ t2.trace = s2.trace /\ \A d \in Refs : t2.mem[d] = s2.mem[d]
        /\ s.done \subseteq s2.done
    BY <1>1, <2>2, <2>3
  <2>7. QED
    BY <2>4, <2>5, <2>6, LowersNext DEF s, t, o, s2, t2
<1>10. QED
  BY <1>8, <1>9

LEMMA LowersWrite ==
  ASSUME NEW env, NEW B, Lowering(env, B), NEW n \in Nat, n + 1 \in 1..Len(ops),
         NEW P, Stands(n, P), Lowers(env, B, n, P), ops[n + 1].op = "write"
  PROVE  Lowers(env, B, n + 1, P \o LoweredOp(ops[n + 1]))
<1> DEFINE o == ops[n + 1]
           h == Conversion(o)
           r == o.ref
           s == Save(o, r)
           Q == P \o LoweredOp(o)
<1>1. Grows(n, P) /\ Shaped(o) /\ o \in Records /\ env \in Environments /\ Listed(P)
  BY LowersFacts
<1>2. Valid(ops) /\ Early(ops) /\ Valid(P) /\ P \in Seq(Records)
  BY DEF Lowering, Stands, Valid
<1>3. LoweredId(o.id) \in NewIds /\ LoweredId(o.id) \in Ids
  BY <1>2, LowerFacts DEF Reference, NewIds
<1>4. o.val # NoValue /\ r \in Refs /\ o.val \in Ids
  BY <1>1 DEF Shaped, Records, Vals
<1>5. Valid(Append(P, h)) /\ Shaped(h) /\ Shaped(s) /\ Q = Append(Append(P, h), s)
  BY <1>1 DEF Grows
<1>6. /\ h \in Records /\ h.op = "requalify" /\ h.id = LoweredId(o.id) /\ h.blk = o.blk /\ h.val = o.val
  <2> HIDE DEF o
  <2>1. QED
    BY <1>1, <1>3, <1>4, ConversionIs
<1>7. /\ s \in Records /\ s.op = "store" /\ s.blk = o.blk /\ s.ref = r /\ s.val = LoweredId(o.id)
  <2> HIDE DEF o, r
  <2>1. QED
    BY <1>1, <1>3, <1>4, SaveIs
<1> HIDE DEF h, s
<1>8. Saves(env, Executed(P, env), o, r, Executed(Append(Append(P, h), s), env))
  BY <1>1, <1>2, <1>3, <1>4, <1>5, <1>6, <1>7, SaveRuns
<1>9. Saves(env, Executed(P, env), o, o.ref, Executed(Q, env))
  BY <1>5, <1>8
<1>10. o.op \in {"object", "write"}
  OBVIOUS
<1> HIDE DEF Q
<1>11. Lowers(env, B, n + 1, Q)
  BY <1>4, <1>9, <1>10, LowersSaved
<1>12. QED
  BY <1>11 DEF Q

LEMMA LowersObject ==
  ASSUME NEW env, NEW B, Lowering(env, B), NEW n \in Nat, n + 1 \in 1..Len(ops),
         NEW P, Stands(n, P), Lowers(env, B, n, P), ops[n + 1].op = "object"
  PROVE  Lowers(env, B, n + 1, P \o LoweredOp(ops[n + 1]))
<1> DEFINE o == ops[n + 1]
           a == Alloca(o)
           P1 == Append(P, a)
           h == Conversion(o)
           s == Save(o, "x")
           Q == P \o LoweredOp(o)
           t == Executed(P, env)
           t1 == Executed(P1, env)
<1>1. /\ Grows(n, P) /\ Shaped(o) /\ o \in Records /\ env \in Environments /\ Listed(P)
      /\ t \in States
  BY LowersFacts
<1>2. Valid(ops) /\ Early(ops) /\ Valid(P) /\ P \in Seq(Records)
  BY DEF Lowering, Stands, Valid
<1>3. LoweredId(o.id) \in NewIds /\ LoweredId(o.id) \in Ids /\ o.blk = 1 /\ o.ref = "x" /\ "x" \in Refs
  BY <1>1, <1>2, LowerFacts DEF Reference, NewIds, Shaped, Refs
<1>4. Valid(P1) /\ Shaped(a) /\ a.op = "alloca" /\ a.val = NoValue
  BY <1>1, <1>3, AllocaIs DEF Grows
<1>5. t1 = t
  <2>1. t1 = Execute(env, t, a)
    BY <1>1, <1>4, AppendRuns
  <2> HIDE DEF a, t, t1
  <2>2. Execute(env, t, a) = t
    BY <1>4 DEF Execute
  <2>3. QED
    BY <2>1, <2>2
<1>6. CASE o.val = NoValue
  <2> DEFINE u == After(ops, env)[n]
             u2 == After(ops, env)[n + 1]
  <2>1. Q = P1
    BY <1>1, <1>6 DEF Grows
  <2>2. u2 = Execute(env, u, o)
    BY LowersFacts
  <2>3. /\ t.raised = u.raised /\ t.trace = u.trace /\ \A c \in Refs : t.mem[c] = u.mem[c]
        /\ \A v \in Machine \cup u.done : t.val[v] = u.val[v]
        /\ \A v \in Machine \cup u.done : v \in Ids
    BY LowersFacts, LowersApart
  <2> HIDE DEF t, t1, a, P1, Q, u, u2
  <2>4. u2 = u
    <3>1. o.op = "object"
      OBVIOUS
    <3> HIDE DEF o
    <3>2. Execute(env, u, o) = u
      BY <1>6, <3>1 DEF Execute
    <3>3. QED
      BY <2>2, <3>2
  <2>5. Executed(Q, env) = t
    BY <1>5, <2>1 DEF t1
  <2>6. QED
    BY <2>3, <2>4, <2>5, LowersNext DEF t, u, u2, Q
<1>7. CASE o.val # NoValue
  <2>1. Valid(Append(P1, h)) /\ Shaped(h) /\ Shaped(s) /\ Q = Append(Append(P1, h), s)
    BY <1>1, <1>7 DEF Grows
  <2>2. o.val \in Ids
    BY <1>1, <1>7 DEF Records, Vals
  <2>3. /\ h \in Records /\ h.op = "requalify" /\ h.id = LoweredId(o.id) /\ h.blk = o.blk /\ h.val = o.val
    <3> HIDE DEF o
    <3>1. QED
      BY <1>1, <1>3, <2>2, ConversionIs
  <2>4. /\ s \in Records /\ s.op = "store" /\ s.blk = o.blk /\ s.ref = "x" /\ s.val = LoweredId(o.id)
    <3> HIDE DEF o
    <3>1. QED
      BY <1>1, <1>3, SaveIs
  <2> HIDE DEF h, s, P1
  <2>5. Saves(env, Executed(P1, env), o, "x", Executed(Append(Append(P1, h), s), env))
    BY <1>1, <1>3, <1>4, <2>1, <2>3, <2>4, SaveRuns
  <2>6. Saves(env, Executed(P, env), o, o.ref, Executed(Q, env))
    BY <1>3, <1>5, <2>1, <2>5 DEF t, t1
  <2>7. o.op \in {"object", "write"}
    OBVIOUS
  <2> HIDE DEF Q
  <2>8. Lowers(env, B, n + 1, Q)
    BY <1>7, <2>6, <2>7, LowersSaved
  <2>9. QED
    BY <2>8 DEF Q
<1>8. QED
  BY <1>6, <1>7

LEMMA LowersStep ==
  ASSUME NEW env, NEW B, Lowering(env, B), NEW n \in Nat, n + 1 \in 1..Len(ops),
         NEW P, Stands(n, P), Lowers(env, B, n, P)
  PROVE  Lowers(env, B, n + 1, P \o LoweredOp(ops[n + 1]))
BY LowersOther, LowersRead, LowersWrite, LowersObject DEF Reference

(* All of the list, step by step.                                          *)
LEMMA EmptyStands ==
  ASSUME Valid(ops)
  PROVE  Stands(0, <<>>) /\ \A env, B : Lowering(env, B) => Lowers(env, B, 0, <<>>)
<1>1. Valid(<<>>) /\ Whole(<<>>) = {} /\ Len(<<>>) = 0
  BY DEF Valid, Whole, Upto
<1>2. Upto(ops, 0) = {}
  BY DEF Upto
<1>3. Stands(0, <<>>)
  BY <1>1, <1>2 DEF Stands
<1>4. ASSUME NEW env, NEW B, Lowering(env, B) PROVE Lowers(env, B, 0, <<>>)
  <2>1. env \in Environments
    BY <1>4 DEF Lowering
  <2>2. After(ops, env)[0] = Start(env) /\ Executed(<<>>, env) = Start(env)
    <3>1. Listed(ops) /\ Listed(<<>>)
      BY <1>1, ValidLists
    <3>2. After(<<>>, env)[0] = Start(env)
      BY <2>1, <3>1, RunIs
    <3>3. QED
      BY <1>1, <2>1, <3>1, <3>2, RunIs DEF Executed
  <2>3. Start(env).done = {}
    BY DEF Start
  <2>4. \A v \in Machine : v \in Ids
    BY Numbers
  <2>5. Agree(Start(env), Start(env), [v \in Ids |-> v], Refs, Machine \cup Start(env).done)
    BY <2>3, <2>4 DEF Agree
  <2>6. QED
    BY <2>2, <2>3, <2>5 DEF Lowers
<1>5. QED
  BY <1>3, <1>4

LEMMA Tuples ==
  ASSUME NEW a \in Records, NEW b \in Records, NEW c \in Records
  PROVE  <<a>> \in Seq(Records) /\ <<a, b>> \in Seq(Records) /\ <<a, b, c>> \in Seq(Records)
<1> HIDE DEF Records
<1>1. QED
  OBVIOUS

Flat == FlattenSeq(Pieces)

LEMMA FlatIs ==
  ASSUME Valid(ops), Early(ops)
  PROVE  /\ Stands(Len(ops), Flat)
         /\ \A env, B : Lowering(env, B) => Lowers(env, B, Len(ops), Flat)
<1> DEFINE N == Len(ops)
<1>1. N \in Nat /\ DOMAIN ops = 1..N
  BY LowerFacts
<1>2. \A n \in 1..N : LoweredOp(ops[n]) \in Seq(Records)
  <2>1. TAKE n \in 1..N
  <2> DEFINE o == ops[n]
  <2>2. /\ o \in Records /\ Shaped(o)
        /\ Reference(o) => LoweredId(o.id) \in NewIds
    BY LowerFacts
  <2> SUFFICES LoweredOp(o) \in Seq(Records)
    OBVIOUS
  <2> HIDE DEF o
  <2>3. CASE o.op = "object"
    <3>1. o.blk = 1 /\ LoweredId(o.id) \in NewIds /\ "x" \in Refs
      BY <2>2, <2>3 DEF Shaped, Reference, Refs
    <3>2. Alloca(o) \in Records /\ Save(o, "x") \in Records
      BY <2>2, <3>1, AllocaIs, SaveIs
    <3>3. CASE o.val = NoValue
      <4>1. LoweredOp(o) = <<Alloca(o)>>
        BY <2>2, <2>3, <3>3, LoweredOpIs
      <4>2. QED
        BY <3>2, <4>1, Tuples
    <3>4. CASE o.val # NoValue
      <4>1. Conversion(o) \in Records
        BY <2>2, <3>1, <3>4, ConversionIs DEF Records, Vals
      <4>2. LoweredOp(o) = <<Alloca(o), Conversion(o), Save(o, "x")>>
        BY <2>2, <2>3, <3>4, LoweredOpIs DEF Conversion
      <4>3. QED
        BY <3>2, <4>1, <4>2, Tuples
    <3>5. QED
      BY <3>3, <3>4
  <2>4. CASE o.op = "read"
    <3>1. LoweredId(o.id) \in NewIds /\ LoweredId(o.id) \in Ids /\ o.ref \in Refs /\ o.type \in Types
      BY <2>2, <2>4 DEF Reference, Shaped, NewIds, Records, Types
    <3>2. Load(o) \in Records /\ Return(o) \in Records
      BY <2>2, <3>1, LoadIs, RequalifyIs DEF Return
    <3>3. LoweredOp(o) = <<Load(o), Return(o)>>
      BY <2>2, <2>4, LoweredOpIs DEF Return
    <3>4. QED
      BY <3>2, <3>3, Tuples
  <2>5. CASE o.op = "write"
    <3>1. LoweredId(o.id) \in NewIds /\ o.ref \in Refs /\ o.val \in Ids
      BY <2>2, <2>5 DEF Reference, Shaped, Records, Vals
    <3>2. Conversion(o) \in Records /\ Save(o, o.ref) \in Records
      BY <2>2, <3>1, ConversionIs, SaveIs
    <3>3. LoweredOp(o) = <<Conversion(o), Save(o, o.ref)>>
      BY <2>2, <2>5, LoweredOpIs DEF Conversion
    <3>4. QED
      BY <3>2, <3>3, Tuples
  <2>6. CASE ~Reference(o)
    <3>1. LoweredOp(o) = <<o>>
      BY <2>2, <2>6, LoweredOpIs
    <3>2. QED
      BY <2>2, <3>1, Tuples
  <2>7. QED
    BY <2>3, <2>4, <2>5, <2>6 DEF Reference
<1>3. PICK F : Spread(F) /\ Flat = F[N]
  BY <1>1, <1>2, Spreads DEF Flat
<1> DEFINE T == {n \in Nat : /\ Stands(n, F[n])
                             /\ \A env, B : Lowering(env, B) => Lowers(env, B, n, F[n])}
<1>4. 0 \in T
  <2>1. F[0] = <<>>
    BY <1>3 DEF Spread
  <2>2. QED
    BY <2>1, EmptyStands
<1>5. ASSUME NEW n \in 0..(N - 1), n \in T PROVE n + 1 \in T
  <2>1. n \in Nat /\ n + 1 \in Nat /\ n + 1 \in 1..N /\ (n + 1) - 1 = n
    BY <1>1
  <2>2. Stands(n, F[n]) /\ \A env, B : Lowering(env, B) => Lowers(env, B, n, F[n])
    BY <1>5
  <2>3. F[n + 1] = F[n] \o LoweredOp(ops[n + 1])
    BY <1>3, <2>1 DEF Spread
  <2> DEFINE P == F[n]
             Q == P \o LoweredOp(ops[n + 1])
  <2> HIDE DEF T, P
  <2>4. Stands(n, P) /\ \A env, B : Lowering(env, B) => Lowers(env, B, n, P)
    BY <2>2 DEF P
  <2>5. Stands(n + 1, Q)
    BY <2>1, <2>4, LowerGrows DEF Grows
  <2>6. \A env, B : Lowering(env, B) => Lowers(env, B, n + 1, Q)
    BY <2>1, <2>4, LowersStep
  <2>7. QED
    BY <2>1, <2>3, <2>5, <2>6 DEF T, P
<1>6. N \in T
  <2> HIDE DEF T, N
  <2>1. \A n \in 0..N : n \in T
    BY <1>1, <1>4, <1>5, Progress
  <2>2. N \in 0..N
    BY <1>1
  <2>3. QED
    BY <2>1, <2>2
<1>7. QED
  BY <1>3, <1>6

LEMMA FlatKeeps ==
  ASSUME NEW env, NEW B, Lowering(env, B)
  PROVE  Alikes(Executed(ops, env), Executed(Flat, env)) /\ Held(Flat, env, B)
<1> DEFINE N == Len(ops)
           s == Executed(ops, env)
           t == Executed(Flat, env)
<1>1. Valid(ops) /\ Early(ops) /\ env \in Environments /\ Nominal \subseteq B /\ Held(ops, env, B)
  BY DEF Lowering
<1>2. Stands(N, Flat) /\ Lowers(env, B, N, Flat)
  BY <1>1, FlatIs
<1>3. /\ Agree(s, t, [v \in Ids |-> v], Refs, Machine \cup s.done)
      /\ \A v \in t.done : \/ v \in s.done
                           \/ t.val[v] \in B /\ \E j \in 1..N : v \in Helping(ops[j])
  BY <1>2 DEF Lowers, Executed
<1>4. N \in 0..N
  BY <1>1, LowerFacts
<1>5. \A v \in s.done : \E j \in 1..N : ops[j].id = v
  BY <1>1, <1>4, Computes DEF Computed, Executed
<1> HIDE DEF s, t
<1>6. Alikes(s, t)
  <2>1. Shared \subseteq Refs
    BY DEF Shared, Refs
  <2>2. QED
    BY <1>3, <2>1 DEF Agree, Alikes
<1>7. \A v \in s.done : t.val[v] = s.val[v]
  <2>1. \A v \in s.done : v \in Ids
    BY <1>1, <1>5, LowerFacts DEF NewIds
  <2>2. QED
    BY <1>3, <2>1 DEF Agree
<1>8. ASSUME NEW q \in Whole(Flat), q.op \in Kinded, q.id \in t.done
      PROVE  t.val[q.id] \in (IF q.type = "nominal" THEN Nominal ELSE B)
  <2>1. PICK j \in 1..N : From(q, ops[j])
    BY <1>2 DEF Stands
  <2>2. CASE q.id = ops[j].id /\ ops[j].op \in Kinded /\ q.type = ops[j].type
    <3>1. q.id \in s.done
      <4>1. \A i \in 1..N : q.id \notin Helping(ops[i])
        BY <1>1, <2>2, LowerFacts DEF Helping
      <4>2. QED
        BY <1>3, <1>8, <4>1
    <3>2. ops[j] \in Whole(ops)
      BY DEF Whole, Upto
    <3>3. s.val[q.id] \in (IF q.type = "nominal" THEN Nominal ELSE B)
      BY <1>1, <2>2, <3>1, <3>2 DEF Held, s
    <3>4. QED
      BY <1>7, <3>1, <3>3
  <2>3. CASE Reference(ops[j]) /\ q.id = LoweredId(ops[j].id) /\ q.type = "base"
    <3>1. q.id \notin s.done
      BY <1>1, <1>5, <2>3, LowerFacts
    <3>2. t.val[q.id] \in B
      BY <1>3, <1>8, <3>1
    <3>3. QED
      BY <2>3, <3>2
  <2>4. QED
    BY <1>8, <2>1, <2>2, <2>3 DEF From
<1>9. Held(Flat, env, B)
  BY <1>8 DEF Held, t
<1>10. QED
  BY <1>6, <1>9 DEF s, t

LEMMA LoweringKeeps ==
  ASSUME Valid(ops), Early(ops)
  PROVE  /\ Valid(Lowered) /\ \A q \in Whole(Lowered) : ~Reference(q)
         /\ \A env, B : Lowering(env, B) =>
              Alikes(Executed(ops, env), Executed(Lowered, env)) /\ Held(Lowered, env, B)
<1> DEFINE ids == UNION {{ops[i].id, LoweredId(ops[i].id)} :
                           i \in {j \in DOMAIN ops : ops[j].op \in {"object", "read", "write"}}}
           M == Requalified(Flat, ids)
<1>1. Lowered = M
  BY DEF Lowered, Flat, Pieces
<1>2. Valid(Flat) /\ \A q \in Whole(Flat) : ~Reference(q)
  BY FlatIs DEF Stands, From
<1> HIDE DEF ids, M
<1>3. /\ Valid(M)
      /\ \A q \in Whole(M) : \E p \in Whole(Flat) : Alike(p, q)
      /\ \A env \in Environments : Keeps(Flat, M, env)
  BY <1>2, RequalifiedKeeps DEF M
<1>4. \A q \in Whole(M) : ~Reference(q)
  BY <1>2, <1>3 DEF Alike, Reference
<1>5. ASSUME NEW env, NEW B, Lowering(env, B)
      PROVE  Alikes(Executed(ops, env), Executed(M, env)) /\ Held(M, env, B)
  <2>1. Alikes(Executed(ops, env), Executed(Flat, env)) /\ Held(Flat, env, B)
    BY <1>5, FlatKeeps
  <2>2. Keeps(Flat, M, env)
    BY <1>3, <1>5 DEF Lowering
  <2>3. QED
    BY <2>1, <2>2, Requalifies, KeepsHeld, AlikeChain
<1>6. QED
  BY <1>1, <1>3, <1>4, <1>5

-----------------------------------------------------------------------------
(* Canonicalisations as actions *)

(* Every operation of M was one of L, but that a read may have become a     *)
(* requalification.                                                        *)
Stems(L, M) ==
  \A q \in Whole(M) : \E p \in Whole(L) :
    q.id = p.id /\ (q.op = p.op \/ (p.op = "read" /\ q.op = "requalify"))

LEMMA StemsEarly ==
  ASSUME NEW L, NEW M, Early(L), Stems(L, M)
  PROVE  Early(M)
<1>1. \A i \in 1..Len(M) : \E k \in 1..Len(L) :
        /\ M[i].id = L[k].id
        /\ M[i].op = L[k].op \/ (L[k].op = "read" /\ M[i].op = "requalify")
  BY DEF Stems, Whole, Upto
<1>2. ASSUME NEW i \in 1..Len(M)
      PROVE  /\ M[i].op \notin {"alloca", "load", "store"}
             /\ IF M[i].op = "join" THEN M[i].id = JoinId ELSE M[i].id \in Fresh..(Fresh + MaxOps)
  <2>1. PICK k \in 1..Len(L) : /\ M[i].id = L[k].id
                               /\ M[i].op = L[k].op \/ (L[k].op = "read" /\ M[i].op = "requalify")
    BY <1>1
  <2>2. /\ L[k].op \notin {"alloca", "load", "store"}
        /\ IF L[k].op = "join" THEN L[k].id = JoinId ELSE L[k].id \in Fresh..(Fresh + MaxOps)
    BY DEF Early
  <2>3. QED
    BY <2>1, <2>2
<1>3. ASSUME NEW o \in 1..Len(M), M[o].op = "object", NEW i \in 1..Len(M)
      PROVE  M[i].op \notin {"join", "constant"}
  <2>1. \E k \in 1..Len(L) : L[k].op = "object"
    BY <1>1, <1>3
  <2>2. \A k \in 1..Len(L) : L[k].op \notin {"join", "constant"}
    BY <2>1 DEF Early
  <2>3. QED
    BY <1>1, <2>2
<1>4. QED
  BY <1>2, <1>3 DEF Early

LEMMA StemsChain ==
  ASSUME NEW L, NEW M, NEW N, Stems(L, M), \A q \in Whole(N) : \E p \in Whole(M) : Alike(p, q)
  PROVE  Stems(L, N)
<1> SUFFICES ASSUME NEW q \in Whole(N)
             PROVE  \E p \in Whole(L) :
                      q.id = p.id /\ (q.op = p.op \/ (p.op = "read" /\ q.op = "requalify"))
  BY DEF Stems
<1>1. PICK m \in Whole(M) : Alike(m, q)
  OBVIOUS
<1>2. PICK p \in Whole(L) : m.id = p.id /\ (m.op = p.op \/ (p.op = "read" /\ m.op = "requalify"))
  BY DEF Stems
<1>3. QED
  BY <1>1, <1>2 DEF Alike

(* What each canonicalisation makes of the list.                           *)
Canonical(M) ==
  Valid(M) /\ Stems(ops, M) /\ \A env \in Environments : Keeps(ops, M, env)

LEMMA KeepsChain ==
  ASSUME NEW env, NEW L, NEW M, NEW N, Keeps(L, M, env), Keeps(M, N, env)
  PROVE  Keeps(L, N, env)
<1> DEFINE r == Executed(L, env)
           s == Executed(M, env)
           t == Executed(N, env)
<1>1. /\ s.raised = r.raised /\ s.trace = r.trace /\ \A c \in Shared : s.mem[c] = r.mem[c]
      /\ \A q \in Whole(M) : q.op \in Kinded /\ q.id \in s.done =>
           \E p \in Whole(L) : /\ p.op \in Kinded /\ p.id \in r.done /\ p.type = q.type
                               /\ s.val[q.id] = r.val[p.id]
  BY DEF Keeps
<1>2. /\ t.raised = s.raised /\ t.trace = s.trace /\ \A c \in Shared : t.mem[c] = s.mem[c]
      /\ \A q \in Whole(N) : q.op \in Kinded /\ q.id \in t.done =>
           \E p \in Whole(M) : /\ p.op \in Kinded /\ p.id \in s.done /\ p.type = q.type
                               /\ t.val[q.id] = s.val[p.id]
  BY DEF Keeps
<1> HIDE DEF r, s, t
<1>3. ASSUME NEW q \in Whole(N), q.op \in Kinded, q.id \in t.done
      PROVE  \E p \in Whole(L) : /\ p.op \in Kinded /\ p.id \in r.done /\ p.type = q.type
                                 /\ t.val[q.id] = r.val[p.id]
  <2>1. PICK m \in Whole(M) : /\ m.op \in Kinded /\ m.id \in s.done /\ m.type = q.type
                              /\ t.val[q.id] = s.val[m.id]
    BY <1>2, <1>3
  <2>2. PICK p \in Whole(L) : /\ p.op \in Kinded /\ p.id \in r.done /\ p.type = m.type
                              /\ s.val[m.id] = r.val[p.id]
    BY <1>1, <2>1
  <2>3. QED
    BY <2>1, <2>2
<1>4. /\ t.raised = r.raised /\ t.trace = r.trace /\ \A c \in Shared : t.mem[c] = r.mem[c]
  BY <1>1, <1>2
<1>5. QED
  BY <1>3, <1>4 DEF Keeps, r, t

LEMMA RequalifiedCanonical ==
  ASSUME NEW M, Canonical(M), NEW ids
  PROVE  Canonical(Requalified(M, ids))
<1> DEFINE N == Requalified(M, ids)
<1>1. Valid(M) /\ Stems(ops, M) /\ \A env \in Environments : Keeps(ops, M, env)
  BY DEF Canonical
<1>2. /\ Valid(N)
      /\ \A q \in Whole(N) : \E p \in Whole(M) : Alike(p, q)
      /\ \A env \in Environments : Keeps(M, N, env)
  BY <1>1, RequalifiedKeeps
<1> HIDE DEF N
<1>3. Stems(ops, N)
  BY <1>1, <1>2, StemsChain
<1>4. \A env \in Environments : Keeps(ops, N, env)
  BY <1>1, <1>2, KeepsChain
<1>5. QED
  BY <1>2, <1>3, <1>4 DEF Canonical, N

LEMMA RemovedCanonical ==
  ASSUME Valid(ops), NEW i \in DOMAIN ops,
         LET M == RemoveAt(ops, i) IN Valid(M) /\ \A env \in Environments : Keeps(ops, M, env)
  PROVE  Canonical(RemoveAt(ops, i))
<1> DEFINE M == RemoveAt(ops, i)
<1>1. ops \in Seq(Records) /\ i \in 1..Len(ops) /\ Len(ops) \in Nat
  BY BlockOrder DEF Valid
<1>2. /\ M \in Seq(Records) /\ Len(M) = Len(ops) - 1
      /\ \A k \in 1..(Len(ops) - 1) : M[k] = IF k < i THEN ops[k] ELSE ops[k + 1]
  BY <1>1, RemoveIs
<1> HIDE DEF M
<1>3. Whole(M) \subseteq Whole(ops)
  <2> SUFFICES ASSUME NEW k \in 1..Len(M) PROVE M[k] \in Whole(ops)
    BY DEF Whole, Upto
  <2>1. k \in 1..Len(ops) /\ k + 1 \in 1..Len(ops)
    BY <1>1, <1>2
  <2>2. M[k] = ops[k] \/ M[k] = ops[k + 1]
    BY <1>1, <1>2
  <2>3. QED
    BY <2>1, <2>2 DEF Whole, Upto
<1>4. Stems(ops, M)
  BY <1>3 DEF Stems
<1>5. QED
  BY <1>4 DEF Canonical, M

LEMMA SameCanonical ==
  ASSUME Valid(ops)
  PROVE  Canonical(ops)
BY DEF Canonical, Stems, Keeps

LEMMA ForwardCanonical ==
  ASSUME Valid(ops), NEW i \in DOMAIN ops, ForwardObjectWrite(i)
  PROVE  Canonical(ops')
<1>1. PICK j \in ForwardedFrom(i) :
        /\ ops[i].op = "read"
        /\ ops' = Requalified([ops EXCEPT ![i] = Requalify(ops[i], ops[j].val, ops[i].type)],
                              {ops[i].id})
  BY DEF ForwardObjectWrite, Rewrite
<1> DEFINE q == Requalify(ops[i], ops[j].val, ops[i].type)
           M == [ops EXCEPT ![i] = q]
<1>2. Valid(M) /\ \A env \in Environments : Keeps(ops, M, env)
  BY <1>1, ForwardKeeps
<1>3. q.op = "requalify" /\ q.id = ops[i].id
  BY DEF Requalify, Operation
<1>4. /\ ops \in Seq(Records) /\ DOMAIN ops = 1..Len(ops) /\ Len(ops) \in Nat
  BY BlockOrder DEF Valid
<1> HIDE DEF q
<1>5. Len(M) = Len(ops) /\ \A k \in 1..Len(ops) : M[k] = IF k = i THEN q ELSE ops[k]
  BY <1>4
<1> HIDE DEF M
<1>6. Stems(ops, M)
  <2> SUFFICES ASSUME NEW k \in 1..Len(M)
               PROVE  \E p \in Whole(ops) :
                        M[k].id = p.id /\ (M[k].op = p.op \/ (p.op = "read" /\ M[k].op = "requalify"))
    BY DEF Stems, Whole, Upto
  <2>1. ops[k] \in Whole(ops)
    BY <1>5 DEF Whole, Upto
  <2>2. QED
    BY <1>1, <1>3, <1>5, <2>1
<1>7. Canonical(M)
  BY <1>2, <1>6 DEF Canonical
<1>8. ops' = Requalified(M, {ops[i].id})
  BY <1>1 DEF M, q
<1>9. QED
  BY <1>7, <1>8, RequalifiedCanonical

LEMMA SimplifyCanonical ==
  ASSUME Valid(ops), NEW i \in DOMAIN ops, SimplifyObjectWrite(i)
  PROVE  Canonical(ops')
<1>1. ops[i].op = "write" /\ (Overwritten(i) \/ Restores(i)) /\ ops' = RemoveAt(ops, i)
  BY DEF SimplifyObjectWrite, Rewrite
<1>2. LET M == RemoveAt(ops, i) IN Valid(M) /\ \A env \in Environments : Keeps(ops, M, env)
  BY <1>1, OverwrittenKeeps, RestoresKeeps
<1>3. QED
  BY <1>1, <1>2, RemovedCanonical

LEMMA FoldCanonical ==
  ASSUME Valid(ops), NEW i \in DOMAIN ops, FoldRequalify(i)
  PROVE  Canonical(ops')
<1>1. ops' = Requalified(ops, {ops[i].id})
  BY DEF FoldRequalify, Rewrite
<1>2. QED
  BY <1>1, SameCanonical, RequalifiedCanonical

LEMMA CollapseCanonical ==
  ASSUME Valid(ops), NEW i \in DOMAIN ops, CollapseRequalifyChain(i)
  PROVE  Canonical(ops')
<1>1. PICK j \in DefinerOf(ops, ops[i].val) :
        /\ ops[i].op = "requalify" /\ ops[j].op = "requalify"
        /\ ops' = [ops EXCEPT ![i].val = ops[j].val]
  BY DEF CollapseRequalifyChain, Rewrite
<1> DEFINE v == ops[j].val
           q == [ops[i] EXCEPT !.val = v]
           M == [ops EXCEPT ![i].val = v]
<1>2. Valid(M) /\ \A env \in Environments : Keeps(ops, M, env)
  BY <1>1, CollapseKeeps
<1>3. /\ ops \in Seq(Records) /\ DOMAIN ops = 1..Len(ops) /\ Len(ops) \in Nat
  BY BlockOrder DEF Valid
<1>4. ops[i] \in Records
  BY <1>3
<1> HIDE DEF v
<1>5. q.op = ops[i].op /\ q.id = ops[i].id
  BY <1>4 DEF Records
<1>6. M = [ops EXCEPT ![i] = q]
  OBVIOUS
<1> HIDE DEF q
<1>7. Len(M) = Len(ops) /\ \A k \in 1..Len(ops) : M[k] = IF k = i THEN q ELSE ops[k]
  <2> HIDE DEF M
  <2>1. QED
    BY <1>3, <1>6
<1> HIDE DEF M
<1>8. Stems(ops, M)
  <2> SUFFICES ASSUME NEW k \in 1..Len(M)
               PROVE  \E p \in Whole(ops) :
                        M[k].id = p.id /\ (M[k].op = p.op \/ (p.op = "read" /\ M[k].op = "requalify"))
    BY DEF Stems, Whole, Upto
  <2>1. ops[k] \in Whole(ops)
    BY <1>7 DEF Whole, Upto
  <2>2. QED
    BY <1>5, <1>7, <2>1
<1>9. QED
  BY <1>1, <1>2, <1>8 DEF Canonical, M, v

LEMMA EraseCanonical ==
  ASSUME Valid(ops), NEW i \in DOMAIN ops, EraseDead(i)
  PROVE  Canonical(ops')
<1>1. TriviallyDead(i) /\ ops' = RemoveAt(ops, i)
  BY DEF EraseDead, Rewrite
<1>2. LET M == RemoveAt(ops, i) IN Valid(M) /\ \A env \in Environments : Keeps(ops, M, env)
  BY <1>1, EraseKeeps
<1>3. QED
  BY <1>1, <1>2, RemovedCanonical

-----------------------------------------------------------------------------
(* Emission *)

(* What an operation emitted for ref or refs has besides.                  *)
Plain(o) ==
  /\ o.op \in {"object", "read", "write", "check", "call"}
  /\ o.op = "write" => o.refs = {}
  /\ o.op = "call" => o.ref = None
Writer(o) == o.op \in {"write", "call"}

(* Memory holds values of the base type; of the subtype where readObject   *)
(* takes it for granted: x initialised, or written or handed to a call in  *)
(* the block b.                                                            *)
Stocked(env, B, L, b) ==
  LET t == Executed(L, env) IN
  /\ \A c \in Refs : t.mem[c] \in B
  /\ L[1].val # NoValue => t.mem["x"] \in Nominal
  /\ ~t.raised /\ (b = 2 => env.cond) =>
       \A r \in Refs : \A i \in UsersOf(L, r) :
         L[i].blk = b /\ Writer(L[i]) => t.mem[Cell(env, r)] \in Nominal

(* What a list that is being emitted is made of.                           *)
Listing(L, b) ==
  /\ Valid(L) /\ Len(L) \in 1..(MaxOps + 1) /\ L[1].op = "object"
  /\ \A n \in 1..Len(L) : L[n].id = Fresh + n - 1 /\ Plain(L[n]) /\ L[n].blk <= b

(* An operation that may be emitted next.                                  *)
Emits(o) ==
  /\ Fits(Whole(ops), o) /\ Plain(o) /\ o.op # "object"
  /\ o.id = NewId /\ o.blk = blk
  /\ o.op = "read" => o.type = ReadType(o.ref)

LEMMA EmitStocked ==
  ASSUME blk \in 1..3, Listing(ops, blk), NEW o, Emits(o), Valid(Append(ops, o)),
         NEW env \in Environments, NEW B \in SUBSET Machine, Nominal \subseteq B,
         Stocked(env, B, ops, blk), Held(ops, env, B)
  PROVE  Stocked(env, B, Append(ops, o), blk) /\ Held(Append(ops, o), env, B)
<1> DEFINE N == Len(ops)
           Q == Append(ops, o)
           t == Executed(ops, env)
           t2 == Executed(Q, env)
<1>1. /\ Valid(ops) /\ N \in Nat /\ N >= 1 /\ DOMAIN ops = 1..N /\ ops[1].op = "object"
      /\ ops \in Seq(Records) /\ Listed(ops) /\ N \in 0..N
  BY BlockOrder, ValidLists DEF Listing, Valid
<1>2. /\ Fits(Whole(ops), o) /\ Shaped(o) /\ o \in Records /\ o.id = NewId /\ o.blk = blk
      /\ o.op \in {"read", "write", "check", "call"}
      /\ o.op = "write" => o.refs = {}
      /\ o.op = "call" => o.ref = None
      /\ o.op = "read" => o.type = ReadType(o.ref)
      /\ o.id \in Ids /\ o.id \in NewIds
  BY DEF Emits, Plain, Fits, Shaped, Records, NewIds
<1>3. /\ Len(Q) = N + 1 /\ Q[N + 1] = o /\ (\A k \in 1..N : Q[k] = ops[k])
      /\ DOMAIN Q = 1..(N + 1) /\ Whole(Q) = Whole(ops) \cup {o}
  <2>1. Q \in Seq(Records) /\ Len(Q) = N + 1 /\ Q[N + 1] = o /\ \A k \in 1..N : Q[k] = ops[k]
    BY <1>1, <1>2, AppendProperties
  <2>2. Whole(Q) = Whole(ops) \cup {o}
    BY <1>1, <1>2, UptoAppend DEF Whole
  <2>3. QED
    BY <2>1, <2>2
<1>4. t \in States /\ t2 = Execute(env, t, o)
  BY <1>1, <1>2, AppendRuns, ExecutedIs
<1>5. t = After(ops, env)[N]
  BY DEF Executed
<1>6. \A v \in t.done : v \in Ids /\ v # o.id
  <2>1. TAKE v \in t.done
  <2>2. PICK j \in 1..N : ops[j].id = v
    BY <1>1, <1>5, Computes DEF Computed
  <2>3. Fresh \in Nat /\ ops[j].id = Fresh + j - 1 /\ o.id = Fresh + N
    BY <1>2, Numbers DEF Listing, NewId
  <2>4. QED
    BY <1>1, <1>4, <2>2, <2>3 DEF States
<1>7. Runs(env, t, o) /\ o.val # NoValue =>
        o.val \in Machine \cup t.done /\ t.val[o.val] \in (IF o.op = "write" THEN Nominal ELSE B)
  <2> SUFFICES ASSUME Runs(env, t, o), o.val # NoValue
               PROVE  /\ o.val \in Machine \cup t.done
                      /\ t.val[o.val] \in (IF o.op = "write" THEN Nominal ELSE B)
    OBVIOUS
  <2>1. Has(Upto(ops, N), o.val, {1, o.blk}, Takes(o))
    BY <1>2 DEF Fits, Scope, Whole
  <2>2. ~After(ops, env)[N].raised /\ (2 \in {1, o.blk} => env.cond)
    BY <1>5 DEF Runs, Active
  <2>3. o.val \in Machine \cup t.done
    BY <1>1, <1>5, <2>1, <2>2, Available
  <2>4. t.val[o.val] \in (IF "base" \in Takes(o) THEN B ELSE Nominal)
    BY <1>1, <1>5, <2>1, <2>3, OperandHeld
  <2>5. o.op = "write" => "base" \notin Takes(o)
    BY DEF Takes
  <2>6. QED
    BY <2>3, <2>4, <2>5
<1>8. /\ \A c \in Refs : t.mem[c] \in B
      /\ ops[1].val # NoValue => t.mem["x"] \in Nominal
      /\ ~t.raised /\ (blk = 2 => env.cond) =>
           \A r \in Refs : \A i \in UsersOf(ops, r) :
             ops[i].blk = blk /\ Writer(ops[i]) => t.mem[Cell(env, r)] \in Nominal
  BY DEF Stocked
<1> HIDE DEF Q, t, t2
<1>9. Effect(env, t, o, t2)
  BY <1>2, <1>4, Executes
<1>10. \A c \in Refs : IF Stores(env, t, o, c) THEN t2.mem[c] \in Nominal ELSE t2.mem[c] = t.mem[c]
  <2> SUFFICES ASSUME NEW c \in Refs, Stores(env, t, o, c) PROVE t2.mem[c] \in Nominal
    BY <1>9 DEF Effect
  <2>1. t2.mem[c] = Stored(t, o, c) /\ Runs(env, t, o) /\ o.op \in {"write", "call"}
    BY <1>2, <1>9 DEF Effect, Stores
  <2>2. CASE o.op = "write"
    BY <1>2, <1>7, <2>1, <2>2 DEF Stored, Shaped
  <2>3. CASE o.op = "call"
    BY <2>1, <2>3, Another DEF Stored
  <2>4. QED
    BY <2>1, <2>2, <2>3
<1>11. ASSUME Runs(env, t, o), o.op = "read", o.type = "nominal"
       PROVE  t.mem[Cell(env, o.ref)] \in Nominal
  <2>1. o.ref \in Refs /\ ~t.raised /\ (blk = 2 => env.cond)
    BY <1>2, <1>11 DEF Shaped, Runs, Active
  <2>2. \/ \E i \in DOMAIN ops : ops[i].op = "object" /\ ops[i].ref = o.ref /\ ops[i].val # NoValue
        \/ \E i \in UsersOf(ops, o.ref) : ops[i].blk = blk /\ ops[i].op \in {"write", "call"}
    BY <1>2, <1>11 DEF ReadType
  <2>3. CASE \E i \in DOMAIN ops : ops[i].op = "object" /\ ops[i].ref = o.ref /\ ops[i].val # NoValue
    <3>1. PICK i \in 1..N : ops[i].op = "object" /\ ops[i].ref = o.ref /\ ops[i].val # NoValue
      BY <1>1, <2>3
    <3>2. i = 1
      BY <1>1, <3>1, ObjectFirst
    <3>3. Shaped(ops[1])
      BY <1>1, ValidLists
    <3>4. o.ref = "x" /\ ops[1].val # NoValue
      BY <1>1, <3>1, <3>2, <3>3 DEF Shaped
    <3>5. Cell(env, o.ref) = "x"
      BY <2>1, <3>4, Cells
    <3>6. QED
      BY <1>8, <3>4, <3>5
  <2>4. CASE \E i \in UsersOf(ops, o.ref) : ops[i].blk = blk /\ ops[i].op \in {"write", "call"}
    BY <1>8, <2>1, <2>4 DEF Writer
  <2>5. QED
    BY <2>2, <2>3, <2>4
<1>12. Held(Q, env, B)
  <2> SUFFICES ASSUME NEW q \in Whole(Q), q.op \in Kinded, q.id \in t2.done
               PROVE  t2.val[q.id] \in (IF q.type = "nominal" THEN Nominal ELSE B)
    BY DEF Held, t2
  <2>1. CASE q.id \in t.done
    <3>1. q \in Whole(ops)
      BY <1>3, <1>6, <2>1
    <3>2. t2.val[q.id] = t.val[q.id]
      BY <1>6, <1>9, <2>1 DEF Effect
    <3>3. t.val[q.id] \in (IF q.type = "nominal" THEN Nominal ELSE B)
      BY <2>1, <3>1 DEF Held, t
    <3>4. QED
      BY <3>2, <3>3
  <2>2. CASE q.id \notin t.done
    <3>1. Results(env, t, o) /\ q.id = o.id
      BY <1>9, <2>2 DEF Effect
    <3>2. q = o
      <4>1. q \notin Whole(ops)
        <5> SUFFICES ASSUME NEW j \in 1..N PROVE ops[j].id # o.id
          BY <3>1 DEF Whole, Upto
        <5>1. Fresh \in Nat /\ ops[j].id = Fresh + j - 1 /\ o.id = Fresh + N
          BY <1>2, Numbers DEF Listing, NewId
        <5>2. QED
          BY <1>1, <5>1
      <4>2. QED
        BY <1>3, <4>1
    <3>3. t2.val[o.id] = ResultOf(env, t, o) /\ Runs(env, t, o)
      BY <1>2, <1>9, <3>1 DEF Effect, Results
    <3>4. CASE o.op = "read"
      <4>1. o.ref \in Refs /\ Cell(env, o.ref) \in Refs
        BY <1>2, <3>4, Cells DEF Shaped
      <4>2. ResultOf(env, t, o) = t.mem[Cell(env, o.ref)]
        BY <3>4 DEF ResultOf
      <4>3. QED
        BY <1>8, <1>11, <3>2, <3>3, <3>4, <4>1, <4>2
    <3>5. CASE o.op = "check"
      BY <1>2, <3>1, <3>2, <3>3, <3>5 DEF Results, ResultOf, Operand, Shaped
    <3>6. QED
      BY <1>2, <3>1, <3>4, <3>5 DEF Results, Kinded
  <2>3. QED
    BY <2>1, <2>2
<1>13. \A c \in Refs : t2.mem[c] \in B
  BY <1>8, <1>10
<1>14. Q[1].val # NoValue => t2.mem["x"] \in Nominal
  BY <1>1, <1>3, <1>8, <1>10 DEF Refs
<1>15. ASSUME ~t2.raised, blk = 2 => env.cond, NEW r \in Refs, NEW i \in UsersOf(Q, r),
              Q[i].blk = blk, Writer(Q[i])
       PROVE  t2.mem[Cell(env, r)] \in Nominal
  <2>1. ~t.raised /\ Cell(env, r) \in Refs
    BY <1>9, <1>15, Cells DEF Effect
  <2>2. Runs(env, t, o)
    BY <1>2, <1>15, <2>1 DEF Runs, Active
  <2>3. i \in 1..(N + 1) /\ Q[i].op # "object" /\ (Q[i].ref = r \/ r \in Q[i].refs)
    BY <1>3 DEF UsersOf
  <2>4. CASE i \in 1..N
    <3>1. i \in UsersOf(ops, r) /\ ops[i].blk = blk /\ Writer(ops[i])
      BY <1>1, <1>3, <1>15, <2>3, <2>4 DEF UsersOf
    <3>2. t.mem[Cell(env, r)] \in Nominal
      BY <1>8, <1>15, <2>1, <3>1
    <3>3. QED
      BY <1>10, <2>1, <3>2
  <2>5. CASE i = N + 1
    <3>1. Q[i] = o /\ Writer(o)
      BY <1>3, <1>15, <2>5
    <3>2. Stores(env, t, o, Cell(env, r))
      BY <1>2, <2>2, <2>3, <3>1 DEF Stores, Writer, Seen, None, Refs
    <3>3. QED
      BY <1>10, <2>1, <3>2
  <2>6. QED
    BY <1>1, <2>3, <2>4, <2>5
<1>16. Stocked(env, B, Q, blk)
  BY <1>13, <1>14, <1>15 DEF Stocked, t2
<1>17. QED
  BY <1>12, <1>16 DEF Q

(* What is emitted may be.                                                 *)
LEMMA LiteralIs ==
  ASSUME NEW n \in Nat
  PROVE  Literal(n) \in Nominal
<1> DEFINE C == Cardinality(Nominal)
           s == SetToSeq(Nominal)
<1>1. IsFiniteSet(Nominal) /\ C \in Nat /\ C > 1
  <2>1. IsFiniteSet(Machine)
    BY ValuesAssumption, FS_Interval DEF Machine
  <2>2. QED
    BY <2>1, ValuesAssumption, FS_Subset, FS_CardinalityType
<1>2. \E f : f \in [1..C -> Nominal] /\ IsInjective(f)
  <2>1. PICK f : f \in Bijection(1..C, Nominal)
    BY <1>1, FS_CardinalityType DEF ExistsBijection
  <2>2. QED
    BY <2>1 DEF Bijection, Injection, IsInjective
<1>3. s \in [1..C -> Nominal]
  BY <1>2 DEF SetToSeq
<1>4. 1 + (n % C) \in 1..C
  BY <1>1
<1>5. QED
  BY <1>3, <1>4 DEF Literal

LEMMA NewIdIs ==
  ASSUME NEW b, Listing(ops, b), Len(ops) <= MaxOps
  PROVE  /\ NewId \in Fresh..(Fresh + MaxOps) /\ NewId \in NewIds /\ NewId = Fresh + Len(ops)
         /\ Len(ops) \in Nat /\ DOMAIN ops = 1..Len(ops)
         /\ \A p \in Whole(ops) : p.id # NewId /\ p.blk <= b /\ p \in Records
<1>1. Len(ops) \in Nat /\ DOMAIN ops = 1..Len(ops)
  BY BlockOrder DEF Listing
<1>2. NewId \in Fresh..(Fresh + MaxOps) /\ NewId = Fresh + Len(ops) /\ Fresh \in Nat
  BY <1>1, Numbers DEF NewId
<1>3. \A n \in 1..Len(ops) : ops[n].id = Fresh + n - 1 /\ ops[n].blk <= b /\ ops[n] \in Records
  BY ValidLists DEF Listing
<1>4. \A n \in 1..Len(ops) : ops[n].id # NewId
  BY <1>1, <1>2, <1>3
<1>5. NewId \in NewIds
  BY <1>2, Numbers
<1>6. QED
  BY <1>1, <1>2, <1>3, <1>4, <1>5 DEF Whole, Upto

(* A value in sight, for an operation emitted in this block.               *)
LEMMA VisibleIs ==
  ASSUME Listing(ops, blk), Len(ops) <= MaxOps, NEW type \in Types, NEW v \in Visible(type)
  PROVE  Has(Whole(ops), v, {1, blk}, {type}) /\ v \in Vals /\ v # NoValue
<1>1. DOMAIN ops = 1..Len(ops) /\ \A p \in Whole(ops) : p \in Records
  BY NewIdIs
<1>2. PICK i \in 1..Len(ops) : /\ v = ops[i].id /\ ops[i].op \in {"read", "check"}
                               /\ ops[i].type = type /\ ops[i].blk \in {1, blk}
  BY <1>1 DEF Visible
<1>3. ops[i] \in Whole(ops) /\ ops[i] \in Records
  BY <1>1 DEF Whole, Upto
<1>4. v \in NewIds /\ v \in Ids /\ NoValue \notin Ids
  BY <1>2, <1>3, Numbers DEF Records, NewIds
<1>5. QED
  BY <1>2, <1>3, <1>4 DEF Has, Kinded, Vals

ReadOf(op, id, b, ref, type) == [Operation(op, id, b) EXCEPT !.ref = ref, !.type = type]

(* A read, as the record it is.                                             *)
LEMMA ReadRecord ==
  ASSUME NEW op, NEW id, NEW b, NEW ref, NEW type
  PROVE  ReadOf(op, id, b, ref, type)
         = [op |-> op, id |-> id, blk |-> b, ref |-> ref, refs |-> {},
            val |-> NoValue, alt |-> NoValue, type |-> type]
<1> DEFINE bare == [op |-> op, id |-> id, blk |-> b, ref |-> None, refs |-> {},
                    val |-> NoValue, alt |-> NoValue, type |-> "nominal"]
           named == [op |-> op, id |-> id, blk |-> b, ref |-> ref, refs |-> {},
                     val |-> NoValue, alt |-> NoValue, type |-> "nominal"]
<1>1. Operation(op, id, b) = bare
  BY DEF Operation
<1>2. [bare EXCEPT !.ref = ref] = named
  OBVIOUS
<1>3. [named EXCEPT !.type = type]
      = [op |-> op, id |-> id, blk |-> b, ref |-> ref, refs |-> {},
            val |-> NoValue, alt |-> NoValue, type |-> type]
  OBVIOUS
<1> HIDE DEF bare, named
<1>4. QED
  BY <1>1, <1>2, <1>3 DEF ReadOf

WriteOf(op, id, b, ref, val) == [Operation(op, id, b) EXCEPT !.ref = ref, !.val = val]

(* A write, as the record it is.                                            *)
LEMMA WriteRecord ==
  ASSUME NEW op, NEW id, NEW b, NEW ref, NEW val
  PROVE  WriteOf(op, id, b, ref, val)
         = [op |-> op, id |-> id, blk |-> b, ref |-> ref, refs |-> {},
            val |-> val, alt |-> NoValue, type |-> "nominal"]
<1> DEFINE bare == [op |-> op, id |-> id, blk |-> b, ref |-> None, refs |-> {},
                    val |-> NoValue, alt |-> NoValue, type |-> "nominal"]
           named == [op |-> op, id |-> id, blk |-> b, ref |-> ref, refs |-> {},
                     val |-> NoValue, alt |-> NoValue, type |-> "nominal"]
<1>1. Operation(op, id, b) = bare
  BY DEF Operation
<1>2. [bare EXCEPT !.ref = ref] = named
  OBVIOUS
<1>3. [named EXCEPT !.val = val]
      = [op |-> op, id |-> id, blk |-> b, ref |-> ref, refs |-> {},
            val |-> val, alt |-> NoValue, type |-> "nominal"]
  OBVIOUS
<1> HIDE DEF bare, named
<1>4. QED
  BY <1>1, <1>2, <1>3 DEF WriteOf

LEMMA EmitReadIs ==
  ASSUME blk \in 1..3, Listing(ops, blk), Len(ops) <= MaxOps, NEW ref \in Refs
  PROVE  Emits([Operation("read", NewId, blk) EXCEPT !.ref = ref, !.type = ReadType(ref)])
<1> DEFINE o == [Operation("read", NewId, blk) EXCEPT !.ref = ref, !.type = ReadType(ref)]
<1>1. /\ NewId \in NewIds /\ \A p \in Whole(ops) : p.id # NewId /\ p.blk <= blk
  BY NewIdIs
<1>2. ReadType(ref) \in Types
  BY DEF ReadType, Types
<1>3. o = [op |-> "read", id |-> NewId, blk |-> blk, ref |-> ref, refs |-> {},
           val |-> NoValue, alt |-> NoValue, type |-> ReadType(ref)]
  <2>1. o = ReadOf("read", NewId, blk, ref, ReadType(ref))
    BY DEF ReadOf
  <2> HIDE DEF o
  <2>2. QED
    BY <2>1, ReadRecord
<1>4. /\ o.op = "read" /\ o.id = NewId /\ o.blk = blk /\ o.ref = ref /\ o.refs = {}
      /\ o.val = NoValue /\ o.alt = NoValue /\ o.type = ReadType(ref)
      /\ o \in Records
  BY <1>1, <1>2, <1>3 DEF Records, OpNames, Vals, Types
<1> HIDE DEF o
<1>5. Shaped(o)
  BY <1>4 DEF Shaped
<1>6. Fits(Whole(ops), o)
  BY <1>1, <1>4, <1>5 DEF Fits
<1>7. QED
  BY <1>4, <1>6 DEF Emits, Plain, o

LEMMA EmitWriteIs ==
  ASSUME blk \in 1..3, Listing(ops, blk), Len(ops) <= MaxOps, NEW ref \in Refs,
         NEW v \in {Literal(Len(ops))} \cup Visible("nominal")
  PROVE  Emits([Operation("write", NewId, blk) EXCEPT !.ref = ref, !.val = v])
<1> DEFINE o == [Operation("write", NewId, blk) EXCEPT !.ref = ref, !.val = v]
<1>1. /\ NewId \in NewIds /\ \A p \in Whole(ops) : p.id # NewId /\ p.blk <= blk
      /\ Len(ops) \in Nat
  BY NewIdIs
<1>2. Has(Whole(ops), v, {1, blk}, {"nominal"}) /\ v \in Vals /\ v # NoValue
  <2>1. CASE v = Literal(Len(ops))
    <3>1. v \in Nominal /\ v \in Ids /\ NoValue \notin Ids
      BY <1>1, <2>1, LiteralIs, Numbers
    <3>2. QED
      BY <3>1 DEF Has, Vals
  <2>2. CASE v \in Visible("nominal")
    BY <2>2, VisibleIs DEF Types
  <2>3. QED
    BY <2>1, <2>2
<1>3. o = [op |-> "write", id |-> NewId, blk |-> blk, ref |-> ref, refs |-> {},
           val |-> v, alt |-> NoValue, type |-> "nominal"]
  <2>1. o = WriteOf("write", NewId, blk, ref, v)
    BY DEF WriteOf
  <2> HIDE DEF o
  <2>2. QED
    BY <2>1, WriteRecord
<1>4. /\ o.op = "write" /\ o.id = NewId /\ o.blk = blk /\ o.ref = ref /\ o.refs = {}
      /\ o.val = v /\ o.alt = NoValue /\ o.type = "nominal" /\ o \in Records
  BY <1>1, <1>2, <1>3 DEF Records, OpNames, Vals
<1> HIDE DEF o
<1>5. Shaped(o)
  BY <1>2, <1>4 DEF Shaped
<1>6. Takes(o) = {"nominal"} /\ Scope(o) = {1, blk}
  BY <1>4 DEF Takes, Scope
<1>7. Fits(Whole(ops), o)
  BY <1>1, <1>2, <1>4, <1>5, <1>6 DEF Fits
<1>8. QED
  BY <1>4, <1>7 DEF Emits, Plain, o

LEMMA EmitCheckIs ==
  ASSUME blk \in 1..3, Listing(ops, blk), Len(ops) <= MaxOps, NEW v \in Visible("base")
  PROVE  Emits([Operation("check", NewId, blk) EXCEPT !.val = v])
<1> DEFINE o == [Operation("check", NewId, blk) EXCEPT !.val = v]
<1>1. /\ NewId \in NewIds /\ \A p \in Whole(ops) : p.id # NewId /\ p.blk <= blk
  BY NewIdIs
<1>2. Has(Whole(ops), v, {1, blk}, {"base"}) /\ v \in Vals /\ v # NoValue
  BY VisibleIs DEF Types
<1>3. o = [op |-> "check", id |-> NewId, blk |-> blk, ref |-> None, refs |-> {},
           val |-> v, alt |-> NoValue, type |-> "nominal"]
  BY DEF Operation
<1>4. /\ o.op = "check" /\ o.id = NewId /\ o.blk = blk /\ o.ref = None /\ o.refs = {}
      /\ o.val = v /\ o.alt = NoValue /\ o.type = "nominal" /\ o \in Records
  BY <1>1, <1>2, <1>3 DEF Records, OpNames, Vals
<1> HIDE DEF o
<1>5. Shaped(o)
  BY <1>2, <1>4 DEF Shaped
<1>6. Takes(o) = Types /\ Scope(o) = {1, blk}
  BY <1>4 DEF Takes, Scope
<1>7. Has(Whole(ops), v, {1, blk}, Types)
  BY <1>2 DEF Has, Types
<1>8. Fits(Whole(ops), o)
  BY <1>1, <1>4, <1>5, <1>6, <1>7 DEF Fits
<1>9. QED
  BY <1>4, <1>8 DEF Emits, Plain, o

LEMMA EmitCallIs ==
  ASSUME blk \in 1..3, Listing(ops, blk), Len(ops) <= MaxOps, NEW refs \in {{}, {"x"}}
  PROVE  Emits([Operation("call", NewId, blk) EXCEPT !.refs = refs])
<1> DEFINE o == [Operation("call", NewId, blk) EXCEPT !.refs = refs]
<1>1. /\ NewId \in NewIds /\ \A p \in Whole(ops) : p.id # NewId /\ p.blk <= blk
  BY NewIdIs
<1>2. refs \in SUBSET Refs
  BY DEF Refs
<1>3. o = [op |-> "call", id |-> NewId, blk |-> blk, ref |-> None, refs |-> refs,
           val |-> NoValue, alt |-> NoValue, type |-> "nominal"]
  BY DEF Operation
<1>4. /\ o.op = "call" /\ o.id = NewId /\ o.blk = blk /\ o.ref = None /\ o.refs = refs
      /\ o.val = NoValue /\ o.alt = NoValue /\ o.type = "nominal" /\ o \in Records
  BY <1>1, <1>2, <1>3 DEF Records, OpNames, Vals
<1> HIDE DEF o
<1>5. Shaped(o)
  BY <1>4 DEF Shaped
<1>6. Fits(Whole(ops), o)
  BY <1>1, <1>4, <1>5 DEF Fits
<1>7. QED
  BY <1>4, <1>6 DEF Emits, Plain, o

LEMMA EmitListing ==
  ASSUME blk \in 1..3, Listing(ops, blk), Len(ops) <= MaxOps, NEW o, Emits(o)
  PROVE  Listing(Append(ops, o), blk)
<1> DEFINE N == Len(ops)
           Q == Append(ops, o)
<1>1. /\ Valid(ops) /\ ops \in Seq(Records) /\ N \in Nat /\ N >= 1 /\ ops[1].op = "object"
      /\ \A n \in 1..N : ops[n].id = Fresh + n - 1 /\ Plain(ops[n]) /\ ops[n].blk <= blk
  BY ValidLists DEF Listing, Valid
<1>2. Fits(Upto(ops, N), o) /\ o \in Records /\ Plain(o) /\ o.id = Fresh + N /\ o.blk = blk
  BY DEF Emits, Whole, Fits, Shaped, NewId
<1>3. Valid(Q)
  BY <1>1, <1>2, AppendValid
<1>4. Len(Q) = N + 1 /\ Q[N + 1] = o /\ \A k \in 1..N : Q[k] = ops[k]
  BY <1>1, <1>2, AppendProperties
<1> HIDE DEF Q
<1>5. Fresh \in Nat /\ MaxOps \in Nat
  BY Numbers
<1>6. ASSUME NEW n \in 1..(N + 1)
      PROVE  Q[n].id = Fresh + n - 1 /\ Plain(Q[n]) /\ Q[n].blk <= blk
  <2>1. CASE n = N + 1
    BY <1>1, <1>2, <1>4, <1>5, <2>1
  <2>2. CASE n # N + 1
    BY <1>1, <1>4, <2>2
  <2>3. QED
    BY <2>1, <2>2
<1>7. N + 1 \in 1..(MaxOps + 1) /\ Q[1].op = "object"
  BY <1>1, <1>4, <1>5
<1>8. QED
  BY <1>3, <1>4, <1>6, <1>7 DEF Listing, Q

LEMMA ListingEarly ==
  ASSUME NEW L, NEW b, Listing(L, b)
  PROVE  Early(L)
<1>1. Len(L) \in 1..(MaxOps + 1) /\ \A n \in 1..Len(L) : L[n].id = Fresh + n - 1 /\ Plain(L[n])
  BY DEF Listing
<1>2. Fresh \in Nat /\ MaxOps \in Nat
  BY Numbers
<1>3. \A n \in 1..Len(L) : L[n].id \in Fresh..(Fresh + MaxOps)
  BY <1>1, <1>2
<1>4. \A n \in 1..Len(L) : L[n].op \in {"object", "read", "write", "check", "call"}
  BY <1>1 DEF Plain
<1>5. QED
  BY <1>3, <1>4 DEF Early

LEMMA DeclareIs ==
  ASSUME NEW init \in {NoValue, Literal(0)}
  PROVE  LET L == <<Declare(init)>> IN
         /\ Listing(L, 1) /\ Early(L)
         /\ \A env \in Environments, B \in SUBSET Machine :
              Nominal \cup {Unset, env.junk} \subseteq B => Stocked(env, B, L, 1) /\ Held(L, env, B)
<1> DEFINE a == Operation("object", Fresh, 1)
           b == [a EXCEPT !.ref = "x"]
           o == Declare(init)
           L == <<o>>
<1>1. a = [op |-> "object", id |-> Fresh, blk |-> 1, ref |-> None, refs |-> {},
           val |-> NoValue, alt |-> NoValue, type |-> "nominal"]
  BY DEF Operation
<1>2. o = [b EXCEPT !.val = init]
  BY DEF Declare
<1> HIDE DEF a
<1>3. b = [op |-> "object", id |-> Fresh, blk |-> 1, ref |-> "x", refs |-> {},
           val |-> NoValue, alt |-> NoValue, type |-> "nominal"]
  BY <1>1
<1> HIDE DEF b, o
<1>4. o = [op |-> "object", id |-> Fresh, blk |-> 1, ref |-> "x", refs |-> {},
           val |-> init, alt |-> NoValue, type |-> "nominal"]
  BY <1>2, <1>3
<1>5. init \in Nominal \cup {NoValue} /\ Fresh \in NewIds /\ Fresh \in Nat /\ MaxOps \in Nat
      /\ init \in Vals
  BY LiteralIs, Numbers DEF Vals
<1>6. /\ o.op = "object" /\ o.id = Fresh /\ o.blk = 1 /\ o.ref = "x" /\ o.refs = {}
      /\ o.val = init /\ o.alt = NoValue /\ o.type = "nominal" /\ o \in Records
  BY <1>4, <1>5 DEF Records, OpNames, Refs, Vals
<1>7. Shaped(o)
  BY <1>5, <1>6 DEF Shaped
<1>8. Fits({}, o)
  BY <1>6, <1>7 DEF Fits
<1>9. L \in Seq(Records) /\ Len(L) = 1 /\ L[1] = o /\ DOMAIN L = {1}
  BY <1>6
<1> HIDE DEF L
<1>10. Valid(L)
  <2>1. Upto(L, 1 - 1) = {}
    BY DEF Upto
  <2>2. \A n \in 1..Len(L) : n = 1
    BY <1>9
  <2>3. Fits(Upto(L, 1 - 1), L[1])
    BY <1>8, <1>9, <2>1
  <2>4. QED
    BY <1>9, <2>2, <2>3 DEF Valid
<1>11. Listing(L, 1)
  BY <1>5, <1>6, <1>9, <1>10 DEF Listing, Plain
<1>12. Early(L)
  BY <1>11, ListingEarly
<1>13. ASSUME NEW env \in Environments, NEW B \in SUBSET Machine,
              Nominal \cup {Unset, env.junk} \subseteq B
       PROVE  Stocked(env, B, L, 1) /\ Held(L, env, B)
  <2> DEFINE s == Start(env)
             t == Executed(L, env)
  <2>1. Listed(L)
    BY <1>10, ValidLists
  <2>2. s \in States /\ t = Execute(env, s, o)
    <3>1. /\ After(L, env)[0] = s /\ After(L, env)[0] \in States
          /\ After(L, env)[1] = Execute(env, After(L, env)[1 - 1], L[1])
      <4>1. 0 \in 0..Len(L) /\ 1 \in 1..Len(L)
        BY <1>9
      <4>2. QED
        BY <2>1, <4>1, RunIs
    <3>2. 1 - 1 = 0
      OBVIOUS
    <3>3. QED
      BY <1>9, <3>1, <3>2 DEF Executed
  <2>3. s.done = {} /\ s.raised = FALSE /\ \A c \in Refs : s.mem[c] = IF c = "x" THEN env.junk ELSE Unset
    BY DEF Start
  <2>4. init # NoValue => s.val[init] = init
    BY <1>5, Numbers DEF Start
  <2> HIDE DEF s, t
  <2>5. Effect(env, s, o, t)
    BY <1>7, <2>2, Executes
  <2>6. t.done = {}
    BY <1>6, <2>3, <2>5 DEF Effect, Results, Kinded
  <2>7. \A c \in Refs : t.mem[c] = IF c # "x" THEN Unset ELSE IF init = NoValue THEN env.junk ELSE init
    BY <1>6, <2>3, <2>4, <2>5 DEF Effect, Stores, Stored, Runs, Active
  <2>8. Held(L, env, B)
    BY <2>6 DEF Held, t
  <2>9. \A r \in Refs : UsersOf(L, r) = {}
    BY <1>6, <1>9 DEF UsersOf
  <2>10. (\A c \in Refs : t.mem[c] \in B) /\ (init # NoValue => t.mem["x"] \in Nominal)
    BY <1>5, <1>13, <2>7 DEF Refs
  <2>11. QED
    BY <1>6, <1>9, <2>8, <2>9, <2>10 DEF Stocked, t
<1>14. QED
  BY <1>11, <1>12, <1>13 DEF L, o

(* A new block starts with nothing written in it.                          *)
LEMMA NextBlockStocked ==
  ASSUME NEW b \in 1..2, NEW L, Listing(L, b), NEW env, NEW B, Stocked(env, B, L, b)
  PROVE  Listing(L, b + 1) /\ Stocked(env, B, L, b + 1)
<1>1. /\ DOMAIN L = 1..Len(L) /\ \A n \in 1..Len(L) : L[n].blk \in 1..3 /\ L[n].blk <= b
  BY BlockOrder DEF Listing
<1>2. \A n \in DOMAIN L : L[n].blk # b + 1 /\ L[n].blk <= b + 1
  BY <1>1
<1>3. \A r \in Refs : \A i \in UsersOf(L, r) : L[i].blk # b + 1
  BY <1>2 DEF UsersOf
<1>4. QED
  BY <1>1, <1>2, <1>3 DEF Stocked, Listing

-----------------------------------------------------------------------------
(* The inductive invariant *)

(* What a value of the base type is held to: a set that contains what is   *)
(* in storage, or the base type once it is known.                          *)
Suits(env, B) ==
  /\ Nominal \cup {Unset} \subseteq B
  /\ IF kind = Unknown THEN env.junk \in B ELSE BaseValues(kind) \subseteq B

Phases ==
  /\ phase \in {"emit", "optimise", "lowered", "failed"}
  /\ blk \in 1..3 /\ kind \in Kinds \cup {Unknown}
Formed ==
  /\ Valid(ops)
  /\ phase \in {"emit", "optimise"} => Early(ops)
  /\ phase = "lowered" => \A q \in Whole(ops) : ~Reference(q)
Emitting ==
  phase = "emit" =>
    /\ orig = ops /\ kind = Unknown /\ Listing(ops, blk)
    /\ \A env \in Environments, B \in SUBSET Machine : Suits(env, B) => Stocked(env, B, ops, blk)
HeldAll == \A env \in Environments, B \in SUBSET Machine : Suits(env, B) => Held(ops, env, B)

(* x, never written, may read as another value than it did.                *)
Kept(L, M, env) ==
  \E junk \in Machine : Alikes(Executed(L, [env EXCEPT !.junk = junk]), Executed(M, env))
KeptAll == phase # "emit" => \A env \in Environments : Kept(orig, ops, env)

IInv == Phases /\ Formed /\ Emitting /\ HeldAll /\ KeptAll

LEMMA UnknownKind == Unknown \notin Kinds
BY KindsAssumption DEF Unknown

LEMMA KeptMore ==
  ASSUME NEW env \in Environments, NEW L, NEW M, NEW N, Kept(L, M, env),
         Alikes(Executed(M, env), Executed(N, env))
  PROVE  Kept(L, N, env)
BY AlikeChain DEF Kept

LEMMA KeptAlike ==
  ASSUME NEW env \in Environments, NEW d \in Machine, NEW L, NEW M, NEW N,
         Kept(L, M, [env EXCEPT !.junk = d]),
         Alikes(Executed(M, [env EXCEPT !.junk = d]), Executed(N, env))
  PROVE  Kept(L, N, env)
<1> DEFINE e == [env EXCEPT !.junk = d]
<1>1. PICK junk \in Machine : Alikes(Executed(L, [e EXCEPT !.junk = junk]), Executed(M, e))
  BY DEF Kept
<1>2. [e EXCEPT !.junk = junk] = [env EXCEPT !.junk = junk]
  BY DEF Environments
<1> HIDE DEF e
<1>3. Alikes(Executed(L, [env EXCEPT !.junk = junk]), Executed(N, env))
  <2>1. Alikes(Executed(M, e), Executed(N, env))
    BY DEF e
  <2>2. QED
    BY <1>1, <1>2, <2>1, AlikeChain
<1>4. QED
  BY <1>3 DEF Kept

LEMMA KeptSame ==
  ASSUME NEW env \in Environments, NEW L
  PROVE  Kept(L, L, env)
<1>1. env.junk \in Machine /\ [env EXCEPT !.junk = env.junk] = env
  BY DEF Environments
<1>2. Alikes(Executed(L, env), Executed(L, env))
  BY DEF Alikes
<1>3. QED
  BY <1>1, <1>2 DEF Kept

LEMMA InitIInv ==
  ASSUME Init
  PROVE  IInv
<1>1. /\ \E init \in {NoValue, Literal(0)} : ops = <<Declare(init)>>
      /\ orig = ops /\ blk = 1 /\ kind = Unknown /\ phase = "emit"
  BY DEF Init
<1>2. /\ Listing(ops, 1) /\ Early(ops)
      /\ \A env \in Environments, B \in SUBSET Machine :
           Nominal \cup {Unset, env.junk} \subseteq B => Stocked(env, B, ops, 1) /\ Held(ops, env, B)
  BY <1>1, DeclareIs
<1>3. \A env \in Environments, B \in SUBSET Machine :
        Suits(env, B) => Stocked(env, B, ops, 1) /\ Held(ops, env, B)
  BY <1>1, <1>2 DEF Suits
<1>4. Phases
  BY <1>1 DEF Phases
<1>5. Formed
  BY <1>1, <1>2 DEF Formed, Listing
<1>6. Emitting /\ HeldAll /\ KeptAll
  BY <1>1, <1>2, <1>3 DEF Emitting, HeldAll, KeptAll
<1>7. QED
  BY <1>4, <1>5, <1>6 DEF IInv

LEMMA EmitIInv ==
  ASSUME IInv, NEW o, Emit(o), Len(ops) <= MaxOps => Emits(o)
  PROVE  IInv'
<1>1. /\ phase = "emit" /\ Len(ops) <= IF blk = 1 THEN MaxOps ELSE MaxSpread
      /\ ops' = Append(ops, o) /\ orig' = ops' /\ blk' = blk /\ kind' = kind /\ phase' = phase
  BY DEF Emit
<1>2. /\ blk \in 1..3 /\ kind = Unknown /\ orig = ops /\ Listing(ops, blk) /\ Valid(ops)
      /\ \A env \in Environments, B \in SUBSET Machine :
           Suits(env, B) => Stocked(env, B, ops, blk) /\ Held(ops, env, B)
  BY <1>1 DEF IInv, Phases, Formed, Emitting, HeldAll
<1>3. Len(ops) <= MaxOps /\ Emits(o)
  <2>1. Len(ops) \in Nat
    BY <1>2, BlockOrder
  <2>2. QED
    BY <1>1, <2>1, ValuesAssumption
<1>4. Listing(ops', blk) /\ Early(ops') /\ Valid(ops')
  <2>1. Listing(ops', blk)
    BY <1>1, <1>2, <1>3, EmitListing
  <2>2. QED
    BY <2>1, ListingEarly DEF Listing
<1>5. ASSUME NEW env \in Environments, NEW B \in SUBSET Machine, Suits(env, B)'
      PROVE  Stocked(env, B, ops', blk) /\ Held(ops', env, B)
  <2>1. Suits(env, B) /\ Nominal \subseteq B
    BY <1>1, <1>5 DEF Suits
  <2>2. Stocked(env, B, ops, blk) /\ Held(ops, env, B)
    BY <1>2, <2>1
  <2>3. QED
    BY <1>1, <1>2, <1>3, <1>4, <2>1, <2>2, EmitStocked
<1>6. Phases' /\ Formed' /\ KeptAll'
  BY <1>1, <1>4 DEF IInv, Phases, Formed, KeptAll
<1>7. Emitting' /\ HeldAll'
  BY <1>1, <1>2, <1>4, <1>5 DEF Emitting, HeldAll
<1>8. QED
  BY <1>6, <1>7 DEF IInv

LEMMA NextBlockIInv ==
  ASSUME IInv, NextBlock
  PROVE  IInv'
<1>1. /\ phase = "emit" /\ blk < 3 /\ blk' = blk + 1
      /\ ops' = ops /\ orig' = orig /\ kind' = kind /\ phase' = phase
  BY DEF NextBlock
<1>2. /\ blk \in 1..2 /\ kind = Unknown /\ orig = ops /\ Listing(ops, blk)
      /\ \A env \in Environments, B \in SUBSET Machine : Suits(env, B) => Stocked(env, B, ops, blk)
  BY <1>1 DEF IInv, Phases, Emitting
<1>3. blk' \in 1..3 /\ Listing(ops, blk')
  <2>1. \E env, B : env \in Environments /\ B \in SUBSET Machine /\ Suits(env, B)
    <3> DEFINE e == [junk |-> 0, alias |-> TRUE, cond |-> TRUE]
    <3>1. e \in Environments /\ Suits(e, Machine)
      BY <1>2, Numbers DEF Environments, Suits
    <3>2. QED
      BY <3>1
  <2>2. QED
    BY <1>1, <1>2, <2>1, NextBlockStocked
<1>4. \A env \in Environments, B \in SUBSET Machine : Suits(env, B) => Stocked(env, B, ops, blk')
  BY <1>1, <1>2, NextBlockStocked
<1>5. \A env, B : Suits(env, B)' <=> Suits(env, B)
  BY <1>1 DEF Suits
<1>6. Phases' /\ Formed' /\ HeldAll' /\ KeptAll'
  BY <1>1, <1>3, <1>5 DEF IInv, Phases, Formed, HeldAll, KeptAll
<1>7. Emitting'
  BY <1>1, <1>2, <1>3, <1>4, <1>5 DEF Emitting
<1>8. QED
  BY <1>6, <1>7 DEF IInv

LEMMA FinishIInv ==
  ASSUME IInv, Finish
  PROVE  IInv'
<1>1. /\ phase = "emit" /\ phase' = "optimise"
      /\ ops' = ops /\ orig' = orig /\ kind' = kind /\ blk' = blk
  BY DEF Finish
<1>2. orig = ops
  BY <1>1 DEF IInv, Emitting
<1>3. Phases' /\ Formed' /\ Emitting' /\ HeldAll'
  BY <1>1 DEF IInv, Phases, Formed, Emitting, HeldAll, Suits
<1>4. KeptAll'
  BY <1>1, <1>2, KeptSame DEF KeptAll
<1>5. QED
  BY <1>3, <1>4 DEF IInv

LEMMA CanonicalIInv ==
  ASSUME IInv, phase = "optimise", Canonical(ops'), UNCHANGED <<orig, blk, phase, kind>>
  PROVE  IInv'
<1>1. /\ Valid(ops') /\ Stems(ops, ops') /\ \A env \in Environments : Keeps(ops, ops', env)
  BY DEF Canonical
<1>2. Early(ops) /\ HeldAll /\ \A env \in Environments : Kept(orig, ops, env)
  BY DEF IInv, Formed, KeptAll
<1>3. Early(ops')
  BY <1>1, <1>2, StemsEarly
<1>4. \A env \in Environments, B \in SUBSET Machine : Suits(env, B) => Held(ops', env, B)
  BY <1>1, <1>2, KeepsHeld DEF HeldAll
<1>5. \A env \in Environments : Kept(orig, ops', env)
  BY <1>1, <1>2, Requalifies, KeptMore
<1>6. Phases' /\ Formed' /\ Emitting'
  BY <1>1, <1>3 DEF IInv, Phases, Formed, Emitting
<1>7. HeldAll' /\ KeptAll'
  BY <1>4, <1>5 DEF HeldAll, KeptAll, Suits
<1>8. QED
  BY <1>6, <1>7 DEF IInv

LEMMA PromoteIInv ==
  ASSUME IInv, Promote
  PROVE  IInv'
<1>1. PICK o \in DOMAIN ops : ops[o].op = "object"
  BY DEF Promote
<1>2. PICK k \in KindChoice : /\ Promotable(k) /\ kind' = k
                              /\ phase = "optimise" /\ ops' = Promoted(k)
                              /\ orig' = orig /\ blk' = blk /\ phase' = phase
  BY DEF Promote, Rewrite
<1>3. /\ Valid(ops) /\ Early(ops) /\ HeldAll /\ kind \in Kinds \cup {Unknown} /\ blk \in 1..3
      /\ \A env \in Environments : Kept(orig, ops, env)
  BY <1>2 DEF IInv, Phases, Formed, KeptAll
<1>4. k \in Kinds /\ k # Unknown /\ (kind # Unknown => k = kind)
  BY <1>2, <1>3, UnknownKind DEF KindChoice
<1>5. BaseValues(k) \subseteq Machine /\ Default(k) \in BaseValues(k) /\ Default(k) \in Machine
  BY <1>4, DefaultIs
<1>6. /\ Valid(ops') /\ Early(ops')
      /\ \A env \in Environments, B \in SUBSET Machine :
           LET junk == [env EXCEPT !.junk = Default(k)] IN
           Nominal \subseteq B /\ Default(k) \in B /\ Held(ops, junk, B) =>
             Alikes(Executed(ops, junk), Executed(ops', env)) /\ Held(ops', env, B)
  BY <1>1, <1>2, <1>3, <1>4, PromotionKeeps
<1>7. ASSUME NEW env \in Environments, NEW B \in SUBSET Machine,
             Nominal \cup {Unset} \subseteq B, BaseValues(k) \subseteq B
      PROVE  /\ Alikes(Executed(ops, [env EXCEPT !.junk = Default(k)]), Executed(ops', env))
             /\ Held(ops', env, B)
  <2> DEFINE junk == [env EXCEPT !.junk = Default(k)]
  <2>1. junk \in Environments /\ junk.junk = Default(k)
    BY <1>5 DEF Environments
  <2>2. Suits(junk, B)
    BY <1>4, <1>5, <1>7, <2>1 DEF Suits
  <2>3. Held(ops, junk, B)
    BY <1>3, <2>1, <2>2 DEF HeldAll
  <2>4. QED
    BY <1>5, <1>6, <1>7, <2>3
<1>8. \A env \in Environments, B \in SUBSET Machine : Suits(env, B)' => Held(ops', env, B)
  BY <1>2, <1>4, <1>7 DEF Suits
<1>9. \A env \in Environments : Kept(orig, ops', env)
  <2>1. TAKE env \in Environments
  <2> DEFINE junk == [env EXCEPT !.junk = Default(k)]
  <2>2. junk \in Environments
    BY <1>5 DEF Environments
  <2>3. Alikes(Executed(ops, junk), Executed(ops', env))
    BY <1>5, <1>7, ValuesAssumption DEF Machine
  <2>4. QED
    BY <1>3, <1>5, <2>2, <2>3, KeptAlike
<1>10. Phases' /\ Formed' /\ Emitting'
  BY <1>2, <1>3, <1>4, <1>6 DEF IInv, Phases, Formed, Emitting
<1>11. HeldAll' /\ KeptAll'
  BY <1>2, <1>8, <1>9 DEF HeldAll, KeptAll
<1>12. QED
  BY <1>10, <1>11 DEF IInv

LEMMA LowerIInv ==
  ASSUME IInv, LowerReferences
  PROVE  IInv'
<1>1. /\ phase = "optimise" /\ orig' = orig /\ blk' = blk /\ kind' = kind
      /\ \/ phase' = "failed" /\ ops' = ops
         \/ phase' = "lowered" /\ ops' = Lowered
  BY DEF LowerReferences
<1>2. Valid(ops) /\ Early(ops) /\ HeldAll /\ \A env \in Environments : Kept(orig, ops, env)
  BY <1>1 DEF IInv, Formed, KeptAll
<1>3. CASE phase' = "failed" /\ ops' = ops
  BY <1>1, <1>3 DEF IInv, Phases, Formed, Emitting, HeldAll, KeptAll, Suits
<1>4. CASE phase' = "lowered" /\ ops' = Lowered
  <2>1. /\ Valid(ops') /\ \A q \in Whole(ops') : ~Reference(q)
        /\ \A env, B : Lowering(env, B) =>
             Alikes(Executed(ops, env), Executed(ops', env)) /\ Held(ops', env, B)
    BY <1>2, <1>4, LoweringKeeps
  <2>2. \A env \in Environments, B \in SUBSET Machine : Suits(env, B) => Lowering(env, B)
    BY <1>2 DEF Suits, HeldAll, Lowering
  <2>3. ASSUME NEW env \in Environments PROVE Kept(orig, ops', env)
    <3>1. Suits(env, Machine)
      <4>1. kind \in Kinds \cup {Unknown} /\ env.junk \in Machine
        BY DEF IInv, Phases, Environments
      <4>2. QED
        BY <4>1, DefaultIs, Numbers DEF Suits
    <3>2. Alikes(Executed(ops, env), Executed(ops', env))
      BY <2>1, <2>2, <3>1
    <3>3. QED
      BY <1>2, <3>2, KeptMore
  <2>4. Phases' /\ Formed' /\ Emitting'
    BY <1>1, <1>4, <2>1 DEF IInv, Phases, Formed, Emitting
  <2>5. HeldAll' /\ KeptAll'
    BY <1>1, <2>1, <2>2, <2>3 DEF HeldAll, KeptAll, Suits
  <2>6. QED
    BY <2>4, <2>5 DEF IInv
<1>5. QED
  BY <1>1, <1>3, <1>4

(* Every step keeps the invariant.                                         *)
LEMMA StepIInv ==
  ASSUME IInv, [Next]_vars
  PROVE  IInv'
<1>1. CASE UNCHANGED vars
  BY <1>1 DEF vars, IInv, Phases, Formed, Emitting, HeldAll, KeptAll, Suits
<1>2. ASSUME NEW o, Emit(o), Len(ops) <= MaxOps => Emits(o) PROVE IInv'
  BY <1>2, EmitIInv
<1>3. ASSUME phase = "emit" PROVE blk \in 1..3 /\ Listing(ops, blk)
  BY <1>3 DEF IInv, Phases, Emitting
<1>4. CASE \E ref \in Refs \ {"e2"} : EmitRead(ref)
  <2>1. PICK ref \in Refs : EmitRead(ref)
    BY <1>4
  <2>2. blk \in 1..3 /\ Listing(ops, blk)
    BY <1>3, <2>1 DEF EmitRead, Emit
  <2>3. QED
    BY <1>2, <2>1, <2>2, EmitReadIs DEF EmitRead
<1>5. CASE \E ref \in Refs, v \in {Literal(Len(ops))} \cup Visible("nominal") : EmitWrite(ref, v)
  <2>1. PICK ref \in Refs, v \in {Literal(Len(ops))} \cup Visible("nominal") : EmitWrite(ref, v)
    BY <1>5
  <2>2. blk \in 1..3 /\ Listing(ops, blk)
    BY <1>3, <2>1 DEF EmitWrite, Emit
  <2>3. QED
    BY <1>2, <2>1, <2>2, EmitWriteIs DEF EmitWrite
<1>6. CASE \E v \in Visible("base") : EmitCheck(v)
  <2>1. PICK v \in Visible("base") : EmitCheck(v)
    BY <1>6
  <2>2. blk \in 1..3 /\ Listing(ops, blk)
    BY <1>3, <2>1 DEF EmitCheck, Emit
  <2>3. QED
    BY <1>2, <2>1, <2>2, EmitCheckIs DEF EmitCheck
<1>7. CASE \E refs \in {{}, {"x"}} : EmitCall(refs)
  <2>1. PICK refs \in {{}, {"x"}} : EmitCall(refs)
    BY <1>7
  <2>2. blk \in 1..3 /\ Listing(ops, blk)
    BY <1>3, <2>1 DEF EmitCall, Emit
  <2>3. QED
    BY <1>2, <2>1, <2>2, EmitCallIs DEF EmitCall
<1>8. ASSUME NEW i \in DOMAIN ops,
             \/ ForwardObjectWrite(i) \/ SimplifyObjectWrite(i) \/ FoldRequalify(i)
             \/ CollapseRequalifyChain(i) \/ EraseDead(i)
      PROVE  IInv'
  <2>1. Valid(ops)
    BY DEF IInv, Formed
  <2>2. Canonical(ops')
    BY <1>8, <2>1, ForwardCanonical, SimplifyCanonical, FoldCanonical, CollapseCanonical,
       EraseCanonical
  <2>3. phase = "optimise" /\ UNCHANGED <<orig, blk, phase, kind>>
    BY <1>8 DEF ForwardObjectWrite, SimplifyObjectWrite, FoldRequalify, CollapseRequalifyChain,
                EraseDead, Rewrite
  <2>4. QED
    BY <2>2, <2>3, CanonicalIInv
<1>9. CASE Emission
  BY <1>4, <1>5, <1>6, <1>7, <1>9, NextBlockIInv, FinishIInv DEF Emission
<1>10. CASE Optimisation
  BY <1>8, <1>10, PromoteIInv, LowerIInv DEF Optimisation
<1>11. QED
  BY <1>1, <1>9, <1>10 DEF Next

LEMMA Invariant == Spec => []IInv
<1>1. Init => IInv
  BY InitIInv
<1>2. IInv /\ [Next]_vars => IInv'
  BY StepIInv
<1>3. QED
  BY <1>1, <1>2, PTL DEF Spec

-----------------------------------------------------------------------------
(* What follows from it *)

LEMMA TypeFollows ==
  ASSUME IInv
  PROVE  TypeOK
<1>1. Phases /\ Valid(ops)
  BY DEF IInv, Formed
<1>2. /\ DOMAIN ops = 1..Len(ops) /\ Len(ops) \in Nat
      /\ \A i \in 1..Len(ops) : ops[i] \in Records
      /\ \A i \in 1..Len(ops), j \in 1..Len(ops) : j < i => ops[j].blk <= ops[i].blk
  BY <1>1, BlockOrder, ValidLists
<1>3. ASSUME NEW i \in DOMAIN ops
      PROVE  /\ ops[i].id \in Ids /\ Operands(ops[i]) \subseteq Ids
             /\ ops[i].type \in {"nominal", "base"} /\ ops[i].blk \in 1..3
             /\ i > 1 => ops[i - 1].blk <= ops[i].blk
  <2>1. ops[i] \in Records
    BY <1>2
  <2>2. i > 1 => ops[i - 1].blk <= ops[i].blk
    BY <1>2
  <2>3. QED
    BY <2>1, <2>2 DEF Records, NewIds, Vals, Operands
<1>4. QED
  BY <1>1, <1>3 DEF TypeOK, Phases

LEMMA DefinedIs ==
  ASSUME Valid(ops), NEW i \in 1..Len(ops), NEW v, NEW S, NEW T, Has(Upto(ops, i - 1), v, S, T)
  PROVE  DefinedFor(v, i, S) /\ TypeOf(ops, v) \in T
<1>1. DOMAIN ops = 1..Len(ops) /\ Len(ops) \in Nat
  BY BlockOrder
<1>2. DefinedFor(v, i, S)
  <2>1. CASE v \in Nominal
    BY <2>1, Numbers DEF DefinedFor
  <2>2. CASE v \notin Nominal
    <3>1. PICK j \in 1..(i - 1) : ops[j].op \in Kinded /\ ops[j].id = v /\ ops[j].blk \in S
      BY <2>2 DEF Has, Upto
    <3>2. j \in DOMAIN ops /\ j < i
      BY <1>1
    <3>3. QED
      BY <3>1, <3>2 DEF DefinedFor, DefinerOf
  <2>3. QED
    BY <2>1, <2>2
<1>3. Has(Upto(ops, Len(ops)), v, S, T)
  <2>1. i - 1 \in Nat /\ i - 1 <= Len(ops)
    BY <1>1
  <2>2. QED
    BY <1>1, <2>1, MoreHas
<1>4. QED
  BY <1>2, <1>3, TypeIs

LEMMA IRFollows ==
  ASSUME IInv
  PROVE  IRValid
<1>1. Valid(ops) /\ DOMAIN ops = 1..Len(ops) /\ (phase = "lowered" => \A q \in Whole(ops) : ~Reference(q))
  BY BlockOrder DEF IInv, Formed
<1> SUFFICES ASSUME NEW i \in 1..Len(ops), NEW o, o = ops[i]
             PROVE  /\ o.val # NoValue =>
                         DefinedFor(o.val, i, IF o.op = "join" THEN {1, 2} ELSE {1, o.blk})
                    /\ o.op = "join" => DefinedFor(o.alt, i, {1})
                    /\ o.op = "join" => \A v \in Operands(o) : TypeOf(ops, v) = "base"
                    /\ o.op = "write" => TypeOf(ops, o.val) = "nominal"
                    /\ o.op = "store" => TypeOf(ops, o.val) = "base"
                    /\ phase = "lowered" => o.op \notin {"object", "read", "write"}
  BY <1>1 DEF IRValid
<1>2. Fits(Upto(ops, i - 1), o) /\ Shaped(o) /\ o \in Whole(ops)
  BY <1>1, ValidLists DEF Whole, Upto
<1>3. CASE o.op \notin {"object", "constant"} /\ o.val # NoValue
  <2>1. Has(Upto(ops, i - 1), o.val, Scope(o), Takes(o))
    BY <1>2, <1>3 DEF Fits
  <2>2. DefinedFor(o.val, i, Scope(o)) /\ TypeOf(ops, o.val) \in Takes(o)
    BY <1>1, <2>1, DefinedIs
  <2>3. o.op = "join" => DefinedFor(o.alt, i, {1}) /\ TypeOf(ops, o.alt) \in {"base"}
    <3>1. o.op = "join" => Has(Upto(ops, i - 1), o.alt, {1}, {"base"})
      BY <1>2 DEF Fits
    <3>2. QED
      BY <1>1, <3>1, DefinedIs
  <2>4. phase = "lowered" => o.op \notin {"object", "read", "write"}
    BY <1>1, <1>2 DEF Reference
  <2>5. QED
    BY <2>2, <2>3, <2>4 DEF Scope, Takes, Operands
<1>4. CASE o.op \in {"object", "constant"}
  <2>1. o.val # NoValue => o.val \in Machine
    BY <1>2, <1>4, Numbers DEF Shaped
  <2>2. QED
    BY <1>1, <1>2, <1>4, <2>1 DEF DefinedFor, Reference
<1>5. CASE o.val = NoValue
  <2>1. o.op \notin {"join", "write", "store"}
    BY <1>2, <1>5 DEF Shaped
  <2>2. QED
    BY <1>1, <1>2, <1>5, <2>1 DEF Reference
<1>6. QED
  BY <1>3, <1>4, <1>5

LEMMA TellingIs == Telling \subseteq Environments
<1>1. Junk \subseteq Machine /\ (CHOOSE n \in Junk : TRUE) \in Machine
  BY ValuesAssumption
<1>2. QED
  BY <1>1 DEF Telling, Environments

LEMMA OutcomesFollow ==
  ASSUME IInv
  PROVE  OutcomesKept
<1> SUFFICES ASSUME phase # "emit", NEW env \in Telling
             PROVE  \E junk \in Machine :
                      Outcome(ops, env) = Outcome(orig, [env EXCEPT !.junk = junk])
  BY DEF OutcomesKept
<1>1. env \in Environments
  BY TellingIs
<1>2. PICK junk \in Machine : Alikes(Executed(orig, [env EXCEPT !.junk = junk]), Executed(ops, env))
  BY <1>1 DEF IInv, KeptAll, Kept
<1> DEFINE e == [env EXCEPT !.junk = junk]
           s == Executed(orig, e)
           t == Executed(ops, env)
           C == {Cell(env, r) : r \in Shared}
<1>3. \A r : Cell(e, r) = Cell(env, r)
  BY <1>1, SameEnvironment
<1>4. C \subseteq Shared
  BY <1>1, Cells DEF Shared, Refs
<1>5. t.raised = s.raised /\ t.trace = s.trace /\ \A c \in Shared : t.mem[c] = s.mem[c]
  BY <1>2 DEF Alikes
<1>6. Outcome(ops, env) = [trace |-> t.trace, raised |-> t.raised, shared |-> [c \in C |-> t.mem[c]]]
  BY DEF Outcome
<1>7. Outcome(orig, e) = [trace |-> s.trace, raised |-> s.raised, shared |-> [c \in C |-> s.mem[c]]]
  BY <1>3 DEF Outcome
<1> HIDE DEF e, s, t, C
<1>8. [c \in C |-> t.mem[c]] = [c \in C |-> s.mem[c]]
  BY <1>4, <1>5
<1>9. Outcome(ops, env) = Outcome(orig, e)
  BY <1>5, <1>6, <1>7, <1>8
<1>10. QED
  BY <1>9 DEF e

LEMMA ValuesFollow ==
  ASSUME IInv
  PROVE  ValuesHeld
<1> SUFFICES ASSUME NEW env \in Telling, NEW i \in DOMAIN ops, ops[i].op \in Kinded,
                    ops[i].id \in Executed(ops, env).done
             PROVE  Executed(ops, env).val[ops[i].id] \in
                      (IF ops[i].type = "nominal" THEN Nominal ELSE BaseValues(kind))
  BY DEF ValuesHeld
<1>1. env \in Environments /\ env.junk \in Machine
  BY TellingIs DEF Environments
<1>2. kind \in Kinds \cup {Unknown} /\ Valid(ops) /\ HeldAll
  BY DEF IInv, Phases, Formed
<1>3. BaseValues(kind) \in SUBSET Machine /\ Suits(env, BaseValues(kind))
  <2>1. CASE kind = Unknown
    <3>1. BaseValues(kind) = Machine
      BY <2>1 DEF BaseValues, Unknown
    <3>2. QED
      BY <1>1, <2>1, <3>1, Numbers DEF Suits
  <2>2. CASE kind # Unknown
    BY <1>2, <2>2, DefaultIs DEF Suits
  <2>3. QED
    BY <2>1, <2>2
<1>4. Held(ops, env, BaseValues(kind))
  BY <1>1, <1>2, <1>3 DEF HeldAll
<1>5. ops[i] \in Whole(ops)
  BY <1>2, BlockOrder DEF Whole, Upto
<1>6. QED
  BY <1>4, <1>5 DEF Held

(* However many rewritings apply and in whatever order, a list is one of   *)
(* operations with names and operands in range, block after block.         *)
THEOREM TypeCorrect == Spec => []TypeOK
<1>1. IInv => TypeOK
  BY TypeFollows
<1>2. QED
  BY <1>1, Invariant, PTL

(* For lists of any length and every sequence of canonicalisations,        *)
(* promotion and lowering: the verifiers accept what they leave.  An       *)
(* operand is defined before its use in a block that dominates it, a write *)
(* takes the nominal type, storage and joins the base type, and lowering   *)
(* leaves no object, read or write.                                        *)
THEOREM ListsValid == Spec => []IRValid
<1>1. IInv => IRValid
  BY IRFollows
<1>2. QED
  BY <1>1, Invariant, PTL

(* For every list of operations the emitter makes, whatever the declared   *)
(* type, the aliasing of the elements and the path taken: the rewritings,  *)
(* in any order and any number, keep the calls and what each sees, the     *)
(* check that fails and what the elements hold in the end, but for what    *)
(* storage never written is read as.                                       *)
THEOREM OutcomesPreserved == Spec => []OutcomesKept
<1>1. IInv => OutcomesKept
  BY OutcomesFollow
<1>2. QED
  BY <1>1, Invariant, PTL

(* No rewriting gives a value a type it does not satisfy: one of the       *)
(* constrained subtype lies in it, and one of the base type, once that is  *)
(* known, in its range, whatever storage held.                             *)
THEOREM ValuesPreserved == Spec => []ValuesHeld
<1>1. IInv => ValuesHeld
  BY ValuesFollow
<1>2. QED
  BY <1>1, Invariant, PTL
=============================================================================
