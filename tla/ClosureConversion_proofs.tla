----------------------- MODULE ClosureConversion_proofs -----------------------
(***************************************************************************)
(* Proofs about ClosureConversion, for every well-formed module: what the  *)
(* pass leaves at module level is isolated, calls and parameters agree,    *)
(* the parameters are the least possible, and exactly the modules with an  *)
(* upward call that needs captures are refused; and about LiftedExecution: *)
(* a converted module, run with the captured values its calls pass,        *)
(* reaches the objects Ada's scope rules name.                             *)
(***************************************************************************)
EXTENDS LiftedExecution, FiniteSetTheorems, SequenceTheorems, TLAPS

(* The subprograms whose turn has come, and the calls rewritten so far.    *)
Settled(s) == s < next \/ (s = next /\ pc \in {"calls", "failed"})
Rewritten(c) ==
  \/ prog.callee[c] < next
  \/ prog.callee[c] = next /\ pc \in {"calls", "failed"} /\ c \notin todo

(* How the body of s names a value.                                        *)
InBody(s, v) == IF Settled(s) THEN Ref(s, v) ELSE Source(v)

Captured(s) == {captures[s][k].value : k \in 1..Len(captures[s])}

(* The walk is in post-order, so what is nested in a subprogram has moved  *)
(* out before it.                                                          *)
HoistedInv == hoisted = {s \in Subps : s < next /\ IsNested(s)}

PhaseInv ==
  /\ pc \in {"calls", "failed"} =>
       /\ next \in Subps /\ IsNested(next) /\ captures[next] # <<>>
       /\ \A c \in todo : prog.callee[c] = next
  /\ pc = "done" => next = prog.n + 1

RefsInv == \A s \in Subps : refs[s] = {InBody(s, v) : v \in prog.uses[s]}

(* A capture is a value of an enclosing subprogram, passed only once.      *)
CapturesInv ==
  \A s \in Subps :
    /\ captures[s] # <<>> => IsNested(s) /\ Settled(s)
    /\ \A k \in 1..Len(captures[s]) :
         /\ captures[s][k] = Source(captures[s][k].value)
         /\ prog.owner[captures[s][k].value] \in prog.enclosing[s] \ {s}
    /\ \A j, k \in 1..Len(captures[s]) : captures[s][j] = captures[s][k] => j = k

ArgsInv ==
  \A c \in prog.calls :
    args[c] = IF Rewritten(c)
                THEN [k \in 1..Len(captures[prog.callee[c]]) |->
                        InBody(prog.caller[c], captures[prog.callee[c]][k].value)]
                ELSE <<>>

(* Whatever the code of a settled subprogram names is its own or captured. *)
SufficientInv ==
  \A s \in Subps : Settled(s) =>
    \A r \in RefsIn({s}) : r.value \in Own(s) \cup Captured(s)

(* No capture is in excess of what is needed.                              *)
LeastInv ==
  \A free \in [Subps -> SUBSET prog.values] :
    Closed(free) => \A s \in Subps : Captured(s) \subseteq free[s]

Upward(c) == IsNested(prog.caller[c]) /\ prog.caller[c] < prog.callee[c]

RefusalInv ==
  /\ \A c \in prog.calls :
       Upward(c) /\ Rewritten(c) => captures[prog.callee[c]] = <<>>
  /\ pc = "failed" => \E c \in prog.calls : prog.callee[c] = next /\ Upward(c)

IInv ==
  /\ TypeOK /\ HoistedInv /\ PhaseInv /\ RefsInv /\ CapturesInv /\ ArgsInv
  /\ SufficientInv /\ LeastInv /\ RefusalInv

-----------------------------------------------------------------------------
(* Modules and references *)

(* A module that is not nested in anything encloses only itself.           *)
LEMMA Nesting ==
  ASSUME WellFormed(prog)
  PROVE  /\ \A s \in Subps : s \in Nat /\ s \in prog.enclosing[s]
         /\ \A s \in Subps : \A t \in prog.enclosing[s] : t \in Subps /\ s <= t
         /\ \A s \in Subps : \A v \in prog.uses[s] :
              v \in prog.values /\ prog.owner[v] \in prog.enclosing[s]
         /\ \A v \in prog.values : prog.owner[v] \in Subps
         /\ \A c \in prog.calls :
              /\ prog.caller[c] \in Subps /\ prog.callee[c] \in Subps
              /\ prog.enclosing[prog.callee[c]] \ {prog.callee[c]}
                   \subseteq prog.enclosing[prog.caller[c]]
<1>1. /\ prog.n \in Nat
      /\ prog.enclosing \in [Subps -> SUBSET Subps]
      /\ prog.owner \in [prog.values -> Subps]
      /\ prog.uses \in [Subps -> SUBSET prog.values]
      /\ prog.caller \in [prog.calls -> Subps]
      /\ prog.callee \in [prog.calls -> Subps]
  BY DEF WellFormed, Subps
<1>2. \A s \in Subps : s \in Nat /\ s \in prog.enclosing[s]
  BY <1>1 DEF WellFormed, Subps
<1>3. \A s \in Subps : \A t \in prog.enclosing[s] : t \in Subps /\ s <= t
  BY <1>1 DEF WellFormed, Subps
<1>4. \A s \in Subps : \A v \in prog.uses[s] :
        v \in prog.values /\ prog.owner[v] \in prog.enclosing[s]
  BY <1>1 DEF WellFormed, Subps
<1>5. \A c \in prog.calls :
        prog.enclosing[prog.callee[c]] \ {prog.callee[c]}
          \subseteq prog.enclosing[prog.caller[c]]
  BY DEF WellFormed
<1>6. QED
  BY <1>1, <1>2, <1>3, <1>4, <1>5

(* The bodies still inside the one being lifted: none but its own.         *)
LEMMA RegionOfNext ==
  ASSUME TypeOK, HoistedInv, next \in Subps
  PROVE  Region(next) = {next}
<1>1. next \in Region(next)
  BY Nesting DEF TypeOK, Region
<1>2. ASSUME NEW t \in Region(next), t # next
      PROVE  FALSE
  <2>1. t \in Subps /\ next \in prog.enclosing[t]
    BY DEF Region
  <2>2. t <= next /\ t \in Nat /\ next \in Nat
    BY <2>1, Nesting DEF TypeOK
  <2>3. t < next
    BY <1>2, <2>2
  <2>4. t \in prog.enclosing[t] /\ t \notin prog.enclosing[next]
    BY <2>1, <2>2, <2>3, Nesting DEF TypeOK
  <2>5. IsNested(t)
    BY <1>2, <2>1, <2>4 DEF IsNested
  <2>6. t \in hoisted
    BY <2>1, <2>3, <2>5 DEF HoistedInv
  <2>7. QED
    BY <2>4, <2>6 DEF Region
<1>3. QED
  BY <1>1, <1>2

(* The references of one body: those outside calls and those calls pass.   *)
Passes(s, r) ==
  \E c \in prog.calls : \E k \in 1..Len(args[c]) :
    prog.caller[c] = s /\ r = args[c][k]

LEMMA RefsOfBody ==
  TypeOK => \A s, r : r \in RefsIn({s}) <=> r \in refs[s] \/ Passes(s, r)
<1> SUFFICES ASSUME TypeOK, NEW s, NEW r
             PROVE  r \in RefsIn({s}) <=> r \in refs[s] \/ Passes(s, r)
  OBVIOUS
<1> DEFINE mine == {d \in prog.calls : prog.caller[d] \in {s}}
<1>1. ASSUME NEW c \in prog.calls
      PROVE  Range(args[c]) = {args[c][k] : k \in 1..Len(args[c])}
  BY DEF TypeOK, Range
<1>2. RefsIn({s}) = refs[s] \cup UNION {Range(args[c]) : c \in mine}
  <2>1. UNION {refs[t] : t \in {s}} = refs[s]
    OBVIOUS
  <2>2. QED
    BY <2>1 DEF RefsIn
<1>3. r \in UNION {Range(args[c]) : c \in mine} <=>
        \E c \in mine : r \in Range(args[c])
  OBVIOUS
<1>4. (\E c \in mine : r \in Range(args[c])) <=> Passes(s, r)
  BY <1>1, Zenon DEF Passes
<1>5. QED
  BY <1>2, <1>3, <1>4

LEMMA RefsOfBodyNext ==
  (TypeOK => \A s, r : r \in RefsIn({s}) <=> r \in refs[s] \/ Passes(s, r))'
BY RefsOfBody, PTL

LEMMA InBodyValue == \A s, v : InBody(s, v).value = v
BY DEF InBody, Ref, Source

LEMMA ArgumentsNamed ==
  ASSUME TypeOK, NEW c \in prog.calls, NEW k \in 1..Len(args[c])
  PROVE  args[c][k] \in RefsIn({prog.caller[c]})
<1>1. Passes(prog.caller[c], args[c][k])
  BY DEF Passes
<1>2. QED
  BY <1>1, RefsOfBody

(* A body names values it may see, as its owner until its turn comes.      *)
LEMMA NamedByBody ==
  ASSUME TypeOK, RefsInv, CapturesInv, ArgsInv,
         NEW s \in Subps, NEW r \in RefsIn({s})
  PROVE  /\ r.value \in prog.values
         /\ prog.owner[r.value] \in prog.enclosing[s]
         /\ r = InBody(s, r.value)
<1>0. WellFormed(prog)
  BY DEF TypeOK
<1>1. CASE r \in refs[s]
  <2>1. PICK v \in prog.uses[s] : r = InBody(s, v)
    BY <1>1 DEF RefsInv
  <2>2. r.value = v
    BY <2>1 DEF InBody, Ref, Source
  <2>3. QED
    BY <1>0, <2>1, <2>2, Nesting
<1>2. CASE Passes(s, r)
  <2>0. PICK c \in prog.calls : \E k \in 1..Len(args[c]) :
               prog.caller[c] = s /\ r = args[c][k]
    BY <1>2 DEF Passes
  <2>1. PICK k \in 1..Len(args[c]) : prog.caller[c] = s /\ r = args[c][k]
    BY <2>0
  <2> DEFINE t == prog.callee[c]
             x == captures[t][k]
  <2>2. t \in Subps /\ captures[t] \in Seq(Refs)
    BY <1>0, Nesting DEF TypeOK
  <2>3. k \in 1..Len(captures[t]) /\ r = InBody(s, x.value)
    <3>1. CASE Rewritten(c)
      <4>1. args[c] = [j \in 1..Len(captures[t]) |-> InBody(s, captures[t][j].value)]
        BY <2>1, <3>1 DEF ArgsInv
      <4>2. Len(captures[t]) \in Nat
        BY <2>2
      <4>3. Len(args[c]) = Len(captures[t])
        BY <4>1, <4>2
      <4>4. QED
        BY <2>1, <4>1, <4>3
    <3>2. CASE ~Rewritten(c)
      <4>1. args[c] = <<>>
        BY <3>2 DEF ArgsInv
      <4>2. QED
        BY <2>1, <4>1
    <3>3. QED
      BY <3>1, <3>2
  <2>4. x \in Refs
    BY <2>2, <2>3
  <2>5. x.value \in prog.values /\ r.value = x.value
    BY <2>3, <2>4 DEF Refs, InBody, Ref, Source
  <2>6. prog.owner[x.value] \in prog.enclosing[t] \ {t}
    BY <2>2, <2>3 DEF CapturesInv
  <2>7. QED
    BY <1>0, <2>1, <2>3, <2>5, <2>6, Nesting
<1>3. QED
  BY <1>1, <1>2, RefsOfBody

(* What is taken from above is named as its owner names it.                *)
LEMMA UsedFromAboveIs ==
  ASSUME TypeOK, HoistedInv, RefsInv, CapturesInv, ArgsInv,
         pc = "isolate", next \in Subps
  PROVE  /\ \A r \in RefsIn({next}) : r = Source(r.value) /\ r \in Refs
         /\ UsedFromAbove(next) =
              {r \in RefsIn({next}) : prog.owner[r.value] # next}
         /\ \A r \in RefsIn({next}) :
              Replaced(r) = Ref(next, r.value)
<1>1. Region(next) = {next}
  BY RegionOfNext
<1>2. ~Settled(next)
  BY DEF Settled, TypeOK
<1>3. ASSUME NEW r \in RefsIn({next})
      PROVE  /\ r = Source(r.value) /\ r \in Refs
             /\ r.at = prog.owner[r.value]
  <2>1. r.value \in prog.values /\ r = InBody(next, r.value)
    BY NamedByBody
  <2>2. r = Source(r.value)
    BY <1>2, <2>1 DEF InBody
  <2>3. QED
    BY <2>1, <2>2, Nesting DEF TypeOK, Refs, Ref, Source
<1>4. UsedFromAbove(next) = {r \in RefsIn({next}) : prog.owner[r.value] # next}
  BY <1>1, <1>3 DEF UsedFromAbove
<1>5. ASSUME NEW r \in RefsIn({next})
      PROVE  Replaced(r) = Ref(next, r.value)
  BY <1>3, <1>4 DEF Replaced, Lifted, Ref, Source
<1>6. QED
  BY <1>3, <1>4, <1>5

-----------------------------------------------------------------------------
(* The invariant holds and is preserved *)

LEMMA InitInv == Init => IInv
<1> SUFFICES ASSUME Init PROVE IInv
  OBVIOUS
<1>1. WellFormed(prog) /\ prog.n \in Nat
  BY ProgramsAssumption DEF Init, WellFormed
<1>2. /\ next = 1 /\ pc = "isolate" /\ todo = {} /\ hoisted = {}
      /\ refs = [s \in Subps |-> {Source(v) : v \in prog.uses[s]}]
      /\ args = [c \in prog.calls |-> <<>>]
      /\ captures = [s \in Subps |-> <<>>]
  BY DEF Init
<1>3. \A s \in Subps : s \in Nat /\ 1 <= s
  BY <1>1 DEF Subps
<1>4. \A s \in Subps : ~Settled(s)
  BY <1>2, <1>3 DEF Settled
<1>5. \A c \in prog.calls : ~Rewritten(c)
  BY <1>1, <1>2, <1>3, Nesting DEF Rewritten
<1>6. \A s \in Subps : Captured(s) = {}
  BY <1>2 DEF Captured
<1>7. TypeOK
  <2>1. refs \in [Subps -> SUBSET Refs]
    BY <1>1, <1>2, Nesting DEF Refs, Source, Ref
  <2>2. args \in [prog.calls -> Seq(Refs)] /\ captures \in [Subps -> Seq(Refs)]
    BY <1>2
  <2>3. QED
    BY <1>1, <1>2, <2>1, <2>2 DEF TypeOK
<1>8. HoistedInv /\ PhaseInv
  BY <1>2, <1>3 DEF HoistedInv, PhaseInv
<1>9. RefsInv
  BY <1>2, <1>4 DEF RefsInv, InBody
<1>10. CapturesInv
  BY <1>2 DEF CapturesInv
<1>11. ArgsInv
  BY <1>2, <1>5 DEF ArgsInv
<1>12. SufficientInv /\ LeastInv /\ RefusalInv
  BY <1>2, <1>4, <1>5, <1>6 DEF SufficientInv, LeastInv, RefusalInv
<1>13. QED
  BY <1>7, <1>8, <1>9, <1>10, <1>11, <1>12 DEF IInv

(* The definitions that depend on the module alone.                        *)
LEMMA ModuleKept ==
  ASSUME prog' = prog
  PROVE  /\ Subps' = Subps /\ Refs' = Refs
         /\ (WellFormed(prog) => WellFormed(prog)')
         /\ \A s : IsNested(s)' = IsNested(s) /\ Own(s)' = Own(s)
         /\ \A v : Source(v)' = Source(v)
         /\ \A c : Upward(c)' = Upward(c)
         /\ \A free : Closed(free)' = Closed(free)
BY DEF Subps, Refs, IsNested, Own, Source, Upward, Closed

(* A subprogram that needs nothing from above is stepped over or moved     *)
(* out; for its body either way of naming values is the same.              *)
LEMMA Advance ==
  ASSUME IInv, pc = "isolate", NEW n \in Subps, n = next,
         \A r \in RefsIn({n}) : prog.owner[r.value] = n,
         next' = n + 1,
         UNCHANGED <<prog, pc, refs, args, captures, todo>>,
         hoisted' = IF IsNested(n) THEN hoisted \cup {n} ELSE hoisted
  PROVE  IInv'
<1>0. TypeOK /\ WellFormed(prog) /\ n \in Nat /\ prog.n \in Nat
  BY DEF IInv, TypeOK, WellFormed
<1>1. \A s \in Subps : s \in Nat
  BY <1>0, Nesting
<1>2. /\ Subps' = Subps /\ Refs' = Refs /\ WellFormed(prog)'
      /\ \A s : IsNested(s)' = IsNested(s) /\ Own(s)' = Own(s)
      /\ \A v : Source(v)' = Source(v)
      /\ \A c : Upward(c)' = Upward(c)
      /\ \A free : Closed(free)' = Closed(free)
  BY <1>0, ModuleKept
<1>3. \A s \in Subps : (Settled(s)' <=> Settled(s) \/ s = n) /\ ~Settled(n)
  BY <1>0, <1>1 DEF Settled
<1>4. \A c \in prog.calls :
        /\ prog.callee[c] \in Subps /\ prog.caller[c] \in Subps
        /\ Rewritten(c)' <=> Rewritten(c) \/ prog.callee[c] = n
        /\ prog.callee[c] = n => ~Rewritten(c)
  <2> SUFFICES ASSUME NEW c \in prog.calls
               PROVE  /\ prog.callee[c] \in Subps /\ prog.caller[c] \in Subps
                      /\ Rewritten(c)' <=> Rewritten(c) \/ prog.callee[c] = n
                      /\ prog.callee[c] = n => ~Rewritten(c)
    OBVIOUS
  <2>1. prog.callee[c] \in Subps /\ prog.caller[c] \in Subps
    BY <1>0, Nesting
  <2>2. prog.callee[c] \in Nat
    BY <1>1, <2>1
  <2>3. QED
    BY <1>0, <2>1, <2>2 DEF Rewritten
<1>5. captures[n] = <<>>
  BY <1>3 DEF IInv, CapturesInv
<1>6. \A s \in Subps : \A v :
        /\ s # n => InBody(s, v)' = InBody(s, v)
        /\ InBody(n, v) = Source(v) /\ InBody(n, v)' = Ref(n, v)
        /\ prog.owner[v] = n => InBody(n, v)' = InBody(n, v)
  <2>1. ASSUME NEW s \in Subps, NEW v
        PROVE  InBody(s, v)' = IF Settled(s)' THEN Ref(s, v) ELSE Source(v)
    BY <1>2 DEF InBody, Ref
  <2>2. ASSUME NEW v
        PROVE  InBody(n, v) = Source(v)
    BY <1>3 DEF InBody
  <2>3. ASSUME NEW v
        PROVE  InBody(n, v)' = Ref(n, v)
    BY <1>3, <2>1
  <2>4. ASSUME NEW v, prog.owner[v] = n
        PROVE  Source(v) = Ref(n, v)
    BY <2>4 DEF Source
  <2>5. QED
    BY <1>3, <2>1, <2>2, <2>3, <2>4 DEF InBody
<1>7. \A s : Captured(s)' = Captured(s)
  BY DEF Captured
<1>8. \A s : RefsIn({s})' = RefsIn({s})
  BY DEF RefsIn
<1>9. TypeOK'
  BY <1>0, <1>1, <1>2 DEF TypeOK, Subps
<1>10. HoistedInv'
  BY <1>0, <1>1, <1>2 DEF IInv, HoistedInv
<1>11. PhaseInv'
  BY DEF PhaseInv
<1>12. RefsInv'
  <2>1. ASSUME NEW s \in Subps
        PROVE  refs[s] = {InBody(s, v)' : v \in prog.uses[s]}
    <3>1. refs[s] = {InBody(s, v) : v \in prog.uses[s]}
      BY DEF IInv, RefsInv
    <3>2. CASE s # n
      BY <1>6, <3>1, <3>2
    <3>3. CASE s = n
      <4>1. \A r \in refs[n] : r \in RefsIn({n})
        BY <1>0, RefsOfBody DEF TypeOK
      <4>2. ASSUME NEW v \in prog.uses[n]
            PROVE  InBody(n, v)' = InBody(n, v)
        <5>1. InBody(n, v) \in RefsIn({n})
          BY <3>1, <3>3, <4>1
        <5>2. InBody(n, v).value = v
          BY DEF InBody, Ref, Source
        <5>3. QED
          BY <1>6, <5>1, <5>2
      <4>3. QED
        BY <3>1, <3>3, <4>2
    <3>4. QED
      BY <3>2, <3>3
  <2>2. QED
    BY <1>2, <2>1 DEF RefsInv
<1>13. CapturesInv'
  BY <1>2, <1>3 DEF IInv, CapturesInv
<1>14. ArgsInv'
  <2>1. ASSUME NEW c \in prog.calls
        PROVE  args[c] =
                 IF Rewritten(c)'
                   THEN [k \in 1..Len(captures[prog.callee[c]]) |->
                           InBody(prog.caller[c], captures[prog.callee[c]][k].value)']
                   ELSE <<>>
    <3> DEFINE t == prog.callee[c]
    <3>1. CASE ~Rewritten(c) /\ t # n
      BY <1>4, <3>1 DEF IInv, ArgsInv
    <3>2. CASE t = n
      <4>1. args[c] = <<>>
        BY <1>4, <3>2 DEF IInv, ArgsInv
      <4>2. 1..Len(captures[t]) = {}
        BY <1>5, <3>2
      <4>3. QED
        BY <1>4, <3>2, <4>1, <4>2
    <3>3. CASE Rewritten(c)
      <4>1. args[c] = [k \in 1..Len(captures[t]) |->
                         InBody(prog.caller[c], captures[t][k].value)]
        BY <3>3 DEF IInv, ArgsInv
      <4>2. ASSUME NEW k \in 1..Len(captures[t])
            PROVE  InBody(prog.caller[c], captures[t][k].value)'
                     = InBody(prog.caller[c], captures[t][k].value)
        <5>1. CASE prog.caller[c] # n
          BY <1>4, <1>6, <5>1
        <5>2. CASE prog.caller[c] = n
          <6>1. Len(args[c]) = Len(captures[t]) /\ k \in 1..Len(args[c])
            BY <1>0, <1>4, <4>1 DEF TypeOK
          <6>2. args[c][k] \in RefsIn({n})
            BY <1>0, <5>2, <6>1, ArgumentsNamed
          <6>3. args[c][k].value = captures[t][k].value
            BY <4>1, <6>1, InBodyValue
          <6>4. QED
            BY <1>6, <5>2, <6>2, <6>3
        <5>3. QED
          BY <5>1, <5>2
      <4>3. QED
        BY <1>4, <3>3, <4>1, <4>2
    <3>4. QED
      BY <3>1, <3>2, <3>3
  <2>2. QED
    BY <2>1 DEF ArgsInv
<1>15. SufficientInv'
  <2>1. ASSUME NEW r \in RefsIn({n})
        PROVE  r.value \in Own(n)
    <3>1. r.value \in prog.values
      BY <1>0, NamedByBody DEF IInv
    <3>2. QED
      BY <3>1 DEF Own
  <2>2. ASSUME NEW s \in Subps, Settled(s) \/ s = n, NEW r \in RefsIn({s})
        PROVE  r.value \in Own(s) \cup Captured(s)
    BY <2>1, <2>2 DEF IInv, SufficientInv
  <2>3. ASSUME NEW s \in Subps', Settled(s)', NEW r \in RefsIn({s})'
        PROVE  r.value \in Own(s)' \cup Captured(s)'
    <3>1. s \in Subps /\ r \in RefsIn({s}) /\ (Settled(s) \/ s = n)
      BY <1>2, <1>3, <1>8, <2>3
    <3>2. QED
      BY <1>2, <1>7, <2>2, <3>1
  <2>4. QED
    BY <2>3 DEF SufficientInv
<1>16. LeastInv'
  BY <1>2, <1>7 DEF IInv, LeastInv
<1>17. RefusalInv'
  BY <1>2, <1>4, <1>5 DEF IInv, RefusalInv
<1>18. QED
  BY <1>9, <1>10, <1>11, <1>12, <1>13, <1>14, <1>15, <1>16, <1>17 DEF IInv

(* The captures of a subprogram are the values it is to be given, once.    *)
LEMMA ListingCaptures ==
  ASSUME IInv, pc = "isolate", NEW n \in Subps, n = next,
         NEW q \in Listings(UsedFromAbove(n))
  PROVE  /\ q \in Seq(Refs)
         /\ UsedFromAbove(n) # {} => q # <<>>
         /\ \A j, k \in 1..Len(q) : q[j] = q[k] => j = k
         /\ \A k \in 1..Len(q) : q[k] \in UsedFromAbove(n)
         /\ {q[k].value : k \in 1..Len(q)} = {r.value : r \in UsedFromAbove(n)}
<1> DEFINE U == UsedFromAbove(n)
           T == 1..Cardinality(U)
           f == [r \in U |-> r.value]
<1>1. U \subseteq RefsIn({n}) /\ \A r \in U : r = Source(r.value) /\ r \in Refs
  BY UsedFromAboveIs DEF IInv
<1>2. f \in Injection(U, prog.values)
  <2>1. \A r \in U : r.value \in prog.values
    BY <1>1, NamedByBody DEF IInv
  <2>2. \A r, x \in U : r.value = x.value => r = x
    BY <1>1
  <2>3. QED
    BY <2>1, <2>2 DEF Injection, IsInjective
<1>3. IsFiniteSet(U)
  <2>1. IsFiniteSet(prog.values)
    BY DEF IInv, TypeOK, WellFormed
  <2>2. QED
    BY <1>2, <2>1, FS_Injection
<1>4. Cardinality(U) \in Nat /\ (U # {} => Cardinality(U) # 0)
  BY <1>3, FS_CardinalityType, FS_EmptySet
<1>5. q \in Injection(T, U)
  BY DEF Listings
<1>6. q \in [T -> U] /\ \A j, k \in T : q[j] = q[k] => j = k
  BY <1>5 DEF Injection, IsInjective
<1>7. q \in Seq(U) /\ Len(q) = Cardinality(U)
  BY <1>4, <1>6
<1>8. q \in Surjection(T, U)
  <2>1. Cardinality(T) = Cardinality(U)
    BY <1>4, FS_Interval
  <2>2. QED
    BY <1>3, <1>5, <2>1, FS_Injection
<1>9. \A r \in U : \E k \in T : q[k] = r
  BY <1>8 DEF Surjection
<1>10. q \in Seq(Refs)
  BY <1>1, <1>6, <1>4
<1>11. q # <<>> \/ U = {}
  BY <1>4, <1>7
<1>12. {q[k].value : k \in T} = {r.value : r \in U}
  BY <1>6, <1>9
<1>13. QED
  BY <1>6, <1>7, <1>10, <1>11, <1>12

(* Lifting turns every use from above into a parameter.                    *)
LEMMA IsolateInv ==
  ASSUME IInv, Isolate, NEW n \in Subps, n = next
  PROVE  IInv'
<1>0. /\ TypeOK /\ WellFormed(prog) /\ n \in Nat /\ prog.n \in Nat
      /\ IsNested(n) /\ pc = "isolate" /\ prog' = prog /\ next' = n
      /\ pc' = "calls" /\ hoisted' = hoisted /\ UsedFromAbove(n) # {}
  <2>1. TypeOK
    BY DEF IInv
  <2>2. WellFormed(prog)
    BY <2>1 DEF TypeOK
  <2>3. prog.n \in Nat
    BY <2>2 DEF WellFormed
  <2>4. n \in Nat
    BY <2>3 DEF Subps
  <2>5. /\ IsNested(n) /\ pc = "isolate" /\ prog' = prog /\ next' = n
        /\ pc' = "calls" /\ hoisted' = hoisted /\ UsedFromAbove(n) # {}
    BY DEF Isolate
  <2>6. QED
    BY <2>1, <2>2, <2>3, <2>4, <2>5
<1>1. /\ Subps' = Subps /\ Refs' = Refs /\ WellFormed(prog)'
      /\ \A s : IsNested(s)' = IsNested(s) /\ Own(s)' = Own(s)
      /\ \A v : Source(v)' = Source(v)
      /\ \A c : Upward(c)' = Upward(c)
      /\ \A free : Closed(free)' = Closed(free)
  BY <1>0, ModuleKept
<1>2. PICK q \in Listings(UsedFromAbove(n)) : captures' = [captures EXCEPT ![n] = q]
  BY DEF Isolate
<1>3. /\ q \in Seq(Refs) /\ q # <<>>
      /\ \A j, k \in 1..Len(q) : q[j] = q[k] => j = k
      /\ \A k \in 1..Len(q) : q[k] \in UsedFromAbove(n)
      /\ {q[k].value : k \in 1..Len(q)} = {r.value : r \in UsedFromAbove(n)}
  BY <1>0, <1>2, ListingCaptures
<1>4. captures' \in [Subps -> Seq(Refs)] /\ captures'[n] = q
      /\ \A s \in Subps : s # n => captures'[s] = captures[s]
  BY <1>0, <1>2, <1>3 DEF TypeOK
<1>5. /\ Region(n) = {n}
      /\ \A r \in RefsIn({n}) : r = Source(r.value) /\ r \in Refs
      /\ UsedFromAbove(n) = {r \in RefsIn({n}) : prog.owner[r.value] # n}
      /\ \A r \in RefsIn({n}) : Replaced(r) = Ref(n, r.value)
  BY <1>0, UsedFromAboveIs, RegionOfNext DEF IInv
<1>6. ASSUME NEW r \in RefsIn({n})
      PROVE  r.value \in prog.values /\ prog.owner[r.value] \in prog.enclosing[n]
  BY <1>0, NamedByBody DEF IInv
<1>7. \A s \in Subps : (Settled(s)' <=> Settled(s) \/ s = n) /\ ~Settled(n) /\ s \in Nat
  BY <1>0, Nesting DEF Settled
<1>8. ASSUME NEW c \in prog.calls
      PROVE  /\ prog.callee[c] \in Subps /\ prog.caller[c] \in Subps
             /\ Rewritten(c)' <=> Rewritten(c)
             /\ Rewritten(c) => prog.callee[c] # n
  <2>1. prog.callee[c] \in Subps /\ prog.caller[c] \in Subps
    BY <1>0, Nesting
  <2>2. prog.callee[c] = n => c \in todo'
    BY DEF Isolate
  <2>3. QED
    BY <1>0, <1>7, <2>1, <2>2 DEF Rewritten
<1>9. ASSUME NEW s \in Subps, NEW v
      PROVE  InBody(s, v)' = IF s = n THEN Ref(n, v) ELSE InBody(s, v)
  BY <1>1, <1>7 DEF InBody, Ref
<1>10. \A s \in Subps : Captured(s)' = IF s = n THEN {r.value : r \in UsedFromAbove(n)}
                                                ELSE Captured(s)
  <2>1. \A s : Captured(s)' = {captures'[s][k].value : k \in 1..Len(captures'[s])}
    BY DEF Captured
  <2>2. Captured(n)' = {q[k].value : k \in 1..Len(q)}
    BY <1>4, <2>1
  <2>3. ASSUME NEW s \in Subps, s # n
        PROVE  Captured(s)' = Captured(s)
    BY <1>4, <2>1, <2>3 DEF Captured
  <2>4. QED
    BY <1>3, <2>2, <2>3
<1>11. RefsInv'
  <2>1. ASSUME NEW s \in Subps, s # n
        PROVE  refs'[s] = {InBody(s, v)' : v \in prog.uses[s]}
    <3>1. refs'[s] = refs[s]
      BY <1>0, <1>5, <2>1 DEF Isolate
    <3>2. QED
      BY <1>9, <2>1, <3>1 DEF IInv, RefsInv
  <2>2. refs'[n] = {InBody(n, v)' : v \in prog.uses[n]}
    <3>1. refs'[n] = {Replaced(r) : r \in refs[n]}
      BY <1>0, <1>5 DEF Isolate
    <3>2. refs[n] = {InBody(n, v) : v \in prog.uses[n]}
      BY DEF IInv, RefsInv
    <3>3. \A r \in refs[n] : r \in RefsIn({n})
      BY <1>0, RefsOfBody
    <3>4. \A v \in prog.uses[n] : Replaced(InBody(n, v)) = InBody(n, v)'
      <4>1. SUFFICES ASSUME NEW v \in prog.uses[n]
                     PROVE  Replaced(InBody(n, v)) = InBody(n, v)'
        OBVIOUS
      <4>2. InBody(n, v) \in RefsIn({n})
        BY <3>2, <3>3
      <4>3. Replaced(InBody(n, v)) = Ref(n, v)
        BY <1>5, <4>2, InBodyValue
      <4>4. QED
        BY <1>9, <4>3
    <3>5. QED
      BY <3>1, <3>2, <3>4
  <2>3. QED
    BY <1>0, <1>1, <2>1, <2>2 DEF RefsInv
<1>12. ArgsInv'
  <2>1. ASSUME NEW c \in prog.calls
        PROVE  args'[c] =
                 IF Rewritten(c)'
                   THEN [k \in 1..Len(captures'[prog.callee[c]]) |->
                           InBody(prog.caller[c], captures[prog.callee[c]][k].value)']
                   ELSE <<>>
    <3> DEFINE t == prog.callee[c]
    <3>1. CASE prog.caller[c] # n
      <4>1. args'[c] = args[c]
        BY <1>5, <3>1 DEF Isolate
      <4>2. CASE Rewritten(c)
        <5>1. captures'[t] = captures[t] /\ Rewritten(c)'
          BY <1>4, <1>8, <4>2
        <5>2. args[c] = [k \in 1..Len(captures[t]) |->
                           InBody(prog.caller[c], captures[t][k].value)]
          BY <4>2 DEF IInv, ArgsInv
        <5>3. \A k : InBody(prog.caller[c], captures[t][k].value)' =
                       InBody(prog.caller[c], captures[t][k].value)
          BY <1>0, <1>8, <1>9, <3>1, <5>1
        <5>4. QED
          BY <4>1, <5>1, <5>2, <5>3
      <4>3. CASE ~Rewritten(c)
        BY <1>8, <4>1, <4>3 DEF IInv, ArgsInv
      <4>4. QED
        BY <4>2, <4>3
    <3>2. CASE prog.caller[c] = n
      <4>1. args'[c] = [k \in 1..Len(args[c]) |-> Replaced(args[c][k])]
        BY <1>5, <3>2 DEF Isolate
      <4>2. CASE Rewritten(c)
        <5>1. captures'[t] = captures[t] /\ Rewritten(c)'
          BY <1>4, <1>8, <4>2
        <5>2. args[c] = [k \in 1..Len(captures[t]) |->
                           InBody(n, captures[t][k].value)]
          BY <3>2, <4>2 DEF IInv, ArgsInv
        <5>3. Len(captures[t]) \in Nat /\ Len(args[c]) = Len(captures[t])
          BY <1>0, <1>8, <5>2 DEF TypeOK
        <5>4. ASSUME NEW k \in 1..Len(captures[t])
              PROVE  Replaced(args[c][k]) = InBody(n, captures[t][k].value)'
          <6>1. args[c][k] \in RefsIn({n})
            BY <1>0, <3>2, <5>3, ArgumentsNamed
          <6>2. args[c][k].value = captures[t][k].value
            BY <5>2, InBodyValue
          <6>3. InBody(n, captures[t][k].value)' = Ref(n, captures[t][k].value)
            BY <1>0, <1>9, <5>1
          <6>4. QED
            BY <1>5, <6>1, <6>2, <6>3
        <5>5. QED
          BY <1>0, <3>2, <4>1, <5>1, <5>3, <5>4
      <4>3. CASE ~Rewritten(c)
        <5>1. args[c] = <<>>
          BY <4>3 DEF IInv, ArgsInv
        <5>2. 1..Len(args[c]) = {}
          BY <5>1
        <5>3. QED
          BY <1>8, <4>1, <4>3, <5>1, <5>2
      <4>4. QED
        BY <4>2, <4>3
    <3>3. QED
      BY <3>1, <3>2
  <2>2. QED
    BY <1>0, <2>1 DEF ArgsInv
<1>13. CapturesInv'
  <2>1. ASSUME NEW s \in Subps, s # n
        PROVE  /\ captures'[s] # <<>> => IsNested(s) /\ Settled(s)'
               /\ \A k \in 1..Len(captures'[s]) :
                    /\ captures'[s][k] = Source(captures'[s][k].value)
                    /\ prog.owner[captures'[s][k].value] \in prog.enclosing[s] \ {s}
               /\ \A j, k \in 1..Len(captures'[s]) :
                    captures'[s][j] = captures'[s][k] => j = k
    BY <1>4, <1>7, <2>1 DEF IInv, CapturesInv
  <2>2. /\ Settled(n)'
        /\ \A k \in 1..Len(q) : /\ q[k] = Source(q[k].value)
                                /\ prog.owner[q[k].value] \in prog.enclosing[n] \ {n}
    BY <1>3, <1>5, <1>6, <1>7
  <2>3. \A v : Source(v) = Ref(prog'.owner[v], v)
    BY <1>0 DEF Source
  <2>4. QED
    BY <1>0, <1>1, <1>3, <1>4, <2>1, <2>2, <2>3 DEF CapturesInv, Source
<1>14. TypeOK'
  <2>1. \A s \in Subps : \A v \in prog.values : InBody(s, v) \in Refs
                         /\ Ref(n, v) \in Refs
    BY <1>0, Nesting DEF InBody, Source, Ref, Refs
  <2>2. refs' \in [Subps -> SUBSET Refs]
    <3>1. refs' = [t \in Subps |-> refs'[t]]
      BY DEF Isolate
    <3>2. \A s \in Subps : refs'[s] = {InBody(s, v)' : v \in prog.uses[s]}
      BY <1>0, <1>1, <1>11 DEF RefsInv
    <3>3. ASSUME NEW s \in Subps, NEW v \in prog.uses[s]
          PROVE  InBody(s, v)' \in Refs
      <4>1. v \in prog.values
        BY <1>0, Nesting
      <4>2. QED
        BY <1>9, <2>1, <4>1
    <3>4. QED
      BY <3>1, <3>2, <3>3
  <2>3. args' \in [prog.calls -> Seq(Refs)]
    <3>1. args' = [c \in prog.calls |-> args'[c]]
      BY DEF Isolate
    <3>2. ASSUME NEW c \in prog.calls
          PROVE  args'[c] \in Seq(Refs)
      <4>1. args[c] \in Seq(Refs) /\ Len(args[c]) \in Nat
        BY <1>0 DEF TypeOK
      <4>2. CASE prog.caller[c] # n
        BY <1>5, <4>1, <4>2 DEF Isolate
      <4>3. CASE prog.caller[c] = n
        <5>1. args'[c] = [k \in 1..Len(args[c]) |-> Replaced(args[c][k])]
          BY <1>5, <4>3 DEF Isolate
        <5>2. \A k \in 1..Len(args[c]) : args[c][k] \in RefsIn({n})
          BY <1>0, <4>3, ArgumentsNamed
        <5>3. \A k \in 1..Len(args[c]) : Replaced(args[c][k]) \in Refs
          BY <1>5, <1>6, <2>1, <5>2
        <5>4. QED
          BY <4>1, <5>1, <5>3
      <4>4. QED
        BY <4>2, <4>3
    <3>3. QED
      BY <3>1, <3>2
  <2>4. todo' \subseteq prog.calls
    BY DEF Isolate
  <2>5. QED
    BY <1>0, <1>1, <1>4, <2>2, <2>3, <2>4 DEF TypeOK
<1>15. HoistedInv'
  BY <1>0, <1>1 DEF IInv, HoistedInv
<1>16. PhaseInv'
  <2>1. \A c \in todo' : prog.callee[c] = n
    BY DEF Isolate
  <2>2. QED
    BY <1>0, <1>1, <1>3, <1>4, <2>1 DEF PhaseInv
<1>17. SufficientInv'
  <2>1. ASSUME NEW s \in Subps, s # n, Settled(s), NEW r \in RefsIn({s})'
        PROVE  r.value \in Own(s) \cup Captured(s)'
    <3>1. refs'[s] = refs[s]
          /\ \A c \in prog.calls : prog.caller[c] = s => args'[c] = args[c]
      BY <1>5, <2>1 DEF Isolate
    <3>2. Passes(s, r)' => Passes(s, r)
      BY <1>0, <3>1 DEF Passes
    <3>3. r \in refs'[s] \/ Passes(s, r)'
      BY <1>14, <2>1, RefsOfBodyNext
    <3>4. r \in RefsIn({s})
      BY <1>0, <3>1, <3>2, <3>3, RefsOfBody
    <3>5. QED
      BY <1>10, <2>1, <3>4 DEF IInv, SufficientInv
  <2>2. ASSUME NEW r \in RefsIn({n})'
        PROVE  r.value \in Own(n) \cup Captured(n)'
    <3>1. \E x \in RefsIn({n}) : r.value = x.value
      <4>1. CASE r \in refs'[n]
        <5>1. refs'[n] = {Replaced(x) : x \in refs[n]}
          BY <1>0, <1>5 DEF Isolate
        <5>2. PICK x \in refs[n] : r = Replaced(x)
          BY <4>1, <5>1
        <5>3. x \in RefsIn({n})
          BY <1>0, RefsOfBody
        <5>4. r = Ref(n, x.value)
          BY <1>5, <5>2, <5>3
        <5>5. QED
          BY <5>3, <5>4 DEF Ref
      <4>2. CASE Passes(n, r)'
        <5>1. PICK c \in prog.calls : \E k \in 1..Len(args'[c]) :
                   prog.caller[c] = n /\ r = args'[c][k]
          BY <1>0, <4>2 DEF Passes
        <5>2. args'[c] = [k \in 1..Len(args[c]) |-> Replaced(args[c][k])]
          BY <1>5, <5>1 DEF Isolate
        <5>3. Len(args[c]) \in Nat
          BY <1>0 DEF TypeOK
        <5>4. PICK k \in 1..Len(args[c]) : r = Replaced(args[c][k])
          BY <5>1, <5>2, <5>3
        <5>5. args[c][k] \in RefsIn({n})
          BY <1>0, <5>1, ArgumentsNamed
        <5>6. r = Ref(n, args[c][k].value)
          BY <1>5, <5>4, <5>5
        <5>7. QED
          BY <5>5, <5>6 DEF Ref
      <4>3. QED
        BY <1>0, <1>14, <4>1, <4>2, RefsOfBodyNext
    <3>2. PICK x \in RefsIn({n}) : r.value = x.value
      BY <3>1
    <3>3. x.value \in Own(n) \/ x \in UsedFromAbove(n)
      BY <1>5, <1>6 DEF Own
    <3>4. QED
      BY <1>10, <3>2, <3>3
  <2>3. ASSUME NEW s \in Subps', Settled(s)', NEW r \in RefsIn({s})'
        PROVE  r.value \in Own(s)' \cup Captured(s)'
    BY <1>1, <1>7, <2>1, <2>2, <2>3
  <2>4. QED
    BY <2>3 DEF SufficientInv
<1>18. LeastInv'
  <2>1. ASSUME NEW free \in [Subps -> SUBSET prog.values], Closed(free),
               NEW r \in UsedFromAbove(n)
        PROVE  r.value \in free[n]
    <3>1. r \in RefsIn({n}) /\ r.value \notin Own(n)
      BY <1>5 DEF Own
    <3>2. CASE r \in refs[n]
      <4>1. r.value \in prog.uses[n]
        BY <3>2, InBodyValue DEF IInv, RefsInv
      <4>2. QED
        BY <2>1, <3>1, <4>1 DEF Closed
    <3>3. CASE Passes(n, r)
      <4>1. PICK c \in prog.calls : \E k \in 1..Len(args[c]) :
                 prog.caller[c] = n /\ r = args[c][k]
        BY <3>3 DEF Passes
      <4> DEFINE t == prog.callee[c]
      <4>2. PICK k \in 1..Len(args[c]) : r = args[c][k]
        BY <4>1
      <4>3. Rewritten(c)
        <5>1. ~Rewritten(c) => args[c] = <<>>
          BY DEF IInv, ArgsInv
        <5>2. args[c] # <<>>
          BY <4>2
        <5>3. QED
          BY <5>1, <5>2
      <4>4. args[c] = [j \in 1..Len(captures[t]) |->
                         InBody(prog.caller[c], captures[t][j].value)]
        BY <4>3 DEF IInv, ArgsInv
      <4>5. Len(captures[t]) \in Nat
        BY <1>0, <1>8 DEF TypeOK
      <4>6. k \in 1..Len(captures[t]) /\ r.value = captures[t][k].value
        BY <4>2, <4>4, <4>5, InBodyValue
      <4>7. r.value \in Captured(t)
        BY <4>6 DEF Captured
      <4>8. r.value \in free[t]
        BY <1>8, <2>1, <4>7 DEF IInv, LeastInv
      <4>9. QED
        BY <2>1, <3>1, <4>1, <4>8 DEF Closed
    <3>4. QED
      BY <1>0, <3>1, <3>2, <3>3, RefsOfBody
  <2>2. QED
    BY <1>0, <1>1, <1>10, <2>1 DEF IInv, LeastInv
<1>19. RefusalInv'
  BY <1>0, <1>1, <1>4, <1>8 DEF IInv, RefusalInv
<1>20. QED
  BY <1>11, <1>12, <1>13, <1>14, <1>15, <1>16, <1>17, <1>18, <1>19 DEF IInv

(* The arguments a call is given are the captures, as the caller names     *)
(* them: a caller already at module level but not nested owns them.        *)
LEMMA PassedNames ==
  ASSUME IInv, pc = "calls", NEW n \in Subps, n = next,
         NEW c \in todo, ~Unreachable(c)
  PROVE  /\ Passed(c) = [k \in 1..Len(captures[n]) |->
                            InBody(prog.caller[c], captures[n][k].value)]
         /\ \A k \in 1..Len(captures[n]) :
              \/ prog.caller[c] = n
              \/ ~Settled(prog.caller[c])
              \/ prog.owner[captures[n][k].value] = prog.caller[c]
         /\ ~Upward(c)
<1> DEFINE s == prog.caller[c]
           value(k) == captures[n][k].value
<1>0. /\ TypeOK /\ WellFormed(prog) /\ HoistedInv /\ CapturesInv /\ PhaseInv
      /\ c \in prog.calls /\ prog.callee[c] = n
      /\ captures[n] \in Seq(Refs)
  BY DEF IInv, TypeOK, PhaseInv
<1>1. s \in Subps /\ n \in Nat /\ s \in Nat
      /\ prog.enclosing[n] \ {n} \subseteq prog.enclosing[s]
  BY <1>0, Nesting
<1>2. Region(n) = {n}
  BY <1>0, RegionOfNext
<1>3. s # n => s \notin hoisted
  BY <1>2 DEF Unreachable
<1>4. ~Upward(c)
  <2>1. Upward(c) => s < n /\ IsNested(s)
    BY <1>0 DEF Upward
  <2>2. QED
    BY <1>0, <1>1, <1>3, <2>1 DEF HoistedInv
<1>5. ASSUME NEW k \in 1..Len(captures[n]), s # n, Settled(s)
      PROVE  prog.owner[value(k)] = s
  <2>1. s < n
    BY <1>0, <1>1, <1>5 DEF Settled
  <2>2. ~IsNested(s)
    BY <1>0, <1>1, <1>3, <1>5, <2>1 DEF HoistedInv
  <2>3. prog.owner[value(k)] \in prog.enclosing[n] \ {n}
    BY <1>0 DEF CapturesInv
  <2>4. QED
    BY <1>1, <2>2, <2>3 DEF IsNested
<1>6. CASE s = n
  <2>1. Passed(c) = [k \in 1..Len(captures[n]) |-> Ref(n, value(k))]
    BY <1>2, <1>6 DEF Passed, LiftedArgs, Lifted
  <2>2. Settled(n)
    BY DEF Settled
  <2>3. \A k : InBody(s, value(k)) = Ref(n, value(k))
    BY <1>6, <2>2 DEF InBody
  <2>4. QED
    BY <1>4, <1>6, <2>1, <2>3
<1>7. CASE s # n
  <2>1. Passed(c) = captures[n]
    BY <1>2, <1>7 DEF Passed
  <2>2. captures[n] = [k \in 1..Len(captures[n]) |-> captures[n][k]]
    BY <1>0
  <2>3. ASSUME NEW k \in 1..Len(captures[n])
        PROVE  captures[n][k] = InBody(s, value(k))
    <3>1. captures[n][k] = Source(value(k))
      BY <1>0 DEF CapturesInv
    <3>2. Settled(s) => Source(value(k)) = Ref(s, value(k))
      BY <1>5, <1>7 DEF Source
    <3>3. QED
      BY <3>1, <3>2 DEF InBody
  <2>4. QED
    BY <1>4, <1>5, <1>7, <2>1, <2>2, <2>3
<1>8. QED
  BY <1>6, <1>7

LEMMA RewriteCallInv ==
  ASSUME IInv, RewriteCall, NEW n \in Subps, n = next
  PROVE  IInv'
<1>0. /\ TypeOK /\ WellFormed(prog) /\ n \in Nat /\ prog.n \in Nat /\ PhaseInv
      /\ pc = "calls" /\ pc' = "calls" /\ prog' = prog /\ next' = n
      /\ refs' = refs /\ captures' = captures /\ hoisted' = hoisted
  <2>1. TypeOK /\ WellFormed(prog) /\ n \in Nat /\ prog.n \in Nat /\ PhaseInv
    <3>1. TypeOK /\ PhaseInv
      BY DEF IInv
    <3>2. WellFormed(prog) /\ next \in 1..(prog.n + 1)
      BY <3>1 DEF TypeOK
    <3>3. prog.n \in Nat
      BY <3>2 DEF WellFormed
    <3>4. next \in Nat
      BY <3>2, <3>3
    <3>5. QED
      BY <3>1, <3>2, <3>3, <3>4
  <2>2. /\ pc = "calls" /\ pc' = "calls" /\ prog' = prog /\ next' = n
        /\ refs' = refs /\ captures' = captures /\ hoisted' = hoisted
    BY DEF RewriteCall
  <2>3. QED
    BY <2>1, <2>2
<1>1. /\ Subps' = Subps /\ Refs' = Refs /\ WellFormed(prog)'
      /\ \A s : IsNested(s)' = IsNested(s) /\ Own(s)' = Own(s)
      /\ \A v : Source(v)' = Source(v)
      /\ \A c : Upward(c)' = Upward(c)
      /\ \A free : Closed(free)' = Closed(free)
  BY <1>0, ModuleKept
<1>2. PICK c0 \in todo : /\ ~Unreachable(c0)
                         /\ args' = [args EXCEPT ![c0] = @ \o Passed(c0)]
                         /\ todo' = todo \ {c0}
  BY DEF RewriteCall
<1>3. c0 \in prog.calls /\ prog.callee[c0] = n
  BY <1>0, <1>2 DEF TypeOK, PhaseInv
<1>4. /\ Passed(c0) = [k \in 1..Len(captures[n]) |->
                         InBody(prog.caller[c0], captures[n][k].value)]
      /\ \A k \in 1..Len(captures[n]) :
           \/ prog.caller[c0] = n
           \/ ~Settled(prog.caller[c0])
           \/ prog.owner[captures[n][k].value] = prog.caller[c0]
      /\ ~Upward(c0)
  BY <1>0, <1>2, PassedNames
<1>5. \A s \in Subps : s \in Nat /\ Settled(s)' = Settled(s)
  BY <1>0, Nesting DEF Settled
<1>6. \A c \in prog.calls :
        /\ prog.callee[c] \in Subps /\ prog.caller[c] \in Subps
        /\ Rewritten(c)' <=> Rewritten(c) \/ c = c0
  <2>1. \A c \in prog.calls : prog.callee[c] \in Subps /\ prog.caller[c] \in Subps
    BY <1>0, Nesting
  <2>2. QED
    BY <1>0, <1>2, <1>3, <2>1 DEF Rewritten
<1>7. \A s \in Subps : \A v : InBody(s, v)' = InBody(s, v)
  BY <1>1, <1>5 DEF InBody, Ref
<1>8. \A s : Captured(s)' = Captured(s)
  BY <1>0 DEF Captured
<1>9. captures[n] \in Seq(Refs) /\ Len(captures[n]) \in Nat
  BY <1>0 DEF TypeOK
<1>10. Passed(c0) \in Seq(Refs)
  <2>1. \A k \in 1..Len(captures[n]) : captures[n][k].value \in prog.values
    <3>1. \A k \in 1..Len(captures[n]) : captures[n][k] \in Refs
      BY <1>9
    <3>2. QED
      BY <3>1 DEF Refs
  <2>2. \A k \in 1..Len(captures[n]) :
          InBody(prog.caller[c0], captures[n][k].value) \in Refs
    BY <1>0, <1>3, <1>6, <2>1, Nesting DEF InBody, Source, Ref, Refs
  <2>3. QED
    BY <1>4, <1>9, <2>2
<1>11. args'[c0] = Passed(c0) /\ \A c \in prog.calls : c # c0 => args'[c] = args[c]
  <2>1. args \in [prog.calls -> Seq(Refs)]
    BY <1>0 DEF TypeOK
  <2>2. args[c0] = <<>>
    <3>1. ~Rewritten(c0)
      BY <1>0, <1>2, <1>3 DEF Rewritten
    <3>2. QED
      BY <1>3, <3>1 DEF IInv, ArgsInv
  <2>3. args'[c0] = args[c0] \o Passed(c0)
    BY <1>2, <1>3, <2>1
  <2>4. QED
    BY <1>2, <1>10, <2>1, <2>2, <2>3
<1>12. TypeOK'
  <2>1. args' \in [prog.calls -> Seq(Refs)]
    BY <1>0, <1>2, <1>10, <1>11 DEF TypeOK
  <2>2. QED
    BY <1>0, <1>1, <1>2, <2>1 DEF TypeOK
<1>13. HoistedInv' /\ PhaseInv'
  BY <1>0, <1>1, <1>2 DEF IInv, HoistedInv, PhaseInv
<1>14. RefsInv'
  BY <1>0, <1>1, <1>7 DEF IInv, RefsInv
<1>15. CapturesInv'
  BY <1>0, <1>1, <1>5 DEF IInv, CapturesInv
<1>16. ArgsInv'
  <2>1. ASSUME NEW c \in prog.calls
        PROVE  args'[c] =
                 IF Rewritten(c)'
                   THEN [k \in 1..Len(captures'[prog'.callee[c]]) |->
                           InBody(prog.caller[c], captures[prog.callee[c]][k].value)']
                   ELSE <<>>
    <3>1. \A v : InBody(prog.caller[c], v)' = InBody(prog.caller[c], v)
      BY <1>0, <1>1, <1>5, <1>6 DEF InBody, Ref
    <3>2. CASE c = c0
      <4>1. Rewritten(c)' /\ prog' = prog /\ captures' = captures /\ prog.callee[c] = n
        BY <1>0, <1>3, <1>6, <3>2
      <4>2. [k \in 1..Len(captures[n]) |-> InBody(prog.caller[c], captures[n][k].value)'] =
              [k \in 1..Len(captures[n]) |-> InBody(prog.caller[c], captures[n][k].value)]
        BY <1>0, <3>1
      <4>3. args'[c] = [k \in 1..Len(captures[n]) |->
                         InBody(prog.caller[c], captures[n][k].value)']
        BY <1>4, <1>11, <3>2, <4>2
      <4>4. QED
        BY <4>1, <4>3
    <3>3. CASE c # c0
      <4>0. args[c] = IF Rewritten(c)
                        THEN [k \in 1..Len(captures[prog.callee[c]]) |->
                                InBody(prog.caller[c], captures[prog.callee[c]][k].value)]
                        ELSE <<>>
        BY DEF IInv, ArgsInv
      <4>1. CASE Rewritten(c)
        BY <1>0, <1>6, <1>11, <3>1, <3>3, <4>0, <4>1
      <4>2. CASE ~Rewritten(c)
        BY <1>0, <1>6, <1>11, <3>1, <3>3, <4>0, <4>2
      <4>3. QED
        BY <4>1, <4>2
    <3>4. QED
      BY <3>2, <3>3
  <2>2. QED
    BY <1>0, <2>1 DEF ArgsInv
<1>17. SufficientInv'
  <2>1. ASSUME NEW s \in Subps, Settled(s), NEW r \in RefsIn({s})'
        PROVE  r.value \in Own(s) \cup Captured(s)
    <3>1. CASE r \in RefsIn({s})
      BY <2>1, <3>1 DEF IInv, SufficientInv
    <3>2. CASE r \notin RefsIn({s})
      <4>1. r \notin refs[s] /\ ~Passes(s, r)
        BY <1>0, <3>2, RefsOfBody
      <4>2. Passes(s, r)'
        BY <1>0, <1>12, <4>1, RefsOfBodyNext
      <4>3. PICK c \in prog.calls : \E k \in 1..Len(args'[c]) :
                   prog.caller[c] = s /\ r = args'[c][k]
        BY <1>0, <4>2 DEF Passes
      <4>4. c = c0
        BY <1>11, <4>1, <4>3 DEF Passes
      <4>5. PICK k \in 1..Len(captures[n]) :
              r = InBody(s, captures[n][k].value)
        BY <1>4, <1>9, <1>11, <4>3, <4>4
      <4>6. r.value = captures[n][k].value /\ r.value \in prog.values
        <5>1. captures[n][k] \in Refs
          BY <1>9
        <5>2. r.value = captures[n][k].value
          BY <4>5, InBodyValue
        <5>3. QED
          BY <5>1, <5>2 DEF Refs
      <4>7. CASE s = n
        BY <4>6, <4>7 DEF Captured
      <4>8. CASE s # n
        BY <1>4, <2>1, <4>3, <4>4, <4>6, <4>8 DEF Own
      <4>9. QED
        BY <4>7, <4>8
    <3>3. QED
      BY <3>1, <3>2
  <2>2. ASSUME NEW s \in Subps', Settled(s)', NEW r \in RefsIn({s})'
        PROVE  r.value \in Own(s)' \cup Captured(s)'
    BY <1>1, <1>5, <1>8, <2>1, <2>2
  <2>3. QED
    BY <2>2 DEF SufficientInv
<1>18. LeastInv'
  BY <1>0, <1>1, <1>8 DEF IInv, LeastInv
<1>19. RefusalInv'
  <2>1. ASSUME NEW c \in prog.calls, Upward(c), Rewritten(c)'
        PROVE  captures[prog.callee[c]] = <<>>
    BY <1>4, <1>6, <2>1 DEF IInv, RefusalInv
  <2>2. QED
    BY <1>0, <1>1, <2>1 DEF RefusalInv
<1>20. QED
  BY <1>12, <1>13, <1>14, <1>15, <1>16, <1>17, <1>18, <1>19 DEF IInv

(* When neither names nor turns change, nothing said of them does.         *)
LEMMA SameNaming ==
  ASSUME IInv, TypeOK', HoistedInv', PhaseInv',
         UNCHANGED <<prog, refs, args, captures>>,
         \A s \in Subps : Settled(s)' = Settled(s),
         \A c \in prog.calls : Rewritten(c)' = Rewritten(c),
         pc' = "failed" =>
           \E c \in prog.calls : prog.callee[c] = next' /\ Upward(c)
  PROVE  IInv'
<1>0. /\ TypeOK /\ WellFormed(prog)
  BY DEF IInv, TypeOK
<1>1. /\ Subps' = Subps
      /\ \A s : IsNested(s)' = IsNested(s) /\ Own(s)' = Own(s)
      /\ \A v : Source(v)' = Source(v)
      /\ \A c : Upward(c)' = Upward(c)
      /\ \A free : Closed(free)' = Closed(free)
  BY ModuleKept
<1>2. \A c \in prog.calls : prog.callee[c] \in Subps /\ prog.caller[c] \in Subps
  BY <1>0, Nesting
<1>3. \A s \in Subps : \A v : InBody(s, v)' = InBody(s, v)
  BY <1>1 DEF InBody, Ref
<1>4. \A s : Captured(s)' = Captured(s) /\ RefsIn({s})' = RefsIn({s})
  BY DEF Captured, RefsIn
<1>5. RefsInv'
  BY <1>1, <1>3 DEF IInv, RefsInv
<1>6. CapturesInv'
  BY <1>1 DEF IInv, CapturesInv
<1>7. ArgsInv'
  <2>1. ASSUME NEW c \in prog.calls
        PROVE  args[c] =
                 IF Rewritten(c)
                   THEN [k \in 1..Len(captures[prog.callee[c]]) |->
                           InBody(prog.caller[c], captures[prog.callee[c]][k].value)']
                   ELSE <<>>
    BY <1>2, <1>3 DEF IInv, ArgsInv
  <2>2. QED
    BY <2>1 DEF ArgsInv
<1>8. SufficientInv'
  BY <1>1, <1>4 DEF IInv, SufficientInv
<1>9. LeastInv'
  BY <1>1, <1>4 DEF IInv, LeastInv
<1>10. RefusalInv'
  BY <1>1 DEF IInv, RefusalInv
<1>11. QED
  BY <1>5, <1>6, <1>7, <1>8, <1>9, <1>10 DEF IInv

(* What the invariant says of the step's state, in one place.              *)
LEMMA Standing ==
  ASSUME IInv
  PROVE  /\ TypeOK /\ HoistedInv /\ PhaseInv /\ RefsInv /\ CapturesInv /\ ArgsInv
         /\ WellFormed(prog) /\ prog.n \in Nat /\ next \in Nat
         /\ \A s \in Subps : s \in Nat /\ 1 <= s /\ s <= prog.n
         /\ \A c \in prog.calls :
              prog.callee[c] \in Subps /\ prog.caller[c] \in Subps
<1>1. TypeOK /\ HoistedInv /\ PhaseInv /\ RefsInv /\ CapturesInv /\ ArgsInv
  BY DEF IInv
<1>2. WellFormed(prog) /\ next \in 1..(prog.n + 1)
  BY <1>1 DEF TypeOK
<1>3. prog.n \in Nat
  BY <1>2 DEF WellFormed
<1>4. \A c \in prog.calls : prog.callee[c] \in Subps /\ prog.caller[c] \in Subps
  BY <1>2, Nesting
<1>5. \A s \in Subps : s \in Nat /\ 1 <= s /\ s <= prog.n
  BY <1>3 DEF Subps
<1>6. QED
  BY <1>1, <1>2, <1>3, <1>4, <1>5

LEMMA SkipInv ==
  ASSUME IInv, Skip, NEW n \in Subps, n = next
  PROVE  IInv'
<1>1. TypeOK /\ RefsInv /\ CapturesInv /\ ArgsInv /\ WellFormed(prog)
  BY Standing
<1>2. prog.enclosing[n] = {n} /\ ~IsNested(n)
  BY DEF Skip, IsNested
<1>3. \A r \in RefsIn({n}) : prog.owner[r.value] = n
  BY <1>1, <1>2, NamedByBody
<1>4. /\ pc = "isolate" /\ next' = n + 1
      /\ UNCHANGED <<prog, pc, refs, args, captures, todo, hoisted>>
  BY DEF Skip
<1>5. QED
  BY <1>2, <1>3, <1>4, Advance

LEMMA MoveOutInv ==
  ASSUME IInv, MoveOut, NEW n \in Subps, n = next
  PROVE  IInv'
<1>1. TypeOK /\ HoistedInv /\ RefsInv /\ CapturesInv /\ ArgsInv
  BY Standing
<1>2. /\ pc = "isolate" /\ next' = n + 1 /\ IsNested(n) /\ UsedFromAbove(n) = {}
      /\ hoisted' = hoisted \cup {n}
      /\ UNCHANGED <<prog, pc, refs, args, captures, todo>>
  BY DEF MoveOut
<1>3. \A r \in RefsIn({n}) : prog.owner[r.value] = n
  BY <1>1, <1>2, UsedFromAboveIs
<1>4. QED
  BY <1>2, <1>3, Advance

LEMMA RefuseCallInv == IInv /\ RefuseCall => IInv'
<1> SUFFICES ASSUME IInv, RefuseCall PROVE IInv'
  OBVIOUS
<1>1. /\ pc = "calls" /\ pc' = "failed"
      /\ UNCHANGED <<prog, next, refs, args, captures, todo, hoisted>>
  BY DEF RefuseCall
<1>2. PICK c \in todo : Unreachable(c)
  BY DEF RefuseCall
<1>3. /\ TypeOK /\ HoistedInv /\ PhaseInv /\ c \in prog.calls
      /\ prog.callee[c] = next /\ next \in Subps
  BY <1>1, <1>2, Standing DEF TypeOK, PhaseInv
<1>4. Upward(c)
  <2>1. prog.caller[c] \in hoisted
    BY <1>2 DEF Unreachable
  <2>2. QED
    BY <1>3, <2>1 DEF HoistedInv, Upward
<1>5. TypeOK'
  BY <1>1, <1>3 DEF TypeOK, Subps, Refs
<1>6. HoistedInv'
  BY <1>1, <1>3 DEF HoistedInv, Subps, IsNested
<1>7. PhaseInv'
  BY <1>1, <1>3 DEF PhaseInv, Subps, IsNested
<1>8. \A s \in Subps : Settled(s)' = Settled(s)
  BY <1>1 DEF Settled
<1>9. \A d \in prog.calls : Rewritten(d)' = Rewritten(d)
  BY <1>1 DEF Rewritten
<1>10. QED
  BY <1>1, <1>3, <1>4, <1>5, <1>6, <1>7, <1>8, <1>9, SameNaming

LEMMA HoistInv == IInv /\ Hoist => IInv'
<1> SUFFICES ASSUME IInv, Hoist PROVE IInv'
  OBVIOUS
<1>1. /\ pc = "calls" /\ pc' = "isolate" /\ todo = {}
      /\ hoisted' = hoisted \cup {next} /\ next' = next + 1
      /\ UNCHANGED <<prog, refs, args, captures, todo>>
  BY DEF Hoist
<1>2. /\ TypeOK /\ HoistedInv /\ PhaseInv /\ prog.n \in Nat /\ next \in Nat
      /\ \A s \in Subps : s \in Nat /\ 1 <= s /\ s <= prog.n
      /\ \A c \in prog.calls : prog.callee[c] \in Subps
  BY Standing
<1>3. next \in Subps /\ IsNested(next)
  BY <1>1, <1>2 DEF PhaseInv
<1>4. Subps' = Subps /\ Refs' = Refs /\ \A s : IsNested(s)' = IsNested(s)
  BY <1>1, ModuleKept
<1>5. TypeOK'
  <2>1. next' \in 1..(prog.n + 1)
    BY <1>1, <1>2, <1>3
  <2>2. QED
    BY <1>1, <1>2, <1>3, <1>4, <2>1 DEF TypeOK
<1>6. HoistedInv'
  <2>1. \A s \in Subps : s < next + 1 <=> s < next \/ s = next
    BY <1>2
  <2>2. hoisted = {s \in Subps : s < next /\ IsNested(s)}
    BY <1>2 DEF HoistedInv
  <2>3. hoisted' = {s \in Subps : s < next + 1 /\ IsNested(s)}
    BY <1>1, <1>3, <2>1, <2>2
  <2>4. QED
    BY <1>1, <1>4, <2>3 DEF HoistedInv
<1>7. PhaseInv'
  BY <1>1 DEF PhaseInv
<1>8. \A s \in Subps : Settled(s)' = Settled(s)
  BY <1>1, <1>2 DEF Settled
<1>9. \A d \in prog.calls : Rewritten(d)' = Rewritten(d)
  BY <1>1, <1>2 DEF Rewritten
<1>10. QED
  BY <1>1, <1>5, <1>6, <1>7, <1>8, <1>9, SameNaming

LEMMA FinishInv == IInv /\ Finish => IInv'
<1> SUFFICES ASSUME IInv, Finish PROVE IInv'
  OBVIOUS
<1>1. /\ pc = "isolate" /\ pc' = "done" /\ next = prog.n + 1
      /\ UNCHANGED <<prog, next, refs, args, captures, todo, hoisted>>
  BY DEF Finish
<1>2. TypeOK /\ HoistedInv
  BY Standing
<1>3. TypeOK'
  BY <1>1, <1>2 DEF TypeOK, Subps, Refs
<1>4. HoistedInv'
  BY <1>1, <1>2 DEF HoistedInv, Subps, IsNested
<1>5. PhaseInv'
  BY <1>1 DEF PhaseInv
<1>6. \A s \in Subps : Settled(s)' = Settled(s)
  BY <1>1 DEF Settled
<1>7. \A d \in prog.calls : Rewritten(d)' = Rewritten(d)
  BY <1>1 DEF Rewritten
<1>8. QED
  BY <1>1, <1>3, <1>4, <1>5, <1>6, <1>7, SameNaming

LEMMA NextInv == IInv /\ [Next]_vars => IInv'
<1> SUFFICES ASSUME IInv, [Next]_vars PROVE IInv'
  OBVIOUS
<1>0. TypeOK /\ PhaseInv
  BY Standing
<1>1. CASE Skip
  BY <1>1, SkipInv DEF Skip
<1>2. CASE MoveOut
  BY <1>2, MoveOutInv DEF MoveOut
<1>3. CASE Isolate
  BY <1>3, IsolateInv DEF Isolate
<1>4. CASE RewriteCall
  <2>1. next \in Subps
    BY <1>0, <1>4 DEF RewriteCall, PhaseInv
  <2>2. QED
    BY <1>4, <2>1, RewriteCallInv
<1>5. CASE RefuseCall
  BY <1>5, RefuseCallInv
<1>6. CASE Hoist
  BY <1>6, HoistInv
<1>7. CASE Finish
  BY <1>7, FinishInv
<1>8. CASE UNCHANGED vars
  <2>1. UNCHANGED <<prog, next, pc, refs, args, captures, todo, hoisted>>
    BY <1>8 DEF vars
  <2>2. TypeOK'
    BY <1>0, <2>1 DEF TypeOK, Subps, Refs
  <2>3. HoistedInv'
    BY <2>1, Standing DEF HoistedInv, Subps, IsNested
  <2>4. PhaseInv'
    BY <1>0, <2>1 DEF PhaseInv, Subps, IsNested
  <2>5. \A s \in Subps : Settled(s)' = Settled(s)
    BY <2>1 DEF Settled
  <2>6. \A d \in prog.calls : Rewritten(d)' = Rewritten(d)
    BY <2>1 DEF Rewritten
  <2>7. pc' = "failed" =>
          \E c \in prog.calls : prog.callee[c] = next' /\ Upward(c)
    BY <2>1 DEF IInv, RefusalInv
  <2>8. QED
    BY <2>1, <2>2, <2>3, <2>4, <2>5, <2>6, <2>7, SameNaming
<1>9. QED
  BY <1>1, <1>2, <1>3, <1>4, <1>5, <1>6, <1>7, <1>8 DEF Next

(* The inductive invariant holds throughout the pass.                      *)
THEOREM IInvariant == Spec => []IInv
<1>1. QED
  BY InitInv, NextInv, PTL DEF Spec

-----------------------------------------------------------------------------
(* What the pass guarantees *)

(* Whatever the module, the walk visits every subprogram once and only     *)
(* ever produces references to values of the module.                       *)
THEOREM TypeCorrect == Spec => []TypeOK
<1>1. IInv => TypeOK
  BY DEF IInv
<1>2. QED
  BY <1>1, IInvariant, PTL

(* Whatever the module, a subprogram the pass has moved to module level    *)
(* names nothing from outside its body, then or ever after: neither its    *)
(* own code nor the captures its calls were later made to pass.            *)
THEOREM Isolated == Spec => []HoistedIsolated
<1>1. ASSUME IInv PROVE HoistedIsolated
  <2> SUFFICES ASSUME NEW s \in hoisted, NEW r \in RefsIn({s})
               PROVE  r.at = s
    BY DEF HoistedIsolated
  <2>1. s \in Subps /\ Settled(s)
    BY <1>1, Standing DEF HoistedInv, Settled
  <2>2. r = InBody(s, r.value)
    BY <1>1, <2>1, Standing, NamedByBody
  <2>3. QED
    BY <2>1, <2>2 DEF InBody, Ref
<1>2. QED
  BY <1>1, IInvariant, PTL

(* At the end every turn has come.                                         *)
LEMMA AllSettled ==
  ASSUME IInv, pc = "done"
  PROVE  /\ \A s \in Subps : Settled(s)
         /\ \A c \in prog.calls : Rewritten(c)
<1>1. next = prog.n + 1
  BY Standing DEF PhaseInv
<1>2. /\ prog.n \in Nat
      /\ \A s \in Subps : s \in Nat /\ 1 <= s /\ s <= prog.n
      /\ \A c \in prog.calls : prog.callee[c] \in Subps
  BY Standing
<1>3. QED
  BY <1>1, <1>2 DEF Settled, Rewritten

(* Whatever the module, when the pass ends every call passes one argument  *)
(* per lifted parameter of its callee, in the parameters' order: the       *)
(* caller's own name for the value the parameter stands for.               *)
THEOREM CallsCorrect == Spec => []CallsMatch
<1>1. ASSUME IInv PROVE CallsMatch
  <2> SUFFICES ASSUME pc = "done", NEW c \in prog.calls
               PROVE  args[c] = [k \in 1..Len(captures[prog.callee[c]]) |->
                                   Lifted(prog.caller[c],
                                          captures[prog.callee[c]][k])]
    BY DEF CallsMatch
  <2>1. Rewritten(c) /\ Settled(prog.caller[c])
    BY <1>1, Standing, AllSettled
  <2>2. \A v : InBody(prog.caller[c], v) = Ref(prog.caller[c], v)
    BY <2>1 DEF InBody
  <2>3. args[c] = [k \in 1..Len(captures[prog.callee[c]]) |->
                     InBody(prog.caller[c], captures[prog.callee[c]][k].value)]
    BY <1>1, <2>1 DEF IInv, ArgsInv
  <2>4. QED
    BY <2>2, <2>3 DEF Lifted
<1>2. QED
  BY <1>1, IInvariant, PTL

(* The least sets of free values are closed, and below every closed one.   *)
LEMMA FreeValuesLeast ==
  ASSUME WellFormed(prog)
  PROVE  /\ FreeValues \in [Subps -> SUBSET prog.values]
         /\ \A free \in [Subps -> SUBSET prog.values] :
              Closed(free) => \A s \in Subps : FreeValues[s] \subseteq free[s]
BY DEF FreeValues

(* When the pass ends the captures hold what the bodies need, so they are  *)
(* the least sets that do.                                                 *)
LEMMA CapturedIsFree ==
  ASSUME IInv, pc = "done"
  PROVE  \A s \in Subps : Captured(s) = FreeValues[s]
<1> DEFINE cap == [s \in Subps |-> Captured(s)]
<1>0. /\ TypeOK /\ RefsInv /\ ArgsInv /\ WellFormed(prog)
      /\ \A c \in prog.calls : prog.callee[c] \in Subps /\ prog.caller[c] \in Subps
  BY Standing
<1>1. cap \in [Subps -> SUBSET prog.values]
  <2>1. ASSUME NEW s \in Subps, NEW k \in 1..Len(captures[s])
        PROVE  captures[s][k].value \in prog.values
    <3>1. captures[s] \in Seq(Refs)
      BY <1>0 DEF TypeOK
    <3>2. captures[s][k] \in Refs
      BY <3>1
    <3>3. QED
      BY <3>2 DEF Refs
  <2>2. QED
    BY <2>1 DEF Captured
<1>2. Closed(cap)
  <2>1. ASSUME NEW s \in Subps, NEW v \in prog.uses[s], v \notin Own(s)
        PROVE  v \in cap[s]
    <3>1. InBody(s, v) \in refs[s]
      BY <1>0 DEF RefsInv
    <3>2. InBody(s, v) \in RefsIn({s})
      BY <1>0, <3>1, RefsOfBody
    <3>3. v \in Own(s) \cup Captured(s)
      BY <3>2, AllSettled, InBodyValue DEF IInv, SufficientInv
    <3>4. QED
      BY <2>1, <3>3
  <2>2. ASSUME NEW c \in prog.calls, NEW v \in cap[prog.callee[c]],
               v \notin Own(prog.caller[c])
        PROVE  v \in cap[prog.caller[c]]
    <3> DEFINE s == prog.caller[c]
               t == prog.callee[c]
    <3>1. PICK k \in 1..Len(captures[t]) : v = captures[t][k].value
      BY <1>0, <2>2 DEF Captured
    <3>2. args[c] = [j \in 1..Len(captures[t]) |-> InBody(s, captures[t][j].value)]
      BY <1>0, AllSettled DEF ArgsInv
    <3>3. captures[t] \in Seq(Refs)
      BY <1>0 DEF TypeOK
    <3>4. Len(args[c]) = Len(captures[t]) /\ args[c][k] = InBody(s, v)
      BY <3>1, <3>2, <3>3
    <3>5. args[c][k] \in RefsIn({s})
      BY <1>0, <3>1, <3>4, ArgumentsNamed
    <3>6. v \in Own(s) \cup Captured(s)
      BY <1>0, <3>4, <3>5, AllSettled, InBodyValue DEF IInv, SufficientInv
    <3>7. QED
      BY <1>0, <2>2, <3>6
  <2>3. QED
    BY <2>1, <2>2 DEF Closed
<1>3. \A s \in Subps : Captured(s) \subseteq FreeValues[s]
  <2>1. ASSUME NEW s \in Subps, NEW v \in Captured(s)
        PROVE  v \in FreeValues[s]
    <3>1. \A free \in [Subps -> SUBSET prog.values] : Closed(free) => v \in free[s]
      BY <2>1 DEF IInv, LeastInv
    <3>2. v \in prog.values
      BY <1>1, <2>1
    <3>3. QED
      BY <3>1, <3>2 DEF FreeValues
  <2>2. QED
    BY <2>1
<1>4. \A s \in Subps : FreeValues[s] \subseteq Captured(s)
  BY <1>0, <1>1, <1>2, FreeValuesLeast
<1>5. QED
  BY <1>3, <1>4

(* Whatever the module, a conversion that succeeds lifts exactly the       *)
(* values each body needs, directly or through calls, each once.           *)
THEOREM ParametersCorrect == Spec => []ParametersLeast
<1>1. ASSUME IInv, pc = "done", NEW s \in Subps
      PROVE  /\ {captures[s][k].value : k \in 1..Len(captures[s])} = FreeValues[s]
             /\ Len(captures[s]) = Cardinality(FreeValues[s])
  <2> DEFINE q == captures[s]
             f == [k \in 1..Len(q) |-> q[k].value]
  <2>0. TypeOK /\ CapturesInv
    BY <1>1, Standing
  <2>1. q \in Seq(Refs) /\ Len(q) \in Nat
    BY <2>0 DEF TypeOK
  <2>2. Captured(s) = FreeValues[s]
    BY <1>1, CapturedIsFree
  <2>3. f \in Bijection(1..Len(q), Captured(s))
    <3>1. \A j, k \in 1..Len(q) : q[j].value = q[k].value => j = k
      <4>1. \A k \in 1..Len(q) : q[k] = Source(q[k].value)
        BY <2>0 DEF CapturesInv
      <4>2. \A j, k \in 1..Len(q) : q[j] = q[k] => j = k
        BY <2>0 DEF CapturesInv
      <4>3. QED
        BY <4>1, <4>2
    <3>2. f \in [1..Len(q) -> Captured(s)]
      BY DEF Captured
    <3>3. \A v \in Captured(s) : \E k \in 1..Len(q) : f[k] = v
      BY DEF Captured
    <3>4. QED
      BY <3>1, <3>2, <3>3 DEF Bijection, Injection, Surjection, IsInjective
  <2>4. ExistsBijection(1..Len(q), Captured(s))
    BY <2>3 DEF ExistsBijection
  <2>5. Cardinality(Captured(s)) = Len(q)
    BY <2>1, <2>4, FS_CountingElements
  <2>6. QED
    BY <2>2, <2>5 DEF Captured
<1>2. IInv => ParametersLeast
  BY <1>1 DEF ParametersLeast
<1>3. QED
  BY <1>2, IInvariant, PTL

(* Whatever the module, the pass refuses it exactly when some nested       *)
(* subprogram calls one that is lifted later and needs captures.           *)
THEOREM RefusalCorrect == Spec => []RefusalExact
<1>1. ASSUME IInv, pc = "failed"
      PROVE  \E c \in prog.calls : Upward(c) /\ FreeValues[prog.callee[c]] # {}
  <2>1. PICK c \in prog.calls : prog.callee[c] = next /\ Upward(c)
    BY <1>1 DEF IInv, RefusalInv
  <2>2. next \in Subps /\ captures[next] # <<>>
    BY <1>1, Standing DEF PhaseInv
  <2>3. captures[next] \in Seq(Refs)
    BY <1>1, <2>2, Standing DEF TypeOK
  <2>4. 1 \in 1..Len(captures[next])
    BY <2>2, <2>3
  <2> DEFINE v == captures[next][1].value
  <2>5. v \in Captured(next)
    BY <2>4 DEF Captured
  <2>6. captures[next][1] \in Refs
    BY <2>3, <2>4
  <2>7. v \in prog.values
    BY <2>6 DEF Refs
  <2>8. \A free \in [Subps -> SUBSET prog.values] : Closed(free) => v \in free[next]
    BY <1>1, <2>2, <2>5 DEF IInv, LeastInv
  <2>9. v \in FreeValues[next]
    BY <2>2, <2>7, <2>8 DEF FreeValues
  <2>10. QED
    BY <2>1, <2>9
<1>2. ASSUME IInv, pc = "done", NEW c \in prog.calls, Upward(c)
      PROVE  FreeValues[prog.callee[c]] = {}
  <2>1. Rewritten(c) /\ prog.callee[c] \in Subps
    BY <1>2, AllSettled, Standing
  <2>2. captures[prog.callee[c]] = <<>>
    BY <1>2, <2>1 DEF IInv, RefusalInv
  <2>3. Captured(prog.callee[c]) = {}
    BY <2>2 DEF Captured
  <2>4. QED
    BY <1>2, <2>1, <2>3, CapturedIsFree
<1>3. IInv => RefusalExact
  BY <1>1, <1>2 DEF RefusalExact, Upward
<1>4. QED
  BY <1>3, IInvariant, PTL

-----------------------------------------------------------------------------
(* Runs of converted modules *)

(* An activation knows itself by its place in the stack, and holds for     *)
(* each lifted parameter the activation its scope rules name for the value *)
(* captured.                                                               *)
Activations ==
  [subp : Subps, env : Seq(Nat), display : UNION {[E -> Nat] : E \in SUBSET Subps}]

Activation(a, d) ==
  /\ a.display \in [prog.enclosing[a.subp] -> Nat]
  /\ a.display[a.subp] = d
  /\ \A k \in 1..Len(captures[a.subp]) :
       a.env[k] = a.display[prog.owner[captures[a.subp][k].value]]

StackInv ==
  /\ stack \in Seq(Activations)
  /\ stack # <<>> => pc = "done"
  /\ \A d \in 1..Len(stack) : Activation(stack[d], d)

RunInv == IInv /\ StackInv

-----------------------------------------------------------------------------
(* What code names in an activation that is well set up is reached.        *)
LEMMA Reached ==
  ASSUME RunInv, pc = "done", NEW d \in 1..Len(stack),
         NEW v \in Own(stack[d].subp) \cup Captured(stack[d].subp),
         NEW r, r.value = v
  PROVE  Denotes(d, r) = stack[d].display[prog.owner[v]]
<1> DEFINE s == stack[d].subp
           lifted == captures[s]
<1>0. Activation(stack[d], d)
  BY DEF RunInv, StackInv
<1>1. CASE prog.owner[v] = s
  BY <1>0, <1>1 DEF Denotes, Activation
<1>2. CASE prog.owner[v] # s
  <2>1. v \in Captured(s)
    BY <1>2 DEF Own
  <2>2. \E k \in 1..Len(lifted) : lifted[k].value = v
    BY <2>1 DEF Captured
  <2> DEFINE j == CHOOSE k \in 1..Len(lifted) : lifted[k].value = v
  <2>3. j \in 1..Len(lifted) /\ lifted[j].value = v
    BY <2>2
  <2>4. stack[d].env[j] = stack[d].display[prog.owner[v]]
    BY <1>0, <2>3 DEF Activation
  <2>5. Denotes(d, r) = stack[d].env[j]
    BY <1>2 DEF Denotes
  <2>6. QED
    BY <2>4, <2>5
<1>3. QED
  BY <1>1, <1>2

LEMMA RunInitInv == RunInit => RunInv
<1> SUFFICES ASSUME RunInit PROVE RunInv
  OBVIOUS
<1>1. IInv /\ stack = <<>>
  BY InitInv DEF RunInit
<1>2. QED
  BY <1>1 DEF RunInv, StackInv

(* The conversion goes on only while nothing runs.                         *)
LEMMA ConvertInv == RunInv /\ Convert => RunInv'
<1> SUFFICES ASSUME RunInv, Convert PROVE RunInv'
  OBVIOUS
<1>1. IInv' /\ stack' = stack
  BY NextInv DEF RunInv, Convert
<1>2. pc # "done"
  <2>1. CASE Skip
    BY <2>1 DEF Skip
  <2>2. CASE MoveOut
    BY <2>2 DEF MoveOut
  <2>3. CASE Isolate
    BY <2>3 DEF Isolate
  <2>4. CASE RewriteCall
    BY <2>4 DEF RewriteCall
  <2>5. CASE RefuseCall
    BY <2>5 DEF RefuseCall
  <2>6. CASE Hoist
    BY <2>6 DEF Hoist
  <2>7. CASE Finish
    BY <2>7 DEF Finish
  <2>8. QED
    BY <2>1, <2>2, <2>3, <2>4, <2>5, <2>6, <2>7 DEF Convert, Next
<1>3. stack = <<>>
  BY <1>2 DEF RunInv, StackInv
<1>4. QED
  BY <1>1, <1>3 DEF RunInv, StackInv

(* Running changes nothing of the module.                                  *)
LEMMA ModuleStands ==
  ASSUME RunInv, UNCHANGED vars
  PROVE  /\ IInv' /\ pc' = pc /\ Activations' = Activations
         /\ \A a, d : Activation(a, d)' = Activation(a, d)
<1>1. IInv'
  BY NextInv DEF RunInv
<1>2. UNCHANGED <<prog, pc, captures>>
  BY DEF vars
<1>3. QED
  BY <1>1, <1>2 DEF Activations, Activation, Subps

(* A new activation is well set up, and so the stack with it.              *)
LEMMA Pushed ==
  ASSUME RunInv, UNCHANGED vars, pc = "done",
         NEW a \in Activations, stack' = Append(stack, a),
         Activation(a, Len(stack) + 1)
  PROVE  RunInv'
<1>1. /\ IInv' /\ pc' = pc /\ Activations' = Activations
      /\ \A b, d : Activation(b, d)' = Activation(b, d)
  BY ModuleStands
<1>2. stack \in Seq(Activations) /\ Len(stack) \in Nat
  BY DEF RunInv, StackInv
<1>3. /\ stack' \in Seq(Activations) /\ Len(stack') = Len(stack) + 1
      /\ \A d \in 1..Len(stack) : stack'[d] = stack[d]
      /\ stack'[Len(stack) + 1] = a
  BY <1>2
<1>4. \A d \in 1..Len(stack') : Activation(stack'[d], d)
  BY <1>2, <1>3 DEF RunInv, StackInv
<1>5. QED
  BY <1>1, <1>3, <1>4 DEF RunInv, StackInv

(* A library-level subprogram has nothing lifted.                          *)
LEMMA StartInv == RunInv /\ Start => RunInv'
<1> SUFFICES ASSUME RunInv, Start PROVE RunInv'
  OBVIOUS
<1>1. PICK s \in Subps :
        /\ ~IsNested(s)
        /\ stack' = <<[subp |-> s, env |-> <<>>, display |-> [t \in {s} |-> 1]]>>
  BY DEF Start
<1> DEFINE a == [subp |-> s, env |-> <<>>, display |-> [t \in {s} |-> 1]]
<1>2. pc = "done" /\ stack = <<>> /\ UNCHANGED vars
  BY DEF Start
<1>3. CapturesInv
  BY Standing DEF RunInv
<1>4. captures[s] = <<>>
  BY <1>1, <1>3 DEF CapturesInv
<1>5. prog.enclosing[s] = {s}
  BY <1>1 DEF IsNested
<1>6. Activation(a, 1)
  <2>1. a.display \in [prog.enclosing[s] -> Nat] /\ a.display[s] = 1
    BY <1>5
  <2>2. 1..Len(captures[s]) = {}
    BY <1>4
  <2>3. QED
    BY <2>1, <2>2 DEF Activation
<1>7. a \in Activations
  <2>1. a.display \in [{s} -> Nat] /\ {s} \in SUBSET Subps
    BY <1>5
  <2>2. a.display \in UNION {[E -> Nat] : E \in SUBSET Subps}
    BY <2>1
  <2>3. a.env \in Seq(Nat)
    OBVIOUS
  <2>4. QED
    BY <2>2, <2>3 DEF Activations
<1>8. stack' = Append(stack, a) /\ Len(stack) + 1 = 1
  BY <1>1, <1>2
<1>9. QED
  BY <1>2, <1>6, <1>7, <1>8, Pushed

(* A call: the callee's scope is that of the caller but for itself, and    *)
(* what the caller passes is what the caller's own names reach.            *)
LEMMA ExecuteInv == RunInv /\ Execute => RunInv'
<1> SUFFICES ASSUME RunInv, Execute PROVE RunInv'
  OBVIOUS
<1> DEFINE d == Len(stack)
           s == stack[d].subp
           env(c) == [k \in 1..Len(args[c]) |-> Denotes(d, args[c][k])]
           display(t) == [u \in prog.enclosing[t] |->
                            IF u = t THEN d + 1 ELSE stack[d].display[u]]
           new(c) == [subp |-> prog.callee[c], env |-> env(c),
                      display |-> display(prog.callee[c])]
<1>1. PICK c \in prog.calls : prog.caller[c] = s /\ stack' = Append(stack, new(c))
  BY Zenon DEF Execute
<1> DEFINE t == prog.callee[c]
           captured(k) == captures[t][k].value
<1>2. pc = "done" /\ d \in Nat /\ d \in 1..Len(stack) /\ UNCHANGED vars
  BY DEF Execute
<1>3. /\ IInv /\ TypeOK /\ CapturesInv /\ ArgsInv /\ WellFormed(prog)
      /\ s \in Subps /\ t \in Subps /\ Rewritten(c)
  BY <1>1, <1>2, Standing, AllSettled DEF RunInv
<1>4. Activation(stack[d], d)
  BY <1>2 DEF RunInv, StackInv
<1>5. /\ prog.enclosing[t] \subseteq Subps
      /\ prog.enclosing[t] \ {t} \subseteq prog.enclosing[s]
  BY <1>1, <1>3, Nesting
<1>6. display(t) \in [prog.enclosing[t] -> Nat] /\ display(t)[t] = d + 1
  <2>1. stack[d].display \in [prog.enclosing[s] -> Nat]
    BY <1>4 DEF Activation
  <2>2. d + 1 \in Nat
    BY <1>2
  <2>3. t \in prog.enclosing[t]
    BY <1>3, Nesting
  <2>4. QED
    BY <1>5, <2>1, <2>2, <2>3
<1>7. /\ Len(captures[t]) \in Nat
      /\ args[c] = [k \in 1..Len(captures[t]) |-> InBody(s, captured(k))]
  <2>1. captures[t] \in Seq(Refs)
    BY <1>3 DEF TypeOK
  <2>2. QED
    BY <1>1, <1>3, <2>1 DEF ArgsInv
<1>8. Len(args[c]) = Len(captures[t])
  BY <1>7
<1>9. ASSUME NEW k \in 1..Len(captures[t])
      PROVE  env(c)[k] \in Nat /\ env(c)[k] = display(t)[prog.owner[captured(k)]]
  <2>1. env(c)[k] = Denotes(d, args[c][k]) /\ args[c][k].value = captured(k)
    <3>1. env(c)[k] = Denotes(d, args[c][k])
      BY <1>8
    <3>2. args[c][k] = InBody(s, captured(k))
      BY <1>7
    <3>3. InBody(s, captured(k)).value = captured(k)
      BY InBodyValue
    <3>4. QED
      BY <3>1, <3>2, <3>3
  <2>2. args[c][k] \in RefsIn({s})
    BY <1>1, <1>3, <1>8, ArgumentsNamed
  <2>3. captured(k) \in Own(s) \cup Captured(s)
    BY <1>2, <1>3, <2>1, <2>2, AllSettled DEF IInv, SufficientInv
  <2>4. Denotes(d, args[c][k]) = stack[d].display[prog.owner[captured(k)]]
    BY <1>2, <2>1, <2>3, Reached
  <2>5. prog.owner[captured(k)] \in prog.enclosing[t] \ {t}
    BY <1>3 DEF CapturesInv
  <2>6. display(t)[prog.owner[captured(k)]] = stack[d].display[prog.owner[captured(k)]]
    BY <2>5
  <2>7. QED
    BY <1>6, <2>1, <2>4, <2>5, <2>6
<1>10. Activation(new(c), d + 1)
  BY <1>6, <1>9 DEF Activation
<1>11. new(c) \in Activations
  <2>1. env(c) \in Seq(Nat)
    <3>1. env(c) \in [1..Len(captures[t]) -> Nat]
      BY <1>8, <1>9
    <3>2. \A n \in Nat : \A f \in [1..n -> Nat] : f \in Seq(Nat)
      OBVIOUS
    <3>3. QED
      BY <1>7, <3>1, <3>2
  <2>2. display(t) \in UNION {[E -> Nat] : E \in SUBSET Subps}
    BY <1>5, <1>6
  <2>3. QED
    BY <1>3, <2>1, <2>2 DEF Activations
<1>12. QED
  BY <1>1, <1>2, <1>10, <1>11, Pushed

LEMMA LeaveInv == RunInv /\ Leave => RunInv'
<1> SUFFICES ASSUME RunInv, Leave PROVE RunInv'
  OBVIOUS
<1>1. /\ UNCHANGED vars /\ stack # <<>>
      /\ stack' = SubSeq(stack, 1, Len(stack) - 1)
  BY DEF Leave
<1>2. /\ IInv' /\ pc' = pc /\ Activations' = Activations
      /\ \A b, d : Activation(b, d)' = Activation(b, d)
  BY <1>1, ModuleStands
<1>3. stack \in Seq(Activations) /\ Len(stack) \in Nat /\ Len(stack) # 0
  BY <1>1 DEF RunInv, StackInv
<1>4. /\ stack' \in Seq(Activations) /\ Len(stack') = Len(stack) - 1
      /\ \A d \in 1..Len(stack') : stack'[d] = stack[d]
  <2>1. 1 \in 1..(Len(stack) + 1) /\ Len(stack) - 1 \in 0..Len(stack)
    BY <1>3
  <2>2. \A i \in 1..(Len(stack) - 1) : stack[i] \in Activations
    BY <1>3
  <2>3. stack' = [i \in 1..(Len(stack) - 1) |-> stack[i]]
    BY <1>1, <1>3, <2>1
  <2>4. QED
    BY <1>3, <2>1, <2>2, <2>3
<1>5. \A d \in 1..Len(stack') : Activation(stack'[d], d)
  BY <1>3, <1>4 DEF RunInv, StackInv
<1>6. QED
  BY <1>1, <1>2, <1>4, <1>5 DEF RunInv, StackInv

(* Whatever the module, a run of it keeps every activation well set up.    *)
THEOREM RunInvariant == RunSpec => []RunInv
<1>1. RunInv /\ [RunNext]_runVars => RunInv'
  <2> SUFFICES ASSUME RunInv, [RunNext]_runVars PROVE RunInv'
    OBVIOUS
  <2>1. CASE UNCHANGED runVars
    <3>1. UNCHANGED vars /\ stack' = stack
      BY <2>1 DEF runVars
    <3>2. /\ IInv' /\ pc' = pc /\ Activations' = Activations
          /\ \A b, d : Activation(b, d)' = Activation(b, d)
      BY <3>1, ModuleStands
    <3>3. QED
      BY <3>1, <3>2 DEF RunInv, StackInv
  <2>2. QED
    BY <2>1, ConvertInv, StartInv, ExecuteInv, LeaveInv DEF RunNext
<1>2. QED
  BY <1>1, RunInitInv, PTL DEF RunSpec

(* Running a module never touches what the conversion made of it, so what  *)
(* is proved of the conversion holds in every run.                         *)
LEMMA RunConverts == RunSpec => Spec
<1>1. RunInit => Init
  BY DEF RunInit
<1>2. [RunNext]_runVars => [Next]_vars
  BY DEF RunNext, runVars, Convert, Start, Execute, Leave
<1>3. QED
  BY <1>1, <1>2, PTL DEF RunSpec, Spec

(* Whatever the module, the number of activations alive and the way they   *)
(* recurse, every reference of a running body reaches the object Ada's     *)
(* scope rules name: passing the captures as references is enough.         *)
THEOREM UpLevelReached == RunSpec => []UpLevelCorrect
<1>1. ASSUME RunInv PROVE UpLevelCorrect
  <2> SUFFICES ASSUME NEW d \in 1..Len(stack), NEW r \in refs[stack[d].subp]
               PROVE  Denotes(d, r) = stack[d].display[prog.owner[r.value]]
    BY DEF UpLevelCorrect
  <2>1. IInv /\ TypeOK /\ pc = "done" /\ stack[d] \in Activations
    BY <1>1, Standing DEF RunInv, StackInv
  <2>2. stack[d].subp \in Subps
    BY <2>1 DEF Activations
  <2>3. r \in RefsIn({stack[d].subp})
    BY <2>1, RefsOfBody
  <2>4. r.value \in Own(stack[d].subp) \cup Captured(stack[d].subp)
    BY <2>1, <2>2, <2>3, AllSettled DEF IInv, SufficientInv
  <2>5. QED
    BY <1>1, <2>1, <2>4, Reached
<1>2. QED
  BY <1>1, RunInvariant, PTL
=============================================================================
