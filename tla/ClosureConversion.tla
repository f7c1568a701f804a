-------------------------- MODULE ClosureConversion ---------------------------
(***************************************************************************)
(* The ClosureConversion pass: lambda-lifting of nested subprograms.  The  *)
(* nested subprograms are taken innermost first; each value a body uses    *)
(* from above becomes a parameter of that body, every call of the          *)
(* subprogram passes it, and the subprogram moves to module level.         *)
(***************************************************************************)
EXTENDS Naturals, Sequences, FiniteSets, Functions

CONSTANT Programs  \* the modules considered

(* A module: its subprograms 1..n, numbered by the post-order walk; the    *)
(* subprograms a subprogram is written in, itself included; the values,    *)
(* each defined in one subprogram; the values each body uses outside       *)
(* calls; and the calls, in the body of `caller`.                          *)
WellFormed(p) ==
  /\ p.n \in Nat
  /\ p.enclosing \in [1..p.n -> SUBSET (1..p.n)]
  /\ \A s \in 1..p.n :
       /\ s \in p.enclosing[s]
       /\ \A t \in p.enclosing[s] :
            s <= t /\ p.enclosing[t] \subseteq p.enclosing[s]
       /\ \A t, u \in p.enclosing[s] : t <= u => u \in p.enclosing[t]
  /\ p.owner \in [p.values -> 1..p.n]
  /\ p.uses \in [1..p.n -> SUBSET p.values]
  /\ \A s \in 1..p.n : \A v \in p.uses[s] : p.owner[v] \in p.enclosing[s]
  /\ p.caller \in [p.calls -> 1..p.n]
  /\ p.callee \in [p.calls -> 1..p.n]
  /\ \A c \in p.calls :
       p.enclosing[p.callee[c]] \ {p.callee[c]} \subseteq p.enclosing[p.caller[c]]
  /\ IsFiniteSet(p.values) /\ IsFiniteSet(p.calls)

ASSUME ProgramsAssumption == \A p \in Programs : WellFormed(p)

VARIABLES
  prog,     \* the module being converted
  next,     \* the subprogram being lifted
  pc,       \* "isolate", "calls", "done" or "failed"
  refs,     \* per subprogram: the references its body uses outside calls
  args,     \* per call: the captures it passes
  captures, \* per subprogram: the references its lifted parameters stand for
  todo,     \* calls of `next` not rewritten yet
  hoisted   \* the subprograms moved to module level: `processed`

vars == <<prog, next, pc, refs, args, captures, todo, hoisted>>

Subps == 1..prog.n

(* An SSA value as the body of `at` names it: the value itself in the      *)
(* subprogram that defines it, a lifted parameter elsewhere.               *)
Ref(at, value) == [at |-> at, value |-> value]
Refs == [at : Subps, value : prog.values]
Source(v) == Ref(prog.owner[v], v)

IsNested(s) == prog.enclosing[s] # {s}

(* The bodies written inside that of s: its own and those of the nested    *)
(* subprograms not moved out on the way.                                   *)
Region(s) ==
  {t \in Subps : /\ s \in prog.enclosing[t]
                 /\ (prog.enclosing[t] \ prog.enclosing[s]) \cap hoisted = {}}

(* The references the code in a set of bodies uses. *)
RefsIn(bodies) ==
  (UNION {refs[t] : t \in bodies}) \cup
  (UNION {Range(args[c]) : c \in {d \in prog.calls : prog.caller[d] \in bodies}})

(* Mutant: the operands of calls are not looked at.                        *)
MutantUsedFromAbove(s) ==
  {r \in UNION {refs[t] : t \in Region(s)} : r.at \notin Region(s)}
UsedFromAbove(s) == {r \in RefsIn(Region(s)) : r.at \notin Region(s)}

(* makeRegionIsolatedFromAbove lists the captures in the order of their    *)
(* uses; any order is considered.                                          *)
Listings(S) == Injection(1..Cardinality(S), S)

(* The parameter of s that stands for a capture. *)
Lifted(s, r) == Ref(s, r.value)
(* Mutant: the parameters are taken from the wrong end.                    *)
MutantLiftedArgs(s) ==
  [k \in 1..Len(captures[s]) |->
     Lifted(s, captures[s][Len(captures[s]) + 1 - k])]
LiftedArgs(s) == [k \in 1..Len(captures[s]) |-> Lifted(s, captures[s][k])]

-----------------------------------------------------------------------------
Init ==
  /\ prog \in Programs
  /\ next = 1
  /\ pc = "isolate"
  /\ refs = [s \in Subps |-> {Source(v) : v \in prog.uses[s]}]
  /\ args = [c \in prog.calls |-> <<>>]
  /\ captures = [s \in Subps |-> <<>>]
  /\ todo = {}
  /\ hoisted = {}

(* A library-level subprogram is not in the list. *)
(* Mutant: the walk steps over the subprogram after it.                    *)
MutantSkip ==
  /\ pc = "isolate"
  /\ next \in Subps
  /\ ~IsNested(next)
  /\ next' = next + 2
  /\ UNCHANGED <<prog, pc, refs, args, captures, todo, hoisted>>

Skip ==
  /\ pc = "isolate"
  /\ next \in Subps
  /\ ~IsNested(next)
  /\ next' = next + 1
  /\ UNCHANGED <<prog, pc, refs, args, captures, todo, hoisted>>

(* Nothing to lift: the subprogram only moves out. *)
MoveOut ==
  /\ pc = "isolate"
  /\ next \in Subps
  /\ IsNested(next)
  /\ UsedFromAbove(next) = {}
  /\ hoisted' = hoisted \cup {next}
  /\ next' = next + 1
  /\ UNCHANGED <<prog, pc, refs, args, captures, todo>>

(* Each use from above is replaced by a parameter, nested regions included. *)
Replaced(r) == IF r \in UsedFromAbove(next) THEN Lifted(next, r) ELSE r

Isolate ==
  /\ pc = "isolate"
  /\ next \in Subps
  /\ IsNested(next)
  /\ UsedFromAbove(next) # {}
  /\ \E q \in Listings(UsedFromAbove(next)) :
       captures' = [captures EXCEPT ![next] = q]
  /\ refs' = [t \in Subps |-> IF t \in Region(next)
                                THEN {Replaced(r) : r \in refs[t]} ELSE refs[t]]
  /\ args' = [c \in prog.calls |->
                IF prog.caller[c] \in Region(next)
                  THEN [k \in 1..Len(args[c]) |-> Replaced(args[c][k])]
                  ELSE args[c]]
  /\ todo' = {c \in prog.calls : prog.callee[c] = next}
  /\ pc' = "calls"
  /\ UNCHANGED <<prog, next, hoisted>>

(* A call inside the body passes the parameters on; any other passes the   *)
(* captured values, which a body already moved out cannot name.            *)
(* Mutant: a recursive call passes the captured values too.                *)
MutantPassed(c) == captures[next]
Passed(c) ==
  IF prog.caller[c] \in Region(next) THEN LiftedArgs(next) ELSE captures[next]

(* Mutants: no call is refused; a recursive call is.                       *)
MutantReachable(c) == FALSE
MutantUnreachable(c) == prog.caller[c] \in hoisted \cup {next}
Unreachable(c) == prog.caller[c] \notin Region(next) /\ prog.caller[c] \in hoisted

RewriteCall ==
  /\ pc = "calls"
  /\ \E c \in todo :
       /\ ~Unreachable(c)
       /\ args' = [args EXCEPT ![c] = @ \o Passed(c)]
       /\ todo' = todo \ {c}
  /\ UNCHANGED <<prog, next, pc, refs, captures, hoisted>>

RefuseCall ==
  /\ pc = "calls"
  /\ \E c \in todo : Unreachable(c)
  /\ pc' = "failed"
  /\ UNCHANGED <<prog, next, refs, args, captures, todo, hoisted>>

Hoist ==
  /\ pc = "calls"
  /\ todo = {}
  /\ hoisted' = hoisted \cup {next}
  /\ next' = next + 1
  /\ pc' = "isolate"
  /\ UNCHANGED <<prog, refs, args, captures, todo>>

Finish ==
  /\ pc = "isolate"
  /\ next = prog.n + 1
  /\ pc' = "done"
  /\ UNCHANGED <<prog, next, refs, args, captures, todo, hoisted>>

Next ==
  \/ Skip \/ MoveOut \/ Isolate \/ RewriteCall \/ RefuseCall \/ Hoist \/ Finish

Spec == Init /\ [][Next]_vars

-----------------------------------------------------------------------------
(* Properties *)

(* The walk visits every subprogram once and only ever produces references *)
(* to values of the module.                                                *)
TypeOK ==
  /\ WellFormed(prog)
  /\ next \in 1..(prog.n + 1)
  /\ pc \in {"isolate", "calls", "done", "failed"}
  /\ refs \in [Subps -> SUBSET Refs]
  /\ args \in [prog.calls -> Seq(Refs)]
  /\ captures \in [Subps -> Seq(Refs)]
  /\ todo \subseteq prog.calls
  /\ hoisted \subseteq Subps

(* A subprogram at module level names nothing from outside its body, not   *)
(* even in the captures later calls make it pass: LLVM has no nested       *)
(* functions to give it such a value.                                      *)
HoistedIsolated ==
  \A s \in hoisted : \A r \in RefsIn({s}) : r.at = s

(* After the pass every call passes one reference per lifted parameter, in *)
(* the order of the parameters, each naming the captured value and         *)
(* nameable where the call stands.                                         *)
CallsMatch ==
  pc = "done" =>
    \A c \in prog.calls :
      args[c] = [k \in 1..Len(captures[prog.callee[c]]) |->
                   Lifted(prog.caller[c], captures[prog.callee[c]][k])]

(* The values a subprogram needs from above: those it uses and those its   *)
(* callees need, its own excepted.  These are the least sets with both.    *)
Own(s) == {v \in prog.values : prog.owner[v] = s}

Closed(free) ==
  /\ \A s \in Subps : prog.uses[s] \ Own(s) \subseteq free[s]
  /\ \A c \in prog.calls :
       free[prog.callee[c]] \ Own(prog.caller[c]) \subseteq free[prog.caller[c]]

FreeValues ==
  LET closed == {free \in [Subps -> SUBSET prog.values] : Closed(free)}
  IN  [s \in Subps |-> {v \in prog.values : \A free \in closed : v \in free[s]}]

(* A conversion that succeeds lifts exactly the values needed, transitively *)
(* through calls and recursion, each as one parameter.                     *)
ParametersLeast ==
  pc = "done" =>
    LET free == FreeValues IN
    \A s \in Subps :
      /\ {captures[s][k].value : k \in 1..Len(captures[s])} = free[s]
      /\ Len(captures[s]) = Cardinality(free[s])

(* It is refused exactly when a nested subprogram calls one that needs     *)
(* captures and is lifted later: an upward or a forward call.              *)
RefusalExact ==
  pc \in {"done", "failed"} =>
    (pc = "failed" <=>
       \E c \in prog.calls :
         /\ IsNested(prog.caller[c])
         /\ prog.caller[c] < prog.callee[c]
         /\ FreeValues[prog.callee[c]] # {})
=============================================================================
