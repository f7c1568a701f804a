----------------------------- MODULE SymbolNames -----------------------------
(***************************************************************************)
(* The names of declarations, from MLIRGen's qualified dialect symbols to  *)
(* the GNAT ABI names HoistNestedSymbolOperations gives to subprograms.    *)
(* MLIRGen reserves a unique symbol per declaration; ClosureConversion     *)
(* adds parameters; the pass computes every ABI name first and then        *)
(* renames one subprogram after the other, each time rewriting every use   *)
(* of the old symbol in the module.                                        *)
(***************************************************************************)
EXTENDS Naturals, Sequences, FiniteSets

CONSTANTS
  Name,      \* source names: identifiers and operator symbols
  Operator,  \* the operator symbols
  Signed,    \* of them, those with a unary and a binary form: "+" and "-"
  Units      \* the compilation units considered

Kinds == {"subp", "block", "type"}

(* A compilation unit: its declarations 1..n in the order MLIRGen visits   *)
(* them, each in the scope of an earlier one or at library level (0); the  *)
(* formals of each subprogram (one or two for an operator), the values it  *)
(* will have lifted, and the calls, pairs of a body and the subprogram its *)
(* call resolves to.                                                       *)
WellFormed(u) ==
  /\ u.n \in Nat
  /\ u.scope \in [1..u.n -> 0..u.n]
  /\ \A d \in 1..u.n : u.scope[d] < d
  /\ u.kind \in [1..u.n -> Kinds]
  /\ u.simple \in [1..u.n -> Name]
  /\ u.formals \in [1..u.n -> Nat]
  /\ \A d \in 1..u.n :
       u.simple[d] \in Operator => u.kind[d] = "subp" /\ u.formals[d] \in 1..2
  /\ u.lifted \in [1..u.n -> Nat]
  /\ u.calls \subseteq {d \in 1..u.n : u.kind[d] = "subp"}
                       \X {d \in 1..u.n : u.kind[d] = "subp"}

ASSUME OperatorAssumption == Signed \subseteq Operator /\ Operator \subseteq Name
ASSUME UnitsAssumption == \A u \in Units : WellFormed(u)

VARIABLES
  unit,     \* the compilation unit
  pc,       \* "declare", "lift", "collect", "rename" or "done"
  at,       \* the next declaration to declare or to rename
  used,     \* usedSymbols: every symbol reserved
  symbol,   \* the current symbol of each declaration
  inputs,   \* the number of inputs of each subprogram
  mangled,  \* the ABI names, collected before the first rename
  scopeRef, \* the subprogram a hoisted type's location names as its scope
  target,   \* the symbol each call names
  declared  \* history: the ABI name each subprogram had when declared

vars == <<unit, pc, at, used, symbol, inputs, mangled, scopeRef, target, declared>>

Decls == 1..unit.n
Subps == {d \in Decls : unit.kind[d] = "subp"}
Types == {d \in Decls : unit.kind[d] = "type"}

(* A symbol is the list of its segments.  A segment is a source name with  *)
(* the number of the `__N` suffix that makes it unique (0 without one), or *)
(* the O-name of an operator.  Segments are joined with dots in a dialect  *)
(* symbol and with underscores in an ABI name.                             *)
Segment(name, n) == [name |-> name, n |-> n, form |-> "source"]
Symbol(join, path) == [join |-> IF Len(path) > 1 THEN join ELSE "", path |-> path]
NoSymbol == Symbol("", <<>>)

(* makeUnique: the candidate, or the first free `__N`, from 2 on.          *)
(* Mutant: a symbol already handed out is handed out again.                *)
MutantMakeUnique(scope, simple) ==
  Symbol(".", Append(scope.path, Segment(simple, 0)))
MakeUnique(scope, simple) ==
  LET numbers == {0} \cup 2..(Cardinality(used) + 2)
      candidate(n) == Symbol(".", Append(scope.path, Segment(simple, n)))
      n == CHOOSE k \in numbers :
             /\ candidate(k) \notin used
             /\ \A j \in numbers : candidate(j) \notin used => k <= j
  IN  candidate(n)

(* scopeStack: the symbol of the enclosing subprogram or block.            *)
ScopeSymbol(d) == IF unit.scope[d] = 0 THEN NoSymbol ELSE symbol[unit.scope[d]]

(* gnatOperatorName maps a bare operator: a suffix makes the segment       *)
(* longer than any operator symbol.                                        *)
GnatSegment(seg, arity) ==
  IF seg.name \in Operator /\ seg.n = 0
    THEN [seg EXCEPT !.form = IF seg.name \in Signed /\ arity = 1
                                THEN "unary" ELSE "binary"]
    ELSE seg

(* getMangledName: the arity of the leaf is its number of inputs, that of  *)
(* an enclosing operator is taken to be two; a public subprogram with one  *)
(* segment gets the `_ada_` prefix.                                        *)
Public(d) == unit.scope[d] = 0

MangledName(d) ==
  LET segs == symbol[d].path
      gnat == [k \in 1..Len(segs) |->
                 GnatSegment(segs[k], IF k = Len(segs) THEN inputs[d] ELSE 2)]
  IN  IF Public(d) /\ Len(segs) = 1
        THEN [join |-> "_ada_", path |-> gnat] ELSE Symbol("__", gnat)

(* The nearest ada.subp around a type.                                     *)
ScopesOf(d) ==
  LET up[k \in 0..unit.n] ==
        IF k = 0 THEN {} ELSE {k} \cup up[unit.scope[k]]
  IN  up[unit.scope[d]] \cap Subps

EnclosingSubp(d) ==
  CHOOSE s \in ScopesOf(d) : \A t \in ScopesOf(d) : t <= s

-----------------------------------------------------------------------------
Init ==
  /\ unit \in Units
  /\ pc = "declare"
  /\ at = 1
  /\ used = {}
  /\ symbol = [d \in Decls |-> NoSymbol]
  /\ inputs = unit.formals
  /\ mangled = [d \in Subps |-> NoSymbol]
  /\ scopeRef = [d \in Types |-> NoSymbol]
  /\ target = [c \in unit.calls |-> NoSymbol]
  /\ declared = [d \in Subps |-> NoSymbol]

(* declareSymbol, or the scope a block pushes.                             *)
Declare ==
  /\ pc = "declare"
  /\ at \in Decls
  /\ LET s == MakeUnique(ScopeSymbol(at), unit.simple[at])
     IN  /\ used' = used \cup {s}
         /\ symbol' = [symbol EXCEPT ![at] = s]
  /\ at' = at + 1
  /\ UNCHANGED <<unit, pc, inputs, mangled, scopeRef, target, declared>>

(* Each call names the symbol of the subprogram it resolves to.            *)
EndOfUnit ==
  /\ pc = "declare"
  /\ at = unit.n + 1
  /\ target' = [c \in unit.calls |-> symbol[c[2]]]
  /\ declared' = [d \in Subps |-> MangledName(d)]
  /\ pc' = "lift"
  /\ UNCHANGED <<unit, at, used, symbol, inputs, mangled, scopeRef>>

(* ClosureConversion appends the lifted parameters.                        *)
(* Mutant: every nested subprogram also gets one for its environment.      *)
MutantLift ==
  /\ pc = "lift"
  /\ inputs' = [d \in Decls |-> inputs[d] + unit.lifted[d]
                                + (IF unit.scope[d] = 0 THEN 0 ELSE 1)]
  /\ pc' = "collect"
  /\ UNCHANGED <<unit, at, used, symbol, mangled, scopeRef, target, declared>>

Lift ==
  /\ pc = "lift"
  /\ inputs' = [d \in Decls |-> inputs[d] + unit.lifted[d]]
  /\ pc' = "collect"
  /\ UNCHANGED <<unit, at, used, symbol, mangled, scopeRef, target, declared>>

(* One walk before any change: the ABI name of every subprogram, and for   *)
(* every nested type that of the subprogram around it.                     *)
(* Mutant: a type keeps the dialect symbol of its scope.                   *)
MutantCollect ==
  /\ pc = "collect"
  /\ mangled' = [d \in Subps |-> MangledName(d)]
  /\ scopeRef' = [d \in Types |-> IF ScopesOf(d) = {} THEN NoSymbol
                                  ELSE symbol[EnclosingSubp(d)]]
  /\ at' = 1
  /\ pc' = "rename"
  /\ UNCHANGED <<unit, used, symbol, inputs, target, declared>>

Collect ==
  /\ pc = "collect"
  /\ mangled' = [d \in Subps |-> MangledName(d)]
  /\ scopeRef' = [d \in Types |-> IF ScopesOf(d) = {} THEN NoSymbol
                                  ELSE MangledName(EnclosingSubp(d))]
  /\ at' = 1
  /\ pc' = "rename"
  /\ UNCHANGED <<unit, used, symbol, inputs, target, declared>>

(* replaceAllSymbolUses rewrites whatever names the old symbol, then the   *)
(* subprogram takes the new one.                                           *)
(* Mutant: uses are matched by their last segment.                         *)
MutantRenamed(old, new) ==
  [c \in unit.calls |->
     IF target[c].path[Len(target[c].path)] = old.path[Len(old.path)]
       THEN new ELSE target[c]]
Renamed(old, new) ==
  [c \in unit.calls |-> IF target[c] = old THEN new ELSE target[c]]

Rename ==
  /\ pc = "rename"
  /\ at \in Subps
  /\ target' = Renamed(symbol[at], mangled[at])
  /\ symbol' = [symbol EXCEPT ![at] = mangled[at]]
  /\ at' = at + 1
  /\ UNCHANGED <<unit, pc, used, inputs, mangled, scopeRef, declared>>

Keep ==
  /\ pc = "rename"
  /\ at \in Decls \ Subps
  /\ at' = at + 1
  /\ UNCHANGED <<unit, pc, used, symbol, inputs, mangled, scopeRef, target, declared>>

Finish ==
  /\ pc = "rename"
  /\ at = unit.n + 1
  /\ pc' = "done"
  /\ UNCHANGED <<unit, at, used, symbol, inputs, mangled, scopeRef, target, declared>>

Next == Declare \/ EndOfUnit \/ Lift \/ Collect \/ Rename \/ Keep \/ Finish

Spec == Init /\ [][Next]_vars

-----------------------------------------------------------------------------
(* Properties *)

(* Symbols of the operations in the module: a block has none.              *)
SymbolsDistinct ==
  pc \in {"lift", "collect", "rename", "done"} =>
    \A d, e \in Subps \cup Types : symbol[d] = symbol[e] => d = e

(* Through every rename each call names the subprogram it resolved to,     *)
(* and no other: renaming one subprogram never catches the calls of        *)
(* another whose symbol is still to be changed, or already is.             *)
CallsFollow ==
  pc \in {"lift", "collect", "rename", "done"} =>
    \A c \in unit.calls : \A d \in Subps :
      target[c] = symbol[d] <=> d = c[2]

(* A type moved out of its subprogram still names that subprogram as its   *)
(* scope, although the subprogram was renamed in between.                  *)
TypeScopesResolve ==
  pc = "done" =>
    \A d \in Types :
      scopeRef[d] = IF ScopesOf(d) = {} THEN NoSymbol
                    ELSE symbol[EnclosingSubp(d)]

(* The ABI name a subprogram has when it is declared is the one it gets:   *)
(* callers in other units, which know the source only, agree with the      *)
(* passes.  Not so where lifting gives a unary sign operator more inputs.  *)
SignWithCaptures(d) ==
  unit.simple[d] \in Signed /\ unit.formals[d] = 1 /\ unit.lifted[d] > 0

NamesStable ==
  pc = "done" =>
    \A d \in Subps : symbol[d] = declared[d] \/ SignWithCaptures(d)
=============================================================================
