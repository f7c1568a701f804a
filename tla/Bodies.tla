-------------------------------- MODULE Bodies ---------------------------------
(***************************************************************************)
(* A package and the subprogram bodies nested in it: what declarations,    *)
(* blocks, assignments and calls are made of.  A program is a sequence of  *)
(* bodies, the package first; a body lists its items in source order, with *)
(* a mark where a declarative part ends.  An entity is named once in a     *)
(* program.  Expressions are the atoms whose evaluation differs: a         *)
(* literal, an object (no constant with a static value), a bound of a      *)
(* subtype, the call of a library-level function and of a nested function  *)
(* that changes an object; and if expressions of them, a condition being   *)
(* that a number is not 0.                                                 *)
(***************************************************************************)
EXTENDS Integers, Sequences, FiniteSets, SequencesExt

CONSTANTS
  MaxValue,      \* the values of the integer roots are 0..MaxValue
  DefaultValue,  \* the Default_Value aspect of the root "level"
  Programs       \* the programs considered

Value == 0..MaxValue
Unset == MaxValue + 1  \* an object that has no value yet
Roots == {"integer", "level", "color"}  \* "color" is an enumeration
Package == 1

Literal(v) == [kind |-> "literal", value |-> v]
Function(v) == [kind |-> "function", value |-> v]
Name(e) == [kind |-> "name", entity |-> e]
Update(e) == [kind |-> "update", entity |-> e]
FirstOf(t) == [kind |-> "first", entity |-> t]
LastOf(t) == [kind |-> "last", entity |-> t]

Guard(cond, value) == [cond |-> cond, value |-> value]
IfExpr(guards, otherwise, type) ==
  [kind |-> "if", guards |-> guards, otherwise |-> otherwise, type |-> type]

NoBounds == <<>>
NoInit == <<>>

SubtypeDecl(name, mark, bounds) ==
  [kind |-> "subtype", name |-> name, mark |-> mark, bounds |-> bounds]
ArrayDecl(name, index, bounds, component) ==
  [kind |-> "array", name |-> name, mark |-> index, bounds |-> bounds,
   component |-> component]
Object(names, mark, bounds, init, constant) ==
  [kind |-> "object", names |-> names, mark |-> mark, bounds |-> bounds,
   init |-> init, constant |-> constant]
BodyDecl(s) == [kind |-> "body", subp |-> s]
Begin == [kind |-> "begin"]
Declare == [kind |-> "declare"]
EndBlock == [kind |-> "end"]
Assign(target, value) == [kind |-> "assign", target |-> target, value |-> value]
Call(s, actuals) == [kind |-> "call", subp |-> s, actuals |-> actuals]

Formal(name, mark, mode) == [name |-> name, mark |-> mark, mode |-> mode]
Body(outer, formals, items) ==
  [outer |-> outer, formals |-> formals, items |-> items]

-----------------------------------------------------------------------------
Item(p, s, k) == p[s].items[k]
Bodies(p) == 1..Len(p)

(* The objects and types an item declares, and those of a body declared by *)
(* its formals and the items before the k-th.                              *)
Declared(i) ==
  CASE i.kind = "object" -> ToSet(i.names)
    [] i.kind \in {"subtype", "array"} -> {i.name}
    [] OTHER -> {}
FormalNames(p, s) == {f.name : f \in ToSet(p[s].formals)}
DeclaredBefore(p, s, k) ==
  FormalNames(p, s) \cup UNION {Declared(Item(p, s, j)) : j \in 1..(k - 1)}

(* The body an entity is declared in.                                      *)
Owner(p, e) ==
  CHOOSE s \in Bodies(p) : e \in DeclaredBefore(p, s, Len(p[s].items) + 1)

(* A body and those around it.                                             *)
Enclosing(p, s) ==
  LET around[t \in 0..Len(p)] ==
        IF t = 0 THEN {} ELSE {t} \cup around[p[t].outer]
  IN  around[s]

DeclaringItem(p, e) ==
  CHOOSE i \in ToSet(p[Owner(p, e)].items) : e \in Declared(i)
IsFormal(p, e) == \E s \in Bodies(p) : e \in FormalNames(p, s)
FormalOf(p, e) ==
  CHOOSE f \in UNION {ToSet(p[s].formals) : s \in Bodies(p)} : f.name = e
Mark(p, e) == IF IsFormal(p, e) THEN FormalOf(p, e).mark ELSE DeclaringItem(p, e).mark

Items(p) == UNION {ToSet(p[s].items) : s \in Bodies(p)}
Types(p) ==
  Roots \cup UNION {Declared(i) : i \in {j \in Items(p) : j.kind \in {"subtype", "array"}}}

(* The type whose range is that of t: a subtype without a constraint of    *)
(* its own renames the one it is declared from.                            *)
Constrained(p, t) ==
  LET from[x \in Types(p)] ==
        IF x \in Roots \/ DeclaringItem(p, x).kind = "array"
             \/ DeclaringItem(p, x).bounds # NoBounds
          THEN x ELSE from[Mark(p, x)]
  IN  from[t]

(* The type t is a subtype of, whose aspects it has.                       *)
TypeOf(p, t) ==
  LET from[x \in Types(p)] ==
        IF x \in Roots \/ DeclaringItem(p, x).kind = "array" THEN x ELSE from[Mark(p, x)]
  IN  from[t]

(* evalExprAsInt: the value of a bound that is known at its declaration,   *)
(* a literal or an attribute whose own bound is; <<>> if it is not.        *)
StaticValue(p, e) ==
  LET n(a) == IF a.kind = "first" THEN 1 ELSE 2
      known[a \in {e} \cup {FirstOf(t) : t \in Types(p)} \cup {LastOf(t) : t \in Types(p)}] ==
        IF a.kind = "literal" THEN <<a.value>>
        ELSE IF a.kind \notin {"first", "last"} THEN <<>>
        ELSE LET t == Constrained(p, a.entity)
                 bound == DeclaringItem(p, t).bounds[n(a)]
             IN  CASE t = "color" -> <<>>
                   [] t \in Roots \ {"color"} -> <<<<0, MaxValue>>[n(a)]>>
                   [] bound.kind = "literal" -> <<bound.value>>
                   [] bound.kind \in {"first", "last"} -> known[bound]
                   [] OTHER -> <<>>
  IN  known[e]
Static(p, e) == StaticValue(p, e) # <<>>

(* A call the environment may make: of a subprogram of the package.        *)
Exported(p) == {i.subp : i \in {j \in ToSet(p[Package].items) : j.kind = "body"}}

(* The ranges of the subtypes of the package.                              *)
PackageRanges(p) ==
  LET constrained == {i \in ToSet(p[Package].items) :
                        i.kind = "subtype" /\ i.bounds # NoBounds}
  IN  [t \in {i.name : i \in constrained} |->
         [n \in 1..2 |-> DeclaringItem(p, t).bounds[n].value]]

(* The declarative part that starts at the k-th item, up to its mark.      *)
DeclarativePart(p, s, k) ==
  {Item(p, s, j) : j \in {i \in k..Len(p[s].items) :
                            \A h \in k..i : Item(p, s, h) # Begin}}
=============================================================================
