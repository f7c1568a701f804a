----------------------------- MODULE CallProfile -----------------------------
(***************************************************************************)
(* Subprogram profiles and call sites of the `ada` dialect, as ada.subp    *)
(* and ada.call carry them: formals with a mode and a nominal subtype, the *)
(* order of the associations, and the objects passed as captures.  The     *)
(* constants describe one Ada base type: its values, the objects of that   *)
(* type and their subtypes.                                                *)
(***************************************************************************)
EXTENDS Naturals, Sequences, FiniteSets

CONSTANTS
  Object,    \* objects of the caller: variables and array components
  Base,      \* the values of the base type all of them share
  Subtype,   \* Subtype[o] is the set of values the nominal subtype of o allows
  Dynamic,   \* the objects whose subtype has a dynamic range
  Calls,     \* the call sites considered
  None       \* "no value": an empty slot

Modes == {"in", "in_out", "out"}

(* What the dialect verifier accepts: one mode and one nominal subtype per *)
(* formal, an association order that is a permutation of the formals, and  *)
(* captures after the formals.                                             *)
WellFormed(c) ==
  /\ c.n \in Nat
  /\ c.mode \in [1..c.n -> Modes]
  /\ c.subtype \in [1..c.n -> SUBSET Base]
  /\ c.defaulted \subseteq 1..c.n
  /\ c.order \in [1..c.n -> 1..c.n]
  /\ \A p, q \in 1..c.n : c.order[p] = c.order[q] => p = q
  /\ c.captures \in Seq(Object)
  /\ c.isFunction \in BOOLEAN

ASSUME BaseAssumption == Base # {}
ASSUME NoneAssumption ==
  None \notin Base /\ None \notin Object /\ \A S \in SUBSET Base : S # None
ASSUME SubtypeAssumption ==
  Subtype \in [Object -> SUBSET Base] /\ Dynamic \subseteq Object
ASSUME CallsAssumption == \A c \in Calls : WellFormed(c)

Formals(c) == 1..c.n

(* The formals whose value goes back to the actual. *)
Writable(c) == {i \in Formals(c) : c.mode[i] # "in"}

(* An `out` formal takes an input only for the Default_Value of its type. *)
NeedsInput(c) ==
  {i \in Formals(c) : c.mode[i] # "out" \/ i \in c.defaulted}

(* A body that a formal without an input may find holding anything. *)
Uninitialized(c) == Formals(c) \ NeedsInput(c)

NoFormals(c) == [i \in Formals(c) |-> None]

(* What evaluating an actual may leave in the caller's objects: a function *)
(* it calls may assign one.                                                *)
SideEffect(s) ==
  {s} \cup UNION {{[s EXCEPT ![o] = v] : v \in Subtype[o]} : o \in Object}
=============================================================================
