---------------------------- MODULE MCSymbolNames -----------------------------
(***************************************************************************)
(* Instances of SymbolNames: a library-level procedure "m" and every       *)
(* choice of three declarations inside it, where an unnamed block, a type  *)
(* and overloaded subprograms compete for the same name.                   *)
(***************************************************************************)
EXTENDS SymbolNames

MCName == {"m", "b", "-"}
MCOperator == {"-"}

(* What a declaration can be: kind, name, formals and values lifted.       *)
Forms ==
  {<<"block", "b", 0, 0>>, <<"type", "b", 0, 0>>, <<"subp", "b", 1, 0>>,
   <<"subp", "-", 1, 0>>, <<"subp", "-", 1, 1>>, <<"subp", "-", 2, 0>>}

Library == <<"subp", "m", 0, 0>>

Unit(scope, form) ==
  LET n == Len(scope)
      subps == {d \in 1..n : form[d][1] = "subp"}
  IN  [n |-> n, scope |-> scope,
       kind |-> [d \in 1..n |-> form[d][1]],
       simple |-> [d \in 1..n |-> form[d][2]],
       formals |-> [d \in 1..n |-> form[d][3]],
       lifted |-> [d \in 1..n |-> form[d][4]],
       calls |-> {<<1, d>> : d \in subps}]

(* A type cannot share its name with another declaration of its scope, and *)
(* nothing is declared in a type.                                          *)
LegalUnit(u) ==
  /\ \A d \in 2..u.n : u.kind[u.scope[d]] # "type"
  /\ \A d, e \in 1..u.n :
       d # e /\ u.scope[d] = u.scope[e] /\ u.simple[d] = u.simple[e]
         => u.kind[d] # "type" \/ u.kind[e] = "block"

MCUnits ==
  {u \in {Unit(<<0, 1, s, t>>, <<Library, f, g, h>>) :
            s \in 1..2, t \in 1..3, f \in Forms, g \in Forms, h \in Forms} :
     LegalUnit(u)}
=============================================================================
