------------------------------ MODULE DenseLists -----------------------------
(***************************************************************************)
(* The lists the call lowering keeps: one entry for each formal that takes *)
(* part, in increasing order, and no entry for the others.  The code       *)
(* appends in a loop over the formals and reads back with a counter it     *)
(* increments at each formal of S; after i that counter stands at          *)
(* Rank(S, i).                                                             *)
(***************************************************************************)
EXTENDS Naturals, FiniteSets

Rank(S, i) == Cardinality({j \in S : j <= i})

(* The member of S at position p, and the list of f over S. *)
Nth(S, p) == CHOOSE i \in S : Rank(S, i) = p
Dense(S, f) == [p \in 1..Cardinality(S) |-> f[Nth(S, p)]]
=============================================================================
