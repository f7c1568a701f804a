---------------------- MODULE MCObjectOptimization ----------------------
(***************************************************************************)
(* Machine values 0 to 3, of which 2 and 3 are in the subtype.  The base   *)
(* type has them all, or 1 to 3 as an integer or an enumeration type whose *)
(* representation leaves zero out, or is missing; and an object of an      *)
(* integer type may be declared outside the entry block.                   *)
(***************************************************************************)
EXTENDS ObjectOptimization

MCKinds ==
  {[form |-> "int", entry |-> TRUE, lo |-> 0, hi |-> 3],
   [form |-> "int", entry |-> TRUE, lo |-> 1, hi |-> 3],
   [form |-> "enum", entry |-> TRUE, values |-> <<1, 2, 3>>],
   [form |-> "missing", entry |-> TRUE],
   [form |-> "int", entry |-> FALSE, lo |-> 1, hi |-> 3]}
=========================================================================
