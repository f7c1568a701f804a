------------------------------ MODULE MCForLoop -------------------------------
(***************************************************************************)
(* Instances of ForLoop: every pair of bounds of every type, so that the   *)
(* range is empty, or ends at either end of the machine range.             *)
(***************************************************************************)
EXTENDS ForLoop, MCScalarTypes

NoArrays == {}
=============================================================================
