------------------------------ MODULE MCDriver ------------------------------
(***************************************************************************)
(* Units of every kind the driver and the binder tell apart, with modules  *)
(* that contain nothing to lower but a subprogram, or all there is.        *)
(***************************************************************************)
EXTENDS Driver

Unit(item, params, returns) == [item |-> item, params |-> params, returns |-> returns]

MCUnits ==
  {Unit("procedure body", FALSE, "none"), Unit("procedure body", TRUE, "none"),
   Unit("function body", FALSE, "integer"), Unit("function body", FALSE, "other"),
   Unit("package body", FALSE, "none"), Unit("subprogram spec", FALSE, "integer"),
   Unit("list", FALSE, "none")}

MCEmitted == {{"subp"}, Constructs}
=============================================================================
