-------------------------- MODULE MCLiftedExecution ---------------------------
(***************************************************************************)
(* Instances of LiftedExecution: recursion at both levels of nesting, with *)
(* calls that start a second activation of the subprogram that owns a      *)
(* captured value.                                                         *)
(***************************************************************************)
EXTENDS LiftedExecution, MCClosureConversion

MCRunPrograms ==
  UNION {ProgramsOver(Chain, <<3, 2>>,
               {<<3, 2>>, <<2, 1>>, <<1, 1>>, <<2, 2>>, <<1, 3>>}),
         ProgramsOver(Mixed, <<4, 2>>,
           {<<4, 2>>, <<2, 1>>, <<3, 2>>, <<4, 3>>, <<1, 4>>})}

(* Every program the conversion is checked on, and those of the runs.      *)
MCAllPrograms == MCPrograms \cup MCRunPrograms
=============================================================================
