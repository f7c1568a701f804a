--------------------------- MODULE MCCallLowering ----------------------------
(***************************************************************************)
(* Instances of CallLowering.  Two objects of one base type, so that two   *)
(* actuals can designate the same one: x has a static subtype and y a      *)
(* dynamic one, and neither admits every base value.                       *)
(***************************************************************************)
EXTENDS CallLowering, TLC

CONSTANTS x, y

MCBase == 0..2
MCObject == {x, y}
MCSubtype == x :> {0, 1} @@ y :> {1, 2}
MCDynamic == {y}

Site(mode, subtypes, defaulted, order, captures, isFunction) ==
  [n |-> Len(mode), mode |-> mode, subtype |-> subtypes,
   defaulted |-> defaulted, order |-> order, captures |-> captures,
   isFunction |-> isFunction]

(* Every pair of modes, both orders, with and without Default_Value.       *)
PairCalls ==
  {Site(m, <<{0, 1}, {0, 1, 2}>>, d, o, cap, f) :
     m \in [1..2 -> Modes], d \in {{}, {2}}, o \in {<<1, 2>>, <<2, 1>>},
     cap \in {<<y>>}, f \in {FALSE}}

(* Three formals, with a gap of each kind before, between and after the    *)
(* formals that take part in a list.                                       *)
TripleCalls ==
  {Site(<<"out", "in", "in_out">>, <<{1}, {0}, {0, 1}>>, {}, <<3, 1, 2>>,
        <<>>, TRUE),
   Site(<<"in", "out", "out">>, <<{1}, {0, 2}, {1}>>, {3}, <<3, 2, 1>>,
        <<x>>, FALSE)}

MCCalls == PairCalls \cup TripleCalls
=============================================================================
