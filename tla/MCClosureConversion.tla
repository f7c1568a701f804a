------------------------- MODULE MCClosureConversion --------------------------
(***************************************************************************)
(* Instances of ClosureConversion: every choice of uses and of calls over  *)
(* a few nesting trees.                                                    *)
(***************************************************************************)
EXTENDS ClosureConversion

(* A tree is the list of the subprograms each one is written directly in   *)
(* (0 for the module), innermost first.                                    *)
Enclosing(outer) ==
  LET up[s \in 0..Len(outer)] ==
        IF s = 0 THEN {} ELSE {s} \cup up[outer[s]]
  IN  [s \in 1..Len(outer) |-> up[s]]

Legal(enclosing, e) ==
  enclosing[e[2]] \ {e[2]} \subseteq enclosing[e[1]]

(* Value v is defined in owner[v]; a call is a pair <<caller, callee>>.    *)
Program(outer, owner, uses, calls) ==
  [n |-> Len(outer), enclosing |-> Enclosing(outer),
   values |-> DOMAIN owner, owner |-> owner, uses |-> uses,
   calls |-> calls, caller |-> [c \in calls |-> c[1]],
   callee |-> [c \in calls |-> c[2]]]

Pairs(outer) ==
  {e \in (1..Len(outer)) \X (1..Len(outer)) : Legal(Enclosing(outer), e)}

Visible(outer, owner, s) ==
  {v \in DOMAIN owner : owner[v] \in Enclosing(outer)[s]}

ProgramsOver(outer, owner, edges) ==
  {Program(outer, owner, u, cs) :
     u \in {w \in [1..Len(outer) -> SUBSET DOMAIN owner] :
              \A s \in 1..Len(outer) : w[s] \subseteq Visible(outer, owner, s)
                                       /\ (owner[1] = s => 1 \in w[s])},
     cs \in SUBSET edges}

(* 1 in 2 in 3; 1 and 2 in 3; 1 in 2, 2 and 3 in 4. *)
Chain == <<2, 3, 0>>
Siblings == <<3, 3, 0>>
Mixed == <<2, 4, 4, 0>>

ChainCalls == Pairs(Chain) \ {<<1, 3>>, <<2, 3>>}
SiblingCalls == Pairs(Siblings) \ {<<1, 3>>, <<2, 3>>, <<3, 3>>}
MixedCalls ==
  {<<4, 2>>, <<4, 3>>, <<2, 1>>, <<1, 2>>, <<3, 2>>, <<2, 3>>, <<3, 3>>}

MCPrograms ==
  UNION {ProgramsOver(Chain, <<3, 2>>, ChainCalls),
         ProgramsOver(Siblings, <<3, 3>>, SiblingCalls),
         ProgramsOver(Mixed, <<4>>, MixedCalls)}
=============================================================================
