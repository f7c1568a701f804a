---------------------------- MODULE MCDeclarations -----------------------------
(***************************************************************************)
(* Instances of DebugInfo: a package with a procedure P and bodies       *)
(* nested in it, over choices of the bounds, initial values and values     *)
(* assigned, with side effects in all of them.                             *)
(***************************************************************************)
EXTENDS DebugInfo

Integer(names, init) == Object(names, "integer", NoBounds, init, FALSE)
InOf(name, mark) == Formal(name, mark, "in")
PackageOf(items) == Body(0, <<>>, items)

(* Bounds: static, of a formal, of an object that changes later, computed  *)
(* with one or two side effects.                                           *)
BoundsOf(n, a) ==
  {<<Literal(1), Literal(2)>>, <<Literal(1), Name(n)>>, <<Name(a), Function(2)>>,
   <<Update(a), Literal(3)>>, <<Update(a), Update(a)>>}

(* A dynamic subtype, used by P, by a nested body and up-level from it,    *)
(* after the objects its bounds came from have changed.                    *)
Nested ==
  {<<PackageOf(<<BodyDecl(2)>>),
     Body(1, <<InOf("N", "integer")>>,
       <<Integer(<<"A">>, <<Name("N")>>),
         SubtypeDecl("S", "integer", bounds),
         Object(<<"V">>, "S", NoBounds, init, FALSE),
         BodyDecl(3),
         Begin,
         Assign("A", value),
         Assign("V", Name("A")),
         Call(3, <<Name("V")>>),
         Assign("A", Name("V"))>>),
     Body(2, <<InOf("M", "S")>>,
       <<Object(<<"C">>, "S", NoBounds, <<LastOf("S")>>, TRUE),
         Object(<<"X", "Y">>, "integer", <<Name("M"), FirstOf("S")>>,
                <<Update("A")>>, FALSE),
         Begin,
         Assign("V", Name("C")),
         Assign("V", Name("A"))>>)>> :
     bounds \in BoundsOf("N", "A"),
     init \in {NoInit, <<Name("A")>>, <<Update("A")>>, <<Literal(2)>>},
     value \in {Literal(0), Update("A"), LastOf("S")}}

(* Recursion: each activation of P has bounds of its own, and Q, called    *)
(* by one, starts the next.                                                *)
Recursive ==
  {<<PackageOf(<<BodyDecl(2)>>),
     Body(1, <<InOf("N", "integer")>>,
       <<SubtypeDecl("S", "integer", <<Literal(0), Name("N")>>),
         Object(<<"V">>, "S", NoBounds, <<FirstOf("S")>>, FALSE),
         BodyDecl(3),
         Begin,
         Call(3, <<Name("V")>>),
         Assign("V", Literal(2))>>),
     Body(2, <<InOf("M", mark)>>,
       <<Begin,
         Assign("V", LastOf("S")),
         Call(s, <<Function(v)>>),
         Assign("V", Name("M"))>>)>> :
     mark \in {"integer", "S"}, s \in 2..3, v \in 1..2}

(* Blocks: two with declarations of their own, one of them with a nested   *)
(* body, that use the subtypes around them.                                *)
Blocks ==
  {<<PackageOf(<<SubtypeDecl("Small", "integer", <<Literal(1), Literal(2)>>),
                 BodyDecl(2)>>),
     Body(1, <<InOf("N", "Small"), Formal("R", "Small", "in_out")>>,
       <<Integer(<<"A">>, <<Literal(1)>>),
         Begin,
         Declare,
         SubtypeDecl("S", "integer", bounds),
         Object(<<"V">>, "S", NoBounds, <<Name("R")>>, FALSE),
         Begin,
         Assign("R", Name("V")),
         EndBlock,
         Declare,
         Object(<<"W">>, "integer", NoBounds, <<Update("A")>>, FALSE),
         SubtypeDecl("T", "integer", <<Name("W"), Name("A")>>),
         BodyDecl(3),
         Begin,
         Call(3, <<value>>),
         EndBlock,
         Assign("R", Name("A"))>>),
     Body(2, <<InOf("M", "T")>>,
       <<ArrayDecl("Vector", "integer", <<Literal(1), Literal(2)>>, "T"),
         Object(<<"B">>, "Vector", NoBounds, NoInit, FALSE),
         Object(<<"Z">>, "integer", <<Literal(0), Name("W")>>, NoInit, FALSE),
         Begin,
         Declare, Begin, Assign("W", Name("M")), EndBlock>>)>> :
     bounds \in BoundsOf("N", "A"), value \in {Name("W"), Update("A"), LastOf("T")}}

(* Default values, with and without a constraint that excludes them, and   *)
(* constants that are a formal or another constant under a new name.       *)
Defaults ==
  {<<PackageOf(<<SubtypeDecl("Small", "integer", <<Literal(1), Literal(2)>>),
                 BodyDecl(2)>>),
     Body(1, <<InOf("N", "level")>>,
       <<Object(<<"A">>, "level", NoBounds, NoInit, FALSE),
         Object(<<"C">>, "level", NoBounds, init, TRUE),
         Object(<<"D">>, "level", NoBounds, <<Name("C")>>, TRUE),
         Object(<<"V", "W">>, "level", bounds, again, FALSE),
         Begin,
         Assign("V", Name("D")),
         Assign("A", Name("W"))>>)>> :
     init \in {<<Name("N")>>, <<Update("A")>>, <<Name("A")>>},
     again \in {NoInit, <<Name("A")>>},
     bounds \in {<<Name("A"), Name("C")>>, <<Literal(1), Literal(3)>>,
                 <<Update("A"), Name("N")>>}}

(* A Default_Value that subtypes have too, excluded by their constraint or *)
(* not.                                                                    *)
Aspects ==
  {<<PackageOf(<<SubtypeDecl("Grade", "level", <<Literal(low), Literal(3)>>),
                 SubtypeDecl("Rank", "level", NoBounds), BodyDecl(2)>>),
     Body(1, <<InOf("N", "level")>>,
       <<Object(<<"X", "Y">>, mark, bounds, NoInit, FALSE),
         Begin,
         Assign("X", Name("N")), Assign("Y", Name("X"))>>)>> :
     low \in 0..1, mark \in {"Grade", "Rank"},
     bounds \in {NoBounds, <<Literal(0), Name("N")>>, <<Name("N"), Literal(3)>>}}

(* Library level: an object, and a subtype whose bounds are never          *)
(* evaluated, used or not.                                                 *)
Library ==
  {<<PackageOf(<<Integer(<<"A">>, NoInit), BodyDecl(2)>>),
     Body(1, <<>>, <<Begin>>)>>}
  \cup
  {<<PackageOf(<<SubtypeDecl("S", "integer", <<Literal(1), Function(2)>>),
                 BodyDecl(2)>>),
     Body(1, <<InOf("N", "integer")>>,
       <<Integer(<<"A">>, <<init>>), Object(<<"V">>, mark, NoBounds, <<Name("A")>>, FALSE),
         Begin, Assign("A", Name("V"))>>)>> :
     init \in {LastOf("S"), FirstOf("S"), Name("N")}, mark \in {"S", "integer"}}

(* Attributes of a constrained subtype, of one declared from it without a  *)
(* constraint and of one of the library level, in an initial value, in an  *)
(* assignment and in the bound of a subtype whose objects are checked.     *)
Attributed(init, high, checked, value) ==
  <<PackageOf(<<SubtypeDecl("Small", "integer", <<Literal(1), Literal(2)>>),
                SubtypeDecl("Alias", "Small", NoBounds),
                SubtypeDecl("L", "integer", <<Literal(1), Function(2)>>),
                BodyDecl(2)>>),
    Body(1, <<InOf("N", "integer")>>,
      <<Integer(<<"A">>, <<init>>),
        SubtypeDecl("S", "integer", <<Literal(0), high>>),
        Object(<<"V">>, "S", NoBounds, checked, FALSE),
        Begin,
        Assign("A", value)>>)>>

AttributePrograms ==
  {Attributed(init, high, <<Name("A")>>, value) :
     init \in {Name("N"), LastOf("Small"), LastOf("Alias"), FirstOf("L")},
     high \in {Name("N"), LastOf("Alias"), LastOf("L"),
               IfExpr(<<Guard(Name("N"), LastOf("Alias"))>>, Literal(2), "integer")},
     value \in {Name("V"), FirstOf("Alias"),
                IfExpr(<<Guard(Name("V"), LastOf("Alias"))>>, Literal(1), "integer")}}

(* Formals of every mode, in an order that differs from the ABI's, a bound *)
(* that is a formal of a constrained subtype, constants that rename a      *)
(* formal, and blocks that declare subtypes of the same name.              *)
Profiles ==
  {<<PackageOf(<<SubtypeDecl("Small", "integer", <<Literal(1), Literal(2)>>),
                 BodyDecl(2)>>),
     Body(1, <<Formal("R", out, "out"), InOf("N", mark),
               Formal("U", "Small", "in_out"), InOf("K", "integer")>>,
       <<Object(<<"C">>, "integer", NoBounds, <<Name("K")>>, TRUE),
         Object(<<"D">>, "integer", NoBounds, <<Function(2)>>, TRUE),
         Begin,
         Declare,
         SubtypeDecl("S1", "integer", <<low, high>>),
         Object(<<"V">>, "S1", NoBounds, <<Name("N")>>, FALSE),
         Begin, Assign("R", Name("V")), EndBlock,
         Declare,
         SubtypeDecl("S2", "integer", <<FirstOf("Small"), Name("U")>>),
         Object(<<"W">>, "integer", <<Name("N"), Name("D")>>, <<Name("U")>>, FALSE),
         Begin, Assign("U", Name("W")), EndBlock>>)>> :
     out \in {"integer", "level"}, mark \in {"integer", "Small"},
     low \in {Literal(0), Name("D"), Name("N")}, high \in {Name("C"), Name("U")}}

(* If expressions: in a bound, an initial value, an actual and an           *)
(* assignment, with side effects in conditions and in values.              *)
IfExpressions ==
  {<<PackageOf(<<BodyDecl(2)>>),
     Body(1, <<InOf("N", "integer")>>,
       <<Integer(<<"A">>, <<Name("N")>>),
         SubtypeDecl("S", "integer", <<low, IfExpr(<<Guard(Name("A"), Update("A"))>>,
                                                   Literal(2), "integer")>>),
         Object(<<"C">>, "S", NoBounds,
                <<IfExpr(<<Guard(cond, Name("N")), Guard(FirstOf("S"), Function(1))>>,
                         LastOf("S"), type)>>, constant),
         BodyDecl(3),
         Begin,
         Call(3, <<IfExpr(<<Guard(Name("C"), Update("A"))>>, Literal(1), type)>>)>>),
     Body(2, <<InOf("M", "S")>>,
       <<Object(<<"V">>, "S", NoBounds, NoInit, FALSE),
         Begin,
         Assign("V", Name("M")),
         Assign("V", IfExpr(<<Guard(Update("A"), Name("V")), Guard(Name("A"), Name("C"))>>,
                            Update("A"), type)),
         Assign("A", Name("V"))>>)>> :
     low \in {Literal(0), IfExpr(<<Guard(Update("A"), Name("N"))>>, Name("A"), "integer")},
     cond \in {Update("A"), LastOf("S")}, type \in {"integer", "S"}, constant \in BOOLEAN}

MCHomonyms == "S1" :> "S" @@ "S2" :> "S"

MCPrograms ==
  UNION {Nested, Recursive, Blocks, Defaults, Aspects, Library, AttributePrograms,
         Profiles, IfExpressions}

(* Objects of a subtype declared from another without a constraint.        *)
RenamedPrograms ==
  {<<PackageOf(<<SubtypeDecl("Small", "integer", <<Literal(1), Literal(2)>>),
                 SubtypeDecl("Alias", "Small", NoBounds), BodyDecl(2)>>),
     Body(1, <<InOf("N", mark)>>,
       <<Object(<<"V">>, "Alias", NoBounds, init, FALSE),
         Begin,
         Assign("V", Name("N")), Assign("V", Literal(2))>>)>> :
     mark \in {"integer", "Small", "level"}, init \in {NoInit, <<Name("N")>>, <<Function(3)>>}}
=============================================================================
