---------------------------- MODULE MCScalarTypes -----------------------------
(***************************************************************************)
(* Scalar types of two, three and four bits, each with its subtypes:       *)
(* stand-ins for the 8 to 128 bits of the machine types.                   *)
(***************************************************************************)
EXTENDS ScalarTypes

MCWidths == {2, 3, 4}

RootType(r) == [root |-> r, own |-> "none", lo |-> r.lo, hi |-> r.hi]
Sub(r, own, lo, hi) == [root |-> r, own |-> own, lo |-> lo, hi |-> hi]

MCBoolean == RootType(EnumRoot("boolean", {0, 1}))

Short == SignedRoot("short", -2, 1)
Medium == SignedRoot("medium", -4, 3)
Long == SignedRoot("long", -8, 7)
Mod3 == ModularRoot("mod3", 3)       \* odd, in the narrowest word
Mod4 == ModularRoot("mod4", 4)       \* the word itself
Mod8 == ModularRoot("mod8", 8)
Mod2 == ModularRoot("mod2", 2)       \* a power of two below the word
Mod5 == ModularRoot("mod5", 5)
Mod9 == ModularRoot("mod9", 9)

(* A value of a type has a word of the type's width, from which the type's *)
(* order reads it back, and no narrower machine integer would do.          *)
Fits(r, wide) == r.lo..r.hi \subseteq IF wide THEN Word(r.width) ELSE SignedRange(r.width)

ASSUME RepresentationHolds ==
  /\ \A lo, hi \in SignedRange(4) :
       LET r == SignedRoot("t", lo, hi)
       IN  /\ Fits(r, FALSE)
           /\ lo <= hi => \A w \in MCWidths : w < r.width => ~Fits([r EXCEPT !.width = w], FALSE)
  /\ \A m \in 1..16 :
       LET r == ModularRoot("t", m)
       IN  /\ Fits(r, TRUE)
           /\ \A w \in MCWidths : w < r.width => ~Fits([r EXCEPT !.width = w], TRUE)
  /\ \A lo, hi \in SignedRange(4) :
       lo <= hi => LET r == EnumRoot("t", lo..hi) IN Fits(r, lo >= 0)

MCRoots == {Short, Medium, Long, Mod3, Mod4, Mod8, Mod2, Mod5, Mod9}

MCTypes ==
  {RootType(r) : r \in MCRoots} \cup
  {MCBoolean, RootType(EnumRoot("color", 0..2)), RootType(EnumRoot("sign", -1..1)),
   Sub(Short, "static", 0, 1), Sub(Medium, "static", 1, 3),
   Sub(Medium, "static", -3, 1), Sub(Medium, "dynamic", -1, 2),
   Sub(Medium, "dynamic", 2, 1), Sub(Long, "static", -8, -6),
   Sub(Long, "dynamic", 1, 7), Sub(Mod4, "static", 2, 3),
   Sub(Mod5, "static", 1, 3), Sub(Mod5, "dynamic", 2, 4)}
=============================================================================
