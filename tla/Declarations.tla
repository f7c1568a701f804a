----------------------------- MODULE Declarations ------------------------------
(***************************************************************************)
(* MLIRGen over declarations, blocks, assignments and calls: the items of  *)
(* a package in source order, each emitting operations into the region of  *)
(* its body.  Symbols (subprograms and types) go into an ada.decls that    *)
(* stays at the end of the region while its declarative part lasts;        *)
(* everything else is inserted just before it.  Statements that branch are *)
(* StatementCFG's: here a region is one block.                             *)
(***************************************************************************)
EXTENDS Bodies, TLC

VARIABLES
  prog,  \* the program
  pc,    \* "emit", "refused" or "emitted"
  path,  \* the bodies being emitted, outermost first: [subp, at]
  ir     \* the module and the tables of the emitter

emission == <<prog, pc, path, ir>>

(* A value is an operation of a region or one of its formals (id < 0); ref *)
(* says that it designates an object.                                      *)
SsaValue(region, id, type, ref) ==
  [region |-> region, id |-> id, type |-> type, ref |-> ref]
NoValue == SsaValue(0, 0, "", FALSE)
SameValue(v, w) == v.region = w.region /\ v.id = w.id

Op(kind, type, args, data) ==
  [kind |-> kind, type |-> type, args |-> args, data |-> data]

(* ada.type: the root a subtype is of (none for a root) and its own range, *)
(* if it has one; a bound is recorded when it is static.                   *)
TypeInfo(base, info) == [base |-> base, info |-> info]
RootTypes ==
  [r \in Roots |->
     TypeInfo("", IF r = "color" THEN NoBounds ELSE <<<<0>>, <<MaxValue>>>>)]
RootOf(b, t) == IF b.types[t].base = "" THEN t ELSE b.types[t].base
Dynamic(b, t) ==
  b.types[t].info # NoBounds /\ \E i \in 1..2 : b.types[t].info[i] = <<>>

(* subtypeInfo: only the constraint of the declaration itself, and only of *)
(* an integer type.                                                        *)
SubtypeInfo(b, root, bounds) ==
  IF bounds = NoBounds \/ b.types[root].info = NoBounds
    THEN NoBounds
    ELSE [i \in 1..2 |-> StaticValue(prog, bounds[i])]

WithType(b, name, mark, bounds) ==
  [b EXCEPT !.types =
     (name :> TypeInfo(RootOf(b, mark), SubtypeInfo(b, RootOf(b, mark), bounds)))
       @@ @]

-----------------------------------------------------------------------------
(* The builder: an operation goes before the open ada.decls of its region. *)
(* Mutant: an operation goes to the end of the region.                     *)
MutantInsert(b, s, op) == [b EXCEPT !.code[s] = Append(@, op)]
Insert(b, s, op) ==
  LET at == IF s \in b.open THEN Len(b.code[s]) ELSE Len(b.code[s]) + 1
  IN  [b EXCEPT !.code[s] = InsertAt(@, at, op)]

(* `item` remembers the source item an operation comes from, `under` the   *)
(* branches of scf.if it is in: each the test and its outcome.             *)
Emit(b, s, item, op) ==
  LET id == Len(b.code[s]) + 1
      full == op @@ [id |-> id, item |-> item, under |-> b.under]
  IN  [b |-> Insert(b, s, full),
       v |-> SsaValue(s, id, op.type, op.kind = "object")]

Refuse(b) == [b |-> [b EXCEPT !.ok = FALSE], v |-> NoValue]

OpOf(b, v) == b.code[v.region][CHOOSE k \in 1..Len(b.code[v.region]) :
                                 b.code[v.region][k].id = v.id]

(* setAdaNameLoc replaces the name of a value, and so of whatever the      *)
(* value was before.                                                       *)
Named(r, e) == [r EXCEPT !.b.names = (<<r.v.region, r.v.id>> :> e) @@ @]

(* readObject: the nominal type when the object is known to be             *)
(* initialised, its root otherwise.  A write counts in its own block only, *)
(* so not in a branch of an scf.if after it; objects are no operands of    *)
(* calls here, formals of calls being of mode in.                          *)
Initialised(b, s, obj) ==
  \/ obj.id < 0 /\ prog[obj.region].formals[-obj.id].mode = "in_out"
  \/ /\ obj.id > 0
     /\ \E init \in ToSet(OpOf(b, obj).args) : init.type = obj.type
  \/ \E op \in ToSet(b.code[s]) :
       op.kind = "write" /\ op.under = b.under /\ SameValue(op.args[2], obj)

ReadObject(b, s, k, obj, e) ==
  LET type == IF Initialised(b, s, obj) THEN obj.type ELSE RootOf(b, obj.type)
  IN  Named(Emit(b, s, k, Op("read", type, <<obj>>, e)), e)

(* convertImplicitly, emitConversion: a dynamic subtype takes the          *)
(* descriptor elaborated at its declaration.                               *)
Convert(r, s, k, t) ==
  IF ~r.b.ok \/ r.v.type = t THEN r
  ELSE IF ~Dynamic(r.b, t) THEN Emit(r.b, s, k, Op("convert", t, <<r.v>>, ""))
  ELSE IF t \notin DOMAIN r.b.ranges THEN Refuse(r.b)
  ELSE Emit(r.b, s, k, Op("convert", t, <<r.v, r.b.ranges[t]>>, ""))

(* 'First and 'Last: a static bound is a constant of the root, a dynamic   *)
(* one is read from the descriptor of the subtype.                         *)
Attribute(b, s, k, t, i) ==
  LET info == b.types[t].info
  IN  IF info = NoBounds THEN Refuse(b)
      ELSE IF info[i] # <<>>
        THEN Emit(b, s, k, Op("constant", RootOf(b, t), <<>>, info[i][1]))
      ELSE IF t \notin DOMAIN b.ranges THEN Refuse(b)
      ELSE Convert(Emit(b, s, k, Op("attr", t, <<b.ranges[t]>>, i)),
                   s, k, RootOf(b, t))

(* visit_expr: a literal is a constant of the root of the type expected.   *)
EvaluateAtom(b, s, k, e, expected) ==
  CASE e.kind = "literal" ->
         Emit(b, s, k, Op("constant", RootOf(b, expected), <<>>, e.value))
    [] e.kind = "function" -> Emit(b, s, k, Op("result", "integer", <<>>, e.value))
    [] e.kind = "update" ->
         Emit(b, s, k, Op("update", RootOf(b, b.denotes[e.entity].type),
                          <<b.denotes[e.entity]>>, e.entity))
    [] e.kind = "name" ->
         LET v == b.denotes[e.entity]
         IN  IF v.ref THEN ReadObject(b, s, k, v, e.entity) ELSE [b |-> b, v |-> v]
    [] e.kind = "first" -> Attribute(b, s, k, e.entity, 1)
    [] e.kind = "last" -> Attribute(b, s, k, e.entity, 2)

(* emitIfExprChain: each guard is tested in the else branch of the one     *)
(* before, and each value converted in its own branch; the scf.ifs then    *)
(* yield one of two values, the innermost first.                           *)
Branch(b, test, outcome) ==
  [b EXCEPT !.under = Append(@, [test |-> test.id, outcome |-> outcome])]
Outside(b) == [b EXCEPT !.under = Front(@)]

AtomTo(b, s, k, e, t) == Convert(EvaluateAtom(b, s, k, e, t), s, k, t)

Condition(r, s, k) == Emit(r.b, s, k, Op("test", "", <<r.v>>, ""))
Chain(r, ifs, test) ==
  [b |-> Branch(Outside(r.b), test, FALSE), ifs |-> Append(ifs, <<test, r.v>>)]
Guarded(r, ifs, s, k, g, t) ==
  Chain(AtomTo(Branch(r.b, r.v, TRUE), s, k, g.value, t), ifs, r.v)
Guards(b, s, k, guards, t) ==
  FoldLeft(LAMBDA c, g :
             IF c.b.ok
               THEN Guarded(Condition(EvaluateAtom(c.b, s, k, g.cond, "integer"), s, k),
                            c.ifs, s, k, g, t)
               ELSE c,
           [b |-> b, ifs |-> <<>>], guards)

Yield(r, s, k, ifs, t) ==
  FoldRight(LAMBDA i, c :
              IF c.b.ok THEN Emit(Outside(c.b), s, k, Op("if", t, Append(i, c.v), "")) ELSE c,
            ifs, r)
Otherwise(c, s, k, e) ==
  IF ~c.b.ok THEN [b |-> c.b, v |-> NoValue]
  ELSE Yield(AtomTo(c.b, s, k, e.otherwise, e.type), s, k, c.ifs, e.type)

Evaluate(b, s, k, e, expected) ==
  IF e.kind = "if" THEN Otherwise(Guards(b, s, k, e.guards, e.type), s, k, e)
  ELSE EvaluateAtom(b, s, k, e, expected)

EvaluateTo(b, s, k, e, t) == Convert(Evaluate(b, s, k, e, t), s, k, t)

(* Expressions in turn, up to the first that cannot be emitted.            *)
Collect(vals, r) == [b |-> r.b, vals |-> Append(vals, r.v)]
EvaluateAll(b, s, k, exprs, types) ==
  FoldLeft(LAMBDA r, n : IF r.b.ok
                           THEN Collect(r.vals, EvaluateTo(r.b, s, k, exprs[n], types[n]))
                           ELSE r,
           [b |-> b, vals |-> <<>>], [n \in DOMAIN exprs |-> n])

(* The operation that takes the values collected.                          *)
EmitWith(r, s, k, op) ==
  IF r.b.ok THEN Emit(r.b, s, k, [op EXCEPT !.args = r.vals \o @])
  ELSE [b |-> r.b, v |-> NoValue]

(* elaborateDynamicRange: the bounds of a dynamic subtype, each evaluated  *)
(* once, low bound first, and converted to the root; one that is static is *)
(* a constant, whatever its expression.  A bound that cannot be emitted    *)
(* leaves the subtype without a descriptor; in a branch of an scf.if it    *)
(* leaves the branch without its value too, and the module, refused here   *)
(* at once, does not pass its verification.                                *)
BoundExpr(e) ==
  IF Static(prog, e) THEN Literal(StaticValue(prog, e)[1]) ELSE e
EvaluateBound(r, s, k, e, root) ==
  Collect(r.vals, EvaluateTo([r.b EXCEPT !.ok = TRUE], s, k, BoundExpr(e), root))
EvaluateBounds(b, s, k, bounds, root) ==
  EvaluateBound(EvaluateBound([b |-> b, vals |-> <<>>], s, k, bounds[1], root),
                s, k, bounds[2], root)
Describe(r, t) == [r.b EXCEPT !.ranges = (t :> r.v) @@ @]
Descriptor(r, s, k, t, bounds) ==
  IF NoValue \in ToSet(r.vals)
    THEN [r.b EXCEPT !.ok = \A i \in 1..2 : r.vals[i] = NoValue => bounds[i].kind # "if"]
  ELSE Describe(EmitWith(r, s, k, Op("range", t, <<>>, bounds)), t)

(* Mutant: a subtype with one static bound gets no descriptor.             *)
MutantElaborateRange(b, s, k, t, bounds) ==
  IF ~Dynamic(b, t) \/ Static(prog, bounds[1]) \/ Static(prog, bounds[2]) THEN b
  ELSE Descriptor(EvaluateBounds(b, s, k, bounds, RootOf(b, t)), s, k, t, bounds)
ElaborateRange(b, s, k, t, bounds) ==
  IF ~Dynamic(b, t) THEN b
  ELSE Descriptor(EvaluateBounds(b, s, k, bounds, RootOf(b, t)), s, k, t, bounds)

-----------------------------------------------------------------------------
Top == path[Len(path)]
Here == Top.subp
At == Top.at
Current == Item(prog, Here, At)
AtLibraryLevel == Here = Package
Advanced == [path EXCEPT ![Len(path)].at = @ + 1]

AtItem(kind) ==
  /\ pc = "emit"
  /\ At \in 1..Len(prog[Here].items)
  /\ Current.kind = kind

Commit(b) ==
  /\ ir' = b
  /\ pc' = IF b.ok THEN "emit" ELSE "refused"
  /\ path' = Advanced
  /\ UNCHANGED prog

(* mlirGenDeclarativePart: an ada.decls only for symbols, among them the   *)
(* anonymous subtype of an object with a constraint.                       *)
HasSymbols(s, k) ==
  \E i \in DeclarativePart(prog, s, k) :
    \/ i.kind \in {"subtype", "array", "body"}
    \/ i.kind = "object" /\ i.bounds # NoBounds

OpenPart(b, s, k) ==
  IF HasSymbols(s, k)
    THEN [Emit(b, s, 0, Op("decls", "", <<>>, k)).b EXCEPT !.open = @ \cup {s}]
    ELSE b

NoModule(p) ==
  [code |-> [s \in Bodies(p) |-> <<>>], denotes |-> <<>>, ranges |-> <<>>,
   types |-> RootTypes, names |-> <<>>, open |-> {}, under |-> <<>>,
   home |-> [s \in Bodies(p) |-> 0], ok |-> TRUE]

Init ==
  /\ prog \in Programs
  /\ pc = "emit"
  /\ path = <<[subp |-> Package, at |-> 1]>>
  /\ ir = NoModule(prog)

(* mlirGenSubtypeDecl: at library level the bounds are not evaluated.      *)
DeclareSubtype ==
  /\ AtItem("subtype")
  /\ LET b == WithType(ir, Current.name, Current.mark, Current.bounds)
     IN  Commit(IF AtLibraryLevel THEN b
                ELSE ElaborateRange(b, Here, At, Current.name, Current.bounds))

Anonymous(e) == "__anonymous_" \o e

(* mlirGenArrayTypeDecl: the index constraint is an anonymous subtype.     *)
DeclareArray ==
  /\ AtItem("array")
  /\ LET b == WithType(ir, Anonymous(Current.name), Current.mark, Current.bounds)
     IN  Commit([b EXCEPT !.types =
                   (Current.name :> TypeInfo("", NoBounds)) @@ @])

(* mlirGenObjectDecl, for one of the names: its anonymous subtype, its     *)
(* initial value (explicit, or the Default_Value of its type, which its    *)
(* subtypes have too), converted to its subtype; a constant is that value, *)
(* a variable an object.                                                   *)
(* Mutant: the objects of a subtype have no default value.                 *)
MutantInitialValue(b, i) ==
  IF i.init # NoInit \/ i.constant \/ i.mark # "level"
    THEN i.init ELSE <<Literal(DefaultValue)>>
InitialValue(b, i) ==
  IF i.init # NoInit \/ i.constant \/ RootOf(b, i.mark) # "level"
    THEN i.init ELSE <<Literal(DefaultValue)>>

WithConstraint(b, s, k, i, e) ==
  IF i.bounds = NoBounds THEN b
  ELSE ElaborateRange(WithType(b, Anonymous(e), i.mark, i.bounds),
                      s, k, Anonymous(e), i.bounds)

Denote(r, e) ==
  IF r.b.ok THEN [Named(r, e).b EXCEPT !.denotes = (e :> r.v) @@ @] ELSE r.b

DeclareName(b, s, k, i, e) ==
  LET type == IF i.bounds = NoBounds THEN i.mark ELSE Anonymous(e)
      declared(r) == IF i.constant THEN [b |-> r.b, v |-> Last(r.vals)]
                     ELSE EmitWith(r, s, k, Op("object", type, <<>>, e))
  IN  Denote(declared(EvaluateAll(WithConstraint(b, s, k, i, e), s, k,
                                  InitialValue(b, i), <<type>>)), e)

DeclareObject ==
  /\ AtItem("object")
  /\ Commit(IF AtLibraryLevel THEN Refuse(ir).b
            ELSE FoldLeft(LAMBDA b, e : IF b.ok THEN DeclareName(b, Here, At, Current, e)
                                        ELSE b,
                          ir, Current.names))

(* mlirGenSubpBody: the formals, then the items of the body.               *)
EnterBody ==
  /\ AtItem("body")
  /\ LET s == Current.subp
         formals == prog[s].formals
         value(f) == SsaValue(s, -f, formals[f].mark, formals[f].mode # "in")
         b == [ir EXCEPT
                 !.denotes = [e \in FormalNames(prog, s) |->
                                value(CHOOSE f \in DOMAIN formals :
                                        formals[f].name = e)] @@ @,
                 !.names = [v \in {<<s, -f>> : f \in DOMAIN formals} |->
                              formals[-v[2]].name] @@ @,
                 !.home[s] = IF AtLibraryLevel THEN 0
                             ELSE ir.code[Here][Len(ir.code[Here])].id]
     IN  ir' = OpenPart(b, s, 1)
  /\ path' = Append(Advanced, [subp |-> Current.subp, at |-> 1])
  /\ UNCHANGED <<prog, pc>>

(* The end of a declarative part: code goes after its ada.decls.           *)
EndDeclarations ==
  /\ AtItem("begin")
  /\ Commit([ir EXCEPT !.open = @ \ {Here}])

LeaveBody ==
  /\ pc = "emit"
  /\ At = Len(prog[Here].items) + 1
  /\ IF Len(path) = 1
       THEN pc' = "emitted" /\ UNCHANGED path
       ELSE path' = Front(path) /\ UNCHANGED pc
  /\ UNCHANGED <<prog, ir>>

(* mlirGenBlock dissolves the block into the region of its body.           *)
EnterBlock == AtItem("declare") /\ Commit(OpenPart(ir, Here, At + 1))
LeaveBlock == AtItem("end") /\ Commit(ir)

(* mlirGenAssign, mlirGenCallExpr for formals of mode in.                  *)
EmitAssign ==
  /\ AtItem("assign")
  /\ LET obj == ir.denotes[Current.target]
     IN  Commit(EmitWith(EvaluateAll(ir, Here, At, <<Current.value>>, <<obj.type>>),
                         Here, At, Op("write", "", <<obj>>, "")).b)

EmitCall ==
  /\ AtItem("call")
  /\ LET formals == prog[Current.subp].formals
         marks == [f \in DOMAIN formals |-> formals[f].mark]
     IN  Commit(EmitWith(EvaluateAll(ir, Here, At, Current.actuals, marks),
                         Here, At, Op("call", "", <<>>, Current.subp)).b)

Next ==
  \/ DeclareSubtype \/ DeclareArray \/ DeclareObject
  \/ EnterBody \/ EndDeclarations \/ LeaveBody
  \/ EnterBlock \/ LeaveBlock
  \/ EmitAssign \/ EmitCall

-----------------------------------------------------------------------------
(* An operand is defined before its use: earlier in the same region, or,   *)
(* for the region of a nested body, before the ada.decls that holds the    *)
(* body, wherever that region is nested in turn.  What is defined in a     *)
(* branch of an scf.if is used in that branch, or yielded by it.           *)
PositionOf(s, id) == CHOOSE k \in 1..Len(ir.code[s]) : ir.code[s][k].id = id

Sees(op, n) ==
  IF op.kind = "if" /\ n > 1
    THEN Append(op.under, [test |-> op.args[1].id, outcome |-> n = 2])
    ELSE op.under

InBranch(v, s, under) ==
  v.id < 0 \/ IsPrefix(OpOf(ir, v).under, IF v.region = s THEN under ELSE <<>>)

Dominates(v, s, at) ==
  LET visible[t \in Bodies(prog)] ==  \* the position in t code at s sees up to
        IF t = s THEN at
        ELSE LET inner == CHOOSE c \in Enclosing(prog, s) : prog[c].outer = t
             IN  PositionOf(t, ir.home[inner])
  IN  /\ v.region \in Enclosing(prog, s)
      /\ v.id < 0 \/ PositionOf(v.region, v.id) < visible[v.region]

ValuesDominate ==
  pc # "refused" =>
    \A s \in Bodies(prog) : \A k \in 1..Len(ir.code[s]) :
      \A n \in DOMAIN ir.code[s][k].args :
        LET v == ir.code[s][k].args[n]
        IN  Dominates(v, s, k) /\ InBranch(v, s, Sees(ir.code[s][k], n))

-----------------------------------------------------------------------------
(* What MLIRGen does not support, said of the source: objects at library   *)
(* level; the bounds of a subtype without a constraint of its own (of an   *)
(* enumeration, or a renaming); and what needs a dynamic bound that was    *)
(* not evaluated, the subtype being of the library level or one of its     *)
(* bounds needing in turn what is not supported.                           *)
Atoms(e) ==
  IF e.kind # "if" THEN {e}
  ELSE {e.otherwise} \cup UNION {{g.cond, g.value} : g \in ToSet(e.guards)}
Attributes(e) == {a \in Atoms(e) : a.kind \in {"first", "last"}}

OwnBounds(e) ==
  IF e \in Roots \/ IsFormal(prog, e) \/ DeclaringItem(prog, e).kind = "array"
    THEN NoBounds ELSE DeclaringItem(prog, e).bounds
Unconstrained(t) == IF t \in Roots THEN t = "color" ELSE OwnBounds(t) = NoBounds
BoundOf(a) == OwnBounds(a.entity)[IF a.kind = "first" THEN 1 ELSE 2]

MissesBound(e, unevaluated) ==
  \E a \in Attributes(e) :
    \/ Unconstrained(a.entity)
    \/ a.entity \in unevaluated /\ ~Static(prog, BoundOf(a))

(* The subtypes, named or of an object, with dynamic bounds, and those     *)
(* whose bounds are not evaluated.                                         *)
Constraints ==
  {e \in UNION {Declared(i) : i \in Items(prog)} :
     \E bound \in ToSet(OwnBounds(e)) : ~Static(prog, bound)}
Unevaluated ==
  LET lost[n \in 0..Cardinality(Constraints)] ==
        IF n = 0 THEN {e \in Constraints : Owner(prog, e) = Package}
        ELSE lost[n - 1] \cup
             {e \in Constraints : \E bound \in ToSet(OwnBounds(e)) :
                ~Static(prog, bound) /\ MissesBound(bound, lost[n - 1])}
  IN  lost[Cardinality(Constraints)]

(* The expressions an item evaluates, each with the subtype, or the object *)
(* with a constraint of its own, whose range its value is checked against; *)
(* and its if expressions that are bounds.                                 *)
SubtypeOf(e) == IF OwnBounds(e) # NoBounds THEN e ELSE Mark(prog, e)
Uses(i) ==
  CASE i.kind = "object" -> ToSet(i.init) \X {SubtypeOf(e) : e \in ToSet(i.names)}
    [] i.kind = "assign" -> {<<i.value, SubtypeOf(i.target)>>}
    [] i.kind = "call" ->
         {<<i.actuals[f], prog[i.subp].formals[f].mark>> : f \in DOMAIN i.actuals}
    [] OTHER -> {}
Branching(s, i) ==
  IF s # Package /\ i.kind \in {"subtype", "object"}
    THEN {e \in ToSet(i.bounds) : e.kind = "if"} ELSE {}
Evaluated(s, i) == Branching(s, i) \cup {u[1] : u \in Uses(i)}
Checks(s, i) ==
  {u[2] : u \in Uses(i)} \cup {e.type : e \in {x \in Evaluated(s, i) : x.kind = "if"}}

Unsupported(s, i) ==
  \/ s = Package /\ i.kind = "object"
  \/ \E e \in Evaluated(s, i) : MissesBound(e, Unevaluated)

(* The item MLIRGen gives up at is one it does not support or one with a   *)
(* check against bounds that were not evaluated, and a program it goes     *)
(* through has no item it does not support.  What makes this delicate is   *)
(* that a bound that cannot be emitted is no failure: it leaves its        *)
(* subtype without a descriptor, and emission goes on, to the first check  *)
(* or attribute that needs one.                                            *)
RefusalJustified ==
  /\ pc = "refused" =>
       LET i == Item(prog, Here, At - 1)
       IN  Unsupported(Here, i) \/ Checks(Here, i) \cap Unevaluated # {}
  /\ pc = "emitted" =>
       \A s \in Bodies(prog) : \A i \in ToSet(prog[s].items) : ~Unsupported(s, i)
=============================================================================
