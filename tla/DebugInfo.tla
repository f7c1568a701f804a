------------------------------- MODULE DebugInfo -------------------------------
(***************************************************************************)
(* What a debugger is told of the module Declarations emits, with -g at    *)
(* -O0: a variable for each object, constant and formal, found again in    *)
(* the lowered code by the name the emitter left on an operation, and one  *)
(* for each dynamic bound of a subtype.  Conversions keep the machine      *)
(* value of their operand; calls are lowered to the ABI of CallLowering.   *)
(***************************************************************************)
EXTENDS Elaboration

CONSTANT Homonyms  \* the Ada names of the entities that share theirs

VARIABLE di  \* [phase, entries, bounds, dwarf]

debugVars == <<vars, di>>

Phases == <<"objects", "formals", "bounds", "types", "done">>
Simple(e) == IF e \in DOMAIN Homonyms THEN Homonyms[e] ELSE e

(* A debug variable of a subprogram: its name, the machine value it shows  *)
(* (`part` names one of the values a check computes), its position among   *)
(* the formals (0: none), where in the code it is described, and its type. *)
Entry(name, value, part, arg, at, type) ==
  [name |-> name, value |-> value, part |-> part, arg |-> arg, at |-> at,
   type |-> type]

FormalsOf(s) == prog[s].formals
FormalValue(s, f) == <<s, -f>>

OpAt(x) == OpOf(ir, SsaValue(x[1], x[2], "", FALSE))

(* The machine value of v: conversions only requalify or check it.         *)
MachineValue(v) ==
  LET ids == UNION {{<<s, op.id>> : op \in ToSet(ir.code[s])}
                      \cup {FormalValue(s, f) : f \in DOMAIN FormalsOf(s)} :
                    s \in Bodies(prog)}
      through[x \in ids] ==
        IF x[2] > 0 /\ OpAt(x).kind = "convert"
          THEN LET arg == OpAt(x).args[1] IN through[<<arg.region, arg.id>>]
          ELSE x
  IN  through[<<v.region, v.id>>]

(* A conversion is left with a check unless its target has no range or the *)
(* value is known to lie within it.                                        *)
RangeInfo(t) ==
  IF ir.types[t].info # NoBounds \/ ir.types[t].base = "" THEN ir.types[t].info
  ELSE ir.types[ir.types[t].base].info

KnownWithin(v, lo, hi) ==
  IF v.id > 0 /\ OpOf(ir, v).kind = "constant"
    THEN lo <= OpOf(ir, v).data /\ OpOf(ir, v).data <= hi
    ELSE LET info == RangeInfo(v.type)
         IN  /\ info # NoBounds /\ \A i \in 1..2 : info[i] # <<>>
             /\ lo <= info[1][1] /\ info[2][1] <= hi

LeavesCheck(op) ==
  LET type == ir.types[op.type]
  IN  /\ op.kind = "convert"
      /\ type.base # "" /\ type.info # NoBounds
      /\ Dynamic(ir, op.type)
           \/ ~KnownWithin(op.args[1], type.info[1][1], type.info[2][1])

(* The values a check computes take its location, the value it guards      *)
(* keeps its own.                                                          *)
CheckParts == <<"low", "high", "below", "above", "out of range", "line">>

-----------------------------------------------------------------------------
(* LowerAdaCalls: a writable formal becomes a local object that remembers  *)
(* its position; the others stay arguments, those of the ABI that carry an *)
(* input.                                                                  *)
Writable(s, f) == FormalsOf(s)[f].mode # "in"
HasInput(s, f) ==
  FormalsOf(s)[f].mode # "out" \/ RootOf(ir, FormalsOf(s)[f].mark) = "level"
Inputs(s) == SelectSeq([f \in DOMAIN FormalsOf(s) |-> f], LAMBDA f : HasInput(s, f))

(* The position in the source of the formal that the a-th input carries.   *)
(* Mutant: its position in the ABI.                                        *)
MutantArgNumber(inputs, a) == a
ArgNumber(inputs, a) == inputs[a]

NameOf(v) == Simple(ir.names[v])
NamedOp(s, op) == <<s, op.id>> \in DOMAIN ir.names

LocalFormals(s) ==
  LET writable == SelectSeq([f \in DOMAIN FormalsOf(s) |-> f],
                            LAMBDA f : Writable(s, f))
  IN  [n \in DOMAIN writable |->
         LET f == writable[n]
         IN  Entry(NameOf(FormalValue(s, f)), FormalValue(s, f), "", f, 0,
                   FormalsOf(s)[f].mark)]

(* The names of the objects of a body, which hide those of its values.     *)
AllocaNames(s) ==
  {NameOf(FormalValue(s, f)) : f \in {g \in DOMAIN FormalsOf(s) : Writable(s, g)}}
  \cup {NameOf(<<s, op.id>>) : op \in {o \in ToSet(ir.code[s]) : o.kind = "object"}}

(* The result of an scf.if is an argument of a block: no operation is left *)
(* to be described.                                                        *)
Described(s, at) ==
  LET op == ir.code[s][at]
      of(part) == Entry(NameOf(<<s, op.id>>), <<s, op.id>>, part, 0, at,
                        RootOf(ir, op.type))
  IN  IF ~NamedOp(s, op) \/ op.kind = "if" THEN <<>>
      ELSE IF op.kind = "object" THEN <<[of("") EXCEPT !.type = op.type]>>
      ELSE IF NameOf(<<s, op.id>>) \in AllocaNames(s) THEN <<>>
      ELSE IF op.kind # "convert" THEN <<of("")>>
      ELSE IF LeavesCheck(op) THEN [n \in DOMAIN CheckParts |-> of(CheckParts[n])]
      ELSE <<>>

InPhase(n) == pc = "emitted" /\ di.phase = Phases[n]
Advance(n, d) == di' = [d EXCEPT !.phase = Phases[n + 1]] /\ UNCHANGED vars

(* Passes 2 to 4 of AdaDebugInfo: operations with a name.                  *)
DescribeObjects ==
  /\ InPhase(1)
  /\ Advance(1, [di EXCEPT !.entries =
       [s \in Bodies(prog) |->
          LocalFormals(s)
            \o FlattenSeq([at \in DOMAIN ir.code[s] |-> Described(s, at)])]])

(* Pass 5: the arguments that are formals of mode in.                      *)
DescribeFormals ==
  /\ InPhase(2)
  /\ LET arguments(s) ==
           LET ins == SelectSeq([a \in DOMAIN Inputs(s) |-> a],
                                LAMBDA a : ~Writable(s, Inputs(s)[a]))
               described(a) ==
                 LET f == Inputs(s)[a]
                 IN  Entry(NameOf(FormalValue(s, f)), FormalValue(s, f), "",
                           ArgNumber(Inputs(s), a), 0, FormalsOf(s)[f].mark)
           IN  [n \in DOMAIN ins |-> described(ins[n])]
     IN  Advance(2, [di EXCEPT !.entries =
                       [s \in Bodies(prog) |-> arguments(s) \o @[s]]])

(* Pass 6: the variable of each bound that is not a constant: the first    *)
(* one described in the subprogram with the value of the bound, or a new   *)
(* one, named after the subtype.                                           *)
DynamicBound(op, i) ==
  LET m == MachineValue(op.args[i])
  IN  m[2] < 0 \/ OpAt(m).kind # "constant"

BoundName(t, i) == Simple(t) \o (IF i = 1 THEN "'first" ELSE "'last")

DescribeBound(d, s, at, i) ==
  LET op == ir.code[s][at]
      value == MachineValue(op.args[i])
      carriers == SelectSeq(d.entries[s], LAMBDA e : e.value = value)
      name == IF carriers # <<>> THEN carriers[1].name ELSE BoundName(op.type, i)
      after == SelectSeq(d.entries[s], LAMBDA e : e.at <= at)
      new == Entry(name, value, "", 0, at, RootOf(ir, op.type))
      named == [d EXCEPT !.bounds = (<<op.type, i>> :> name) @@ @]
  IN  IF ~DynamicBound(op, i) THEN d
      ELSE IF carriers # <<>> THEN named
      ELSE [named EXCEPT !.entries[s] = InsertAt(@, Len(after) + 1, new)]

DescribeBounds ==
  /\ InPhase(3)
  /\ LET ranges(s) == SelectSeq([at \in DOMAIN ir.code[s] |-> at],
                                LAMBDA at : ir.code[s][at].kind = "range")
         both(d, s, at) == DescribeBound(DescribeBound(d, s, at, 1), s, at, 2)
     IN  Advance(3, FoldLeft(LAMBDA d, s :
                               FoldLeft(LAMBDA c, at : both(c, s, at), d, ranges(s)),
                             di, [s \in Bodies(prog) |-> s]))

(* buildSubrangeDITypes: the variable of a bound is looked up by its name  *)
(* in the subprogram of the subtype, where the last of that name is found; *)
(* then every variable of a constrained subtype is replaced by one of its  *)
(* subrange type.                                                          *)
(* Mutant: the subprogram around it.                                       *)
MutantScopeOf(t) ==
  prog[CHOOSE s \in Bodies(prog) : \E op \in ToSet(ir.code[s]) :
         op.kind = "range" /\ op.type = t].outer
ScopeOf(t) == CHOOSE s \in Bodies(prog) : \E op \in ToSet(ir.code[s]) :
                op.kind = "range" /\ op.type = t
Placeholder(t) == t # "" /\ ir.types[t].base # "" /\ ir.types[t].info # NoBounds
Retyped(e) ==
  IF Placeholder(e.type) THEN [e EXCEPT !.type = "subrange " \o @] ELSE e

BuildSubrangeTypes ==
  /\ InPhase(4)
  /\ LET found(b) == SelectSeq(di.entries[ScopeOf(b[1])],
                               LAMBDA e : e.name = di.bounds[b])
     IN  Advance(4, [di EXCEPT
           !.dwarf = [b \in {c \in DOMAIN di.bounds : found(c) # <<>>} |-> Last(found(b))],
           !.entries = [s \in Bodies(prog) |->
                          [n \in DOMAIN @[s] |-> Retyped(@[s][n])]]])

-----------------------------------------------------------------------------
DebugInit ==
  /\ RunInit
  /\ di = [phase |-> Phases[1], entries |-> <<>>, bounds |-> <<>>, dwarf |-> <<>>]

(* The program runs once it is compiled.                                   *)
DebugNext ==
  \/ RunNext /\ (pc = "emitted" => di.phase = Phases[5]) /\ UNCHANGED di
  \/ DescribeObjects \/ DescribeFormals \/ DescribeBounds \/ BuildSubrangeTypes

DebugSpec == DebugInit /\ [][DebugNext]_debugVars

-----------------------------------------------------------------------------
(* Every formal is described once, with its position in the source, by a   *)
(* variable that shows it: whatever its mode, its place in the ABI and the *)
(* constants that are its value under a name of their own.                 *)
FormalsDescribed ==
  di.phase = Phases[5] =>
    \A s \in Bodies(prog) : \A f \in DOMAIN FormalsOf(s) :
      LET its(e) == e.arg = f \/ e.value = FormalValue(s, f)
          found == SelectSeq(di.entries[s], its)
      IN  /\ Len(found) = 1
          /\ found[1].arg = f /\ found[1].value = FormalValue(s, f)

(* Every dynamic bound of a subtype refers to a variable of the subprogram *)
(* that declares it and shows the bound, except one whose name another     *)
(* variable of that subprogram has and one that is a formal of a           *)
(* constrained subtype, whose variable is replaced after the look-up.      *)
SharesName(s, name) ==
  \E e, d \in ToSet(di.entries[s]) :
    e.name = name /\ d.name = name /\ <<e.value, e.part>> # <<d.value, d.part>>
ConstrainedFormal(v) ==
  v[2] < 0 /\ Placeholder(FormalsOf(v[1])[-v[2]].mark)

BoundsDescribed ==
  di.phase = Phases[5] =>
    \A s \in Bodies(prog) : \A op \in ToSet(ir.code[s]) : \A i \in 1..2 :
      op.kind = "range" /\ DynamicBound(op, i) =>
        \/ /\ <<op.type, i>> \in DOMAIN di.dwarf
           /\ LET e == di.dwarf[<<op.type, i>>]
              IN  e \in ToSet(di.entries[s]) /\ e.value = MachineValue(op.args[i])
        \/ SharesName(s, di.bounds[<<op.type, i>>])
        \/ ConstrainedFormal(MachineValue(op.args[i]))

(* A variable named as an object, a constant or a formal that is visible   *)
(* in the subprogram shows its value.                                      *)
Visible(s, name) ==
  {x \in DOMAIN ir.denotes : Simple(x) = name /\ Owner(prog, x) \in Enclosing(prog, s)}

Shows(e, x) ==
  LET v == MachineValue(ir.denotes[x])
      op == OpAt(e.value)
  IN  /\ e.part = ""
      /\ \/ e.value = v
         \/ e.value[2] > 0 /\ op.kind = "read" /\ MachineValue(op.args[1]) = v

DebuggerTruthful ==
  di.phase = Phases[5] =>
    \A s \in Bodies(prog) : \A e \in ToSet(di.entries[s]) :
      Visible(s, e.name) # {} => \E x \in Visible(s, e.name) : Shows(e, x)
=============================================================================
