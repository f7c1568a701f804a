---------------------------- MODULE AdaElaboration -----------------------------
(***************************************************************************)
(* What Ada promises of declarations and statements (RM 3.2.2, 3.3.1, 5.2, *)
(* 6.4.1): the items of a body take effect one after the other; the bounds *)
(* of a subtype are evaluated when it is declared, once, in either order;  *)
(* each name of an object declaration is declared by itself, its           *)
(* constraint before its initial value; every value assigned is checked    *)
(* against the nominal subtype, and a failed check stops the program.      *)
(***************************************************************************)
EXTENDS Bodies

VARIABLES
  prog,    \* the program
  stack,   \* activations: [subp, at, up, holds, bounds], the package first
  outcome  \* "running" or "raised"

vars == <<prog, stack, outcome>>

(* up: the activation an up-level name refers to, per enclosing body.      *)
PackageFrame(p) ==
  [subp |-> Package, at |-> Len(p[Package].items) + 1, up |-> <<1>>,
   holds |-> <<>>, bounds |-> PackageRanges(p)]

Frame(st, d, e) == st[d].up[Owner(prog, e)]

TypeRange(st, d, mark) ==
  LET t == Constrained(prog, mark)
  IN  IF t \in Roots THEN <<0, MaxValue>> ELSE st[Frame(st, d, t)].bounds[t]

ObjectRange(st, d, e) ==
  IF ~IsFormal(prog, e) /\ DeclaringItem(prog, e).bounds # NoBounds
    THEN st[Frame(st, d, e)].bounds[e]
    ELSE TypeRange(st, d, Mark(prog, e))

Extend(f, x, v) == [y \in DOMAIN f \cup {x} |-> IF y = x THEN v ELSE f[y]]
Hold(st, d, e, v) == [st EXCEPT ![Frame(st, d, e)].holds = Extend(@, e, v)]
In(v, range) == range[1] <= v /\ v <= range[2]

(* The value of an expression and the activations after its evaluation.    *)
EvaluateAtom(st, d, e) ==
  LET held == st[Frame(st, d, e.entity)].holds[e.entity]
      next == (held + 1) % (MaxValue + 1)
  IN  CASE e.kind \in {"literal", "function"} -> [st |-> st, v |-> e.value]
        [] e.kind = "name" -> [st |-> st, v |-> held]
        [] e.kind = "update" -> [st |-> Hold(st, d, e.entity, next), v |-> next]
        [] e.kind = "first" -> [st |-> st, v |-> TypeRange(st, d, e.entity)[1]]
        [] e.kind = "last" -> [st |-> st, v |-> TypeRange(st, d, e.entity)[2]]

(* The conditions are tested in turn, up to the first that is true.        *)
Tested(r, g, d) ==
  IF r.chosen # <<>> THEN r
  ELSE LET c == EvaluateAtom(r.st, d, g.cond)
       IN  [st |-> c.st, chosen |-> IF c.v # 0 THEN <<g.value>> ELSE <<>>]

Selected(r, otherwise, d) ==
  EvaluateAtom(r.st, d, Head(Append(r.chosen, otherwise)))

Evaluate(st, d, e) ==
  IF e.kind # "if" THEN EvaluateAtom(st, d, e)
  ELSE Selected(FoldLeft(LAMBDA r, g : Tested(r, g, d),
                         [st |-> st, chosen |-> <<>>], e.guards),
                e.otherwise, d)

Done(st) == [st |-> st, ok |-> TRUE]
Raised(st) == [st |-> st, ok |-> FALSE]

(* The constraint of a type or an object, its bounds in either order.      *)
Elaborated(st, d, name, bounds) ==
  IF bounds = NoBounds THEN {st}
  ELSE {LET one == Evaluate(st, d, bounds[n])
            other == Evaluate(one.st, d, bounds[3 - n])
            range == IF n = 1 THEN <<one.v, other.v>> ELSE <<other.v, one.v>>
        IN  [other.st EXCEPT ![d].bounds = Extend(@, name, range)] : n \in 1..2}

Assigned(st, d, e, value, range) ==
  LET r == Evaluate(st, d, value)
  IN  IF In(r.v, range) THEN Done(Hold(r.st, d, e, r.v)) ELSE Raised(r.st)

(* The object exists, without a value, before its initial value is given.  *)
NameDeclared(st, d, i, e) ==
  {LET declared == Hold(s, d, e, Unset)
       range == IF i.bounds = NoBounds THEN TypeRange(s, d, i.mark)
                ELSE s[d].bounds[e]
   IN  IF i.init # NoInit
         THEN Assigned(declared, d, e, i.init[1], range)
       ELSE IF TypeOf(prog, i.mark) = "level"
         THEN Assigned(declared, d, e, Literal(DefaultValue), range)
       ELSE Done(declared) :
     s \in Elaborated(st, d, e, i.bounds)}

ObjectDeclared(st, d, i) ==
  FoldLeft(LAMBDA S, e : UNION {IF o.ok THEN NameDeclared(o.st, d, i, e) ELSE {o} :
                                  o \in S},
           {Done(st)}, i.names)

(* The actuals in the order of the associations, each checked in turn.     *)
Passed(st, d, i) ==
  LET formals == prog[i.subp].formals
      one(r, f) ==
        LET v == Evaluate(r.st, d, i.actuals[f])
        IN  IF ~r.ok THEN r
            ELSE [st |-> v.st, args |-> Append(r.args, v.v),
                  ok |-> In(v.v, TypeRange(r.st, d, formals[f].mark))]
  IN  FoldLeft(one, [st |-> st, args |-> <<>>, ok |-> TRUE],
               [f \in DOMAIN i.actuals |-> f])

Activation(st, d, s, args) ==
  LET formals == prog[s].formals
  IN  [subp |-> s, at |-> 1,
       up |-> [t \in Enclosing(prog, s) |->
                 IF t = s THEN Len(st) + 1 ELSE st[d].up[t]],
       holds |-> [e \in FormalNames(prog, s) |->
                    args[CHOOSE f \in DOMAIN formals : formals[f].name = e]],
       bounds |-> <<>>]

Outcomes(st, d, i) ==
  CASE i.kind = "subtype" -> {Done(s) : s \in Elaborated(st, d, i.name, i.bounds)}
    [] i.kind = "object" -> ObjectDeclared(st, d, i)
    [] i.kind = "assign" ->
         {Assigned(st, d, i.target, i.value, ObjectRange(st, d, i.target))}
    [] i.kind = "call" ->
         LET r == Passed(st, d, i)
         IN  {[st |-> IF r.ok THEN Append(r.st, Activation(r.st, d, i.subp, r.args))
                      ELSE r.st, ok |-> r.ok]}
    [] OTHER -> {Done(st)}

-----------------------------------------------------------------------------
Init ==
  /\ prog \in Programs
  /\ stack = <<PackageFrame(prog)>>
  /\ outcome = "running"

(* The environment calls a subprogram of the package.                      *)
Start ==
  /\ Len(stack) = 1 /\ outcome = "running"
  /\ \E s \in Exported(prog) :
       \E args \in [DOMAIN prog[s].formals -> Value \cup {Unset}] :
         /\ \A f \in DOMAIN args :
              IF prog[s].formals[f].mode = "out" THEN args[f] = Unset
              ELSE In(args[f], TypeRange(stack, 1, prog[s].formals[f].mark))
         /\ stack' = Append(stack, Activation(stack, 1, s, args))
  /\ UNCHANGED <<prog, outcome>>

(* The next item of the latest activation.                                 *)
Execute ==
  /\ Len(stack) > 1
  /\ LET d == Len(stack)
         f == stack[d]
     IN  /\ f.at \in 1..Len(prog[f.subp].items)
         /\ \E o \in Outcomes(stack, d, Item(prog, f.subp, f.at)) :
              IF o.ok
                THEN stack' = [o.st EXCEPT ![d].at = @ + 1] /\ UNCHANGED outcome
                ELSE stack' = <<PackageFrame(prog)>> /\ outcome' = "raised"
  /\ UNCHANGED prog

Return ==
  /\ Len(stack) > 1
  /\ LET f == stack[Len(stack)] IN f.at = Len(prog[f.subp].items) + 1
  /\ stack' = Front(stack)
  /\ UNCHANGED <<prog, outcome>>

Next == Start \/ Execute \/ Return

Spec == Init /\ [][Next]_vars
=============================================================================
