----------------------------- MODULE AdaStatements -----------------------------
(***************************************************************************)
(* The flow of control Ada gives a sequence of statements (RM 5.1 - 5.8,   *)
(* 6.5): which statement acts, or which condition is tested, after which.  *)
(* Independent of any control-flow graph.                                  *)
(***************************************************************************)
EXTENDS Statements

VARIABLES
  prog,
  at,    \* what happened last: a step of a statement
  took   \* the outcome, when that was a test

vars == <<prog, at, took>>

(* A step of a statement.  Guards of an if are steps 1, 2, ...; a for loop *)
(* tests its range (1), tests for the last value (2) and advances (3); a   *)
(* body is its own only step when its end is reached.                      *)
Event(q, step) == [stmt |-> q, step |-> step]
Idle == Event(<<>>, 0)

Positions ==
  DOMAIN prog \union {After(q) : q \in DOMAIN prog}

(* Those control reaches lie inside the library-level body.                *)
Inside == Positions \ {Top, After(Top)}

(* What happens first when control reaches a position, which may be the    *)
(* end of a sequence.                                                      *)
Lands[q \in Inside] ==
  IF q \in DOMAIN prog
    THEN CASE prog[q].kind \in {"label", "subp"} -> Lands[After(q)]
           [] prog[q].kind \in {"block", "loop"} -> Lands[First(q, 1)]
           [] OTHER -> Event(q, 1)
    ELSE CASE prog[Outer(q)].kind \in {"if", "block"} -> Lands[After(Outer(q))]
           [] prog[Outer(q)].kind = "for" -> Event(Outer(q), 2)
           [] OTHER -> Event(Outer(q), 1)

IsTest(e) ==
  LET s == prog[e.stmt]
  IN  \/ s.kind \in {"if", "while"}
      \/ s.kind = "exit" /\ s.conditional
      \/ s.kind = "for" /\ e.step < 3

IsFinal(e) == prog[e.stmt].kind \in {"return", "subp"}

(* A function whose end is reached has no value to return (RM 6.5(20)).    *)
MissingReturn(e) ==
  prog[e.stmt].kind = "subp" /\ prog[e.stmt].isFunction

Chosen(e, outcome, whenTrue, whenFalse) ==
  IF outcome THEN whenTrue ELSE whenFalse

Successor(e, outcome) ==
  LET q == e.stmt
      s == prog[q]
      onward == Lands[After(q)]
      inside == Lands[First(q, 1)]
  IN  CASE s.kind = "act" -> onward
        [] s.kind = "goto" -> Lands[Named(prog, q)]
        [] s.kind = "exit" ->
             IF outcome THEN Lands[After(Innermost(ExitableLoops(prog, q)))]
                        ELSE onward
        [] s.kind = "if" ->
             IF outcome THEN Lands[First(q, e.step)]
             ELSE IF e.step < s.guards THEN Event(q, e.step + 1)
             ELSE IF s.hasElse THEN Lands[First(q, e.step + 1)]
             ELSE onward
        [] s.kind = "loop" -> inside
        [] s.kind = "while" -> IF outcome THEN inside ELSE onward
        [] s.kind = "for" ->
             CASE e.step = 1 -> IF outcome THEN inside ELSE onward
               [] e.step = 2 -> IF outcome THEN onward ELSE Event(q, 3)
               [] e.step = 3 -> inside

Happens(e) ==
  /\ at' = e
  /\ took' \in (IF IsTest(e) THEN BOOLEAN ELSE {TRUE})
  /\ UNCHANGED prog

Init ==
  /\ WellFormed(prog)
  /\ at = Idle
  /\ took = TRUE

Begin == at = Idle /\ \E b \in Subps(prog) : Happens(Lands[First(b, 1)])

Step == at # Idle /\ ~IsFinal(at) /\ Happens(Successor(at, took))

Next == Begin \/ Step

Spec == Init /\ [][Next]_vars

-----------------------------------------------------------------------------
(* Where control goes from a jump, or from a step that leaves no code.     *)
Onward(e) ==
  LET s == prog[e.stmt]
  IN  CASE s.kind = "act" -> After(e.stmt)
        [] s.kind = "goto" -> Named(prog, e.stmt)
        [] s.kind = "exit" -> After(Innermost(ExitableLoops(prog, e.stmt)))
        [] s.kind = "loop" -> First(e.stmt, 1)

IsJump(e) ==
  LET s == prog[e.stmt]
  IN  s.kind \in {"goto", "loop"} \/ (s.kind = "exit" /\ ~s.conditional)

(* Whether control that reaches a position elaborates bodies declared in a *)
(* block before anything else happens.                                     *)
Elaborates[q \in Inside] ==
  IF q \in DOMAIN prog
    THEN CASE prog[q].kind = "subp" -> TRUE
           [] prog[q].kind = "label" -> Elaborates[After(q)]
           [] prog[q].kind \in {"block", "loop"} -> Elaborates[First(q, 1)]
           [] OTHER -> FALSE
    ELSE prog[Outer(q)].kind \in {"if", "block"} /\ Elaborates[After(Outer(q))]

(* The first step from a position on that is no jump and not one of        *)
(* `passing`; Idle when there is none, or bodies are elaborated before it. *)
Settles(start, passing) ==
  LET From[q \in Inside, seen \in SUBSET Inside] ==
        LET e == Lands[q]
        IN  CASE q \in seen \/ Elaborates[q] -> Idle
              [] IsJump(e) \/ e \in passing -> From[Onward(e), seen \union {q}]
              [] OTHER -> e
  IN  From[start, {}]

(* The steps of a program, and those control may reach from some of them.  *)
StepCount(s) ==
  CASE s.kind = "if" -> s.guards
    [] s.kind = "for" -> 3
    [] s.kind \in {"label", "block"} -> 0
    [] OTHER -> 1

Steps == UNION {{Event(q, i) : i \in 1..StepCount(prog[q])} : q \in DOMAIN prog}

NextSteps(e) ==
  IF IsFinal(e) \/ Illegal(prog, e.stmt)
    THEN {}
    ELSE {Successor(e, b) : b \in IF IsTest(e) THEN BOOLEAN ELSE {TRUE}}

Reach(start) ==
  LET Grow[S \in SUBSET Steps] ==
        LET T == S \union UNION {NextSteps(e) : e \in S}
        IN  IF T = S THEN S ELSE Grow[T]
  IN  Grow[start]
=============================================================================
