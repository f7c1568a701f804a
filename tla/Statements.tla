------------------------------ MODULE Statements -------------------------------
(***************************************************************************)
(* The statements of a compilation unit.  A program is a function from     *)
(* paths to statements: a path alternates a position in a sequence of      *)
(* statements with the number of the part that sequence is of the          *)
(* enclosing statement.  <<1>> is the library-level body; <<1, 1, 2>> is   *)
(* its second statement; <<1, 1, 2, 3, 1>> starts that one's third part.   *)
(* A nested body is declared at the head of the sequence it is local to.   *)
(***************************************************************************)
EXTENDS Naturals, Sequences, FiniteSets

Top == <<1>>
After(q) == [q EXCEPT ![Len(q)] = @ + 1]
First(q, part) == q \o <<part, 1>>
Outer(q) == SubSeq(q, 1, Len(q) - 2)
Part(q) == q[Len(q) - 1]

(* A simple statement is known by the operation it becomes.                *)
SimpleStmt(op) == [kind |-> "act", op |-> op]
Act == SimpleStmt("call")
Assignment == SimpleStmt("write")
NullStmt == SimpleStmt("null")
ReturnStmt == [kind |-> "return"]
LabelStmt(name) == [kind |-> "label", name |-> name]
GotoStmt(name) == [kind |-> "goto", name |-> name]
ExitStmt(name, conditional) ==
  [kind |-> "exit", name |-> name, conditional |-> conditional]
IfStmt(guards, hasElse) ==
  [kind |-> "if", guards |-> guards, hasElse |-> hasElse]
LoopStmt(kind, name) == [kind |-> kind, name |-> name]
BlockStmt == [kind |-> "block"]
SubpBody(isFunction) == [kind |-> "subp", isFunction |-> isFunction]

LoopKinds == {"loop", "while", "for"}
Kinds == LoopKinds \union
  {"act", "return", "label", "goto", "exit", "if", "block", "subp"}
Unnamed == ""

Parts(stmt) ==
  CASE stmt.kind = "if" -> stmt.guards + (IF stmt.hasElse THEN 1 ELSE 0)
    [] stmt.kind \in LoopKinds \union {"block", "subp"} -> 1
    [] OTHER -> 0

(* Statements and enclosing statements, and the innermost of a set of them. *)
Enclosing(q) == {SubSeq(q, 1, n) : n \in {k \in 1..(Len(q) - 2) : k % 2 = 1}}
Innermost(S) == CHOOSE q \in S : \A r \in S : Len(r) <= Len(q)

Subps(prog) == {q \in DOMAIN prog : prog[q].kind = "subp"}
Labels(prog) == {q \in DOMAIN prog : prog[q].kind = "label"}

EnclosingSubpBody(prog, q) == Innermost(Enclosing(q) \intersect Subps(prog))

(* A label is declared in the innermost body or block statement (RM 5.1),  *)
(* where it hides one of the same name declared further out.               *)
Region(prog, l) ==
  Innermost({r \in Enclosing(l) : prog[r].kind \in {"block", "subp"}})

Homographs(prog, l, m) ==
  prog[l].name = prog[m].name /\ Region(prog, l) = Region(prog, m)

(* The label a goto names; the loops an exit may leave.                    *)
Visible(prog, q) ==
  {l \in Labels(prog) :
     prog[l].name = prog[q].name /\ Region(prog, l) \in Enclosing(q)}

Named(prog, q) ==
  CHOOSE l \in Visible(prog, q) :
    \A m \in Visible(prog, q) : Len(Region(prog, m)) <= Len(Region(prog, l))

ExitableLoops(prog, q) ==
  {o \in Enclosing(q) :
     /\ prog[o].kind \in LoopKinds
     /\ EnclosingSubpBody(prog, o) = EnclosingSubpBody(prog, q)
     /\ prog[q].name \in {Unnamed, prog[o].name}}

(* A goto or an exit that Ada forbids, of those name resolution lets pass. *)
Illegal(prog, q) ==
  \/ /\ prog[q].kind = "exit"
     /\ ExitableLoops(prog, q) = {}
  \/ /\ prog[q].kind = "goto"
     /\ EnclosingSubpBody(prog, q) # EnclosingSubpBody(prog, Named(prog, q))

(* Programs the parser accepts and names resolve in: finite, an if has a   *)
(* guard, sequences have no gaps, declarations come first, and a goto      *)
(* names one label, of a sequence that holds the goto.                     *)
IsPath(q) == q \in Seq(Nat \ {0}) /\ Len(q) % 2 = 1

WellFormed(prog) ==
  /\ IsFiniteSet(DOMAIN prog)
  /\ Top \in Subps(prog)
  /\ \A q \in DOMAIN prog :
       /\ IsPath(q) /\ prog[q].kind \in Kinds
       /\ prog[q].kind = "if" =>
            prog[q].guards \in Nat \ {0} /\ prog[q].hasElse \in BOOLEAN
  /\ \A q \in DOMAIN prog \ {Top} :
       /\ Outer(q) \in DOMAIN prog
       /\ Part(q) \in 1..Parts(prog[Outer(q)])
       /\ q[Len(q)] > 1 => [q EXCEPT ![Len(q)] = @ - 1] \in DOMAIN prog
       /\ prog[q].kind = "subp" =>
            /\ prog[Outer(q)].kind \in {"block", "subp"}
            /\ After(q) \in DOMAIN prog
            /\ \A n \in 1..q[Len(q)] : [q EXCEPT ![Len(q)] = n] \in Subps(prog)
       /\ prog[q].kind = "goto" =>
            /\ Visible(prog, q) # {}
            /\ LET l == Named(prog, q)
               IN  Len(l) <= Len(q) /\ SubSeq(q, 1, Len(l) - 1) = SubSeq(l, 1, Len(l) - 1)
  /\ \A q \in DOMAIN prog : \A i \in 1..Parts(prog[q]) : First(q, i) \in DOMAIN prog
  /\ \A l, m \in Labels(prog) : Homographs(prog, l, m) => l = m
=============================================================================
