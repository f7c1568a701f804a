----------------------------- MODULE StatementCFG ------------------------------
(***************************************************************************)
(* MLIRGen's lowering of statements to basic blocks, the verifier's word   *)
(* on the result, and a run of what was emitted.  Emission follows the     *)
(* recursive descent: `pos` is the position being visited, `insert` the    *)
(* builder's insertion block, `frames` what the C++ activations hold.      *)
(***************************************************************************)
EXTENDS Statements, FiniteSets, Functions

CONSTANT Programs
ASSUME ProgramsWellFormed == \A p \in Programs : WellFormed(p)

VARIABLES
  prog,
  pc,      \* "generate", then "failed" or "verified", "described",
           \* "running", "stopped"
  pos,     \* the position being visited
  insert,  \* the block the builder inserts into
  blocks,  \* the blocks emitted: their operations and terminator
  loops,   \* loopStack: the loops an exit may leave, innermost last
  labels,  \* pendingLabels: the labels of the body being emitted
  markers, \* the labels fused onto operations, each with that operation
  debug,   \* the labels described to the debugger, with their address
  frames,  \* for each statement being visited: the block it began in,
           \* and the loop stack and the labels it must restore
  here,    \* in a run: the next operation, [block, op]
  at,      \* in a run: the last step taken, and its outcome
  took

genVars == <<pos, insert, blocks, loops, labels, frames>>
dbgVars == <<markers, debug>>
runVars == <<here, at, took>>
vars == <<prog, pc, genVars, dbgVars, runVars>>

Ada == INSTANCE AdaStatements

Event(q, step) == Ada!Event(q, step)
Silent == Ada!Idle

-----------------------------------------------------------------------------
(* Blocks.  Each is named for the statement that creates it and its role   *)
(* there; an if has a then block and a false block for each guard.         *)
Block(q, role) == <<q, role, 0>>
Then(q, i) == <<q, "then", i>>

Open == [op |-> "none", event |-> Silent, to |-> <<>>]
Br(e, dest) == [op |-> "br", event |-> e, to |-> <<dest>>]
CondBr(e, yes, no) == [op |-> "cond_br", event |-> e, to |-> <<yes, no>>]
Ret(e) == [op |-> "return", event |-> e, to |-> <<>>]

Created(B, S) ==
  [b \in DOMAIN B \union S |->
     IF b \in DOMAIN B THEN B[b] ELSE [code |-> <<>>, end |-> Open]]
Terminated(B, b) == B[b].end # Open
Ended(B, b, end) == [B EXCEPT ![b].end = end]
BranchIfOpen(B, b, end) == IF Terminated(B, b) THEN B ELSE Ended(B, b, end)
HasPredecessors(B, b) == \E c \in DOMAIN B : b \in Range(B[c].end.to)
Erased(B, b) == Restrict(B, DOMAIN B \ {b})

(* Mutants: the merge is erased without a look at its predecessors; it is  *)
(* kept; emission goes on in the block just erased.                        *)
MutantAlwaysErased(B, merge, terminated) ==
  blocks' = Erased(B, merge) /\ insert' = terminated

MutantNeverErased(B, merge, terminated) == blocks' = B /\ insert' = merge

MutantInsertErased(B, merge, terminated) ==
  /\ blocks' = IF HasPredecessors(B, merge) THEN B ELSE Erased(B, merge)
  /\ insert' = merge

(* A merge block nothing branches to is erased, and emission goes on in a  *)
(* terminated block, so that what follows reads as unreachable.            *)
MergeAt(B, merge, terminated) ==
  IF HasPredecessors(B, merge)
    THEN blocks' = B /\ insert' = merge
    ELSE blocks' = Erased(B, merge) /\ insert' = terminated

-----------------------------------------------------------------------------
Stmt == prog[pos]
Visiting(kind) ==
  /\ pc = "generate"
  /\ pos \in DOMAIN prog
  /\ Stmt.kind = kind
  /\ ~Terminated(blocks, insert)

AtEndOf(kind) ==
  /\ pc = "generate"
  /\ pos \notin DOMAIN prog
  /\ pos # After(Top)
  /\ prog[Outer(pos)].kind = kind

Enter(part, frame) == pos' = First(pos, part) /\ frames' = Append(frames, frame)
Frame == frames[Len(frames)]
HereFrame == [block |-> insert, loops |-> loops, labels |-> labels]
LeaveTo(q) == pos' = q /\ frames' = SubSeq(frames, 1, Len(frames) - 1)

(* What a handler leaves alone.                                            *)
Outside == UNCHANGED <<prog, pc, debug, runVars>>
Control == Outside /\ UNCHANGED <<labels, markers>>

(* visit: after a terminator only a label is visited.                      *)
SkipUnreachable ==
  /\ pc = "generate"
  /\ pos \in DOMAIN prog
  /\ pos # Top
  /\ Stmt.kind # "label"
  /\ Terminated(blocks, insert)
  /\ pos' = After(pos)
  /\ UNCHANGED <<insert, blocks, loops, frames>> /\ Control

EmitAct ==
  /\ Visiting("act")
  /\ blocks' = [blocks EXCEPT ![insert].code = Append(@, Event(pos, 1))]
  /\ pos' = After(pos)
  /\ UNCHANGED <<insert, loops, frames>> /\ Control

EmitReturn ==
  /\ Visiting("return")
  /\ blocks' = Ended(blocks, insert, Ret(Event(pos, 1)))
  /\ pos' = After(pos)
  /\ UNCHANGED <<insert, loops, frames>> /\ Control

(* getOrCreateLabelBlock                                                   *)
WithLabel(l) == Created(blocks, {Block(l, "label")} \ DOMAIN blocks)

Crosses(q) ==
  EnclosingSubpBody(prog, q) # EnclosingSubpBody(prog, Named(prog, q))

EmitGoto ==
  /\ Visiting("goto")
  /\ ~Crosses(pos)
  /\ LET l == Named(prog, pos)
     IN  blocks' = Ended(WithLabel(l), insert,
                         Br(Event(pos, 1), Block(l, "label")))
  /\ pos' = After(pos)
  /\ UNCHANGED <<insert, loops, frames>> /\ Control

EmitLabel ==
  /\ pc = "generate"
  /\ pos \in Labels(prog)
  /\ insert' = Block(pos, "label")
  /\ blocks' = BranchIfOpen(WithLabel(pos), insert, Br(Silent, insert'))
  /\ labels' = Append(labels, pos)
  /\ pos' = After(pos)
  /\ UNCHANGED <<loops, frames, markers>> /\ Outside

(* The loops of the loop stack an exit may mean.                           *)
Targets ==
  {i \in DOMAIN loops : Stmt.name \in {Unnamed, loops[i].name}}
ExitTarget == loops[CHOOSE i \in Targets : \A j \in Targets : j <= i].merge

EmitExit ==
  /\ Visiting("exit")
  /\ Targets # {}
  /\ IF Stmt.conditional
       THEN /\ insert' = Block(pos, "continue")
            /\ blocks' = Ended(Created(blocks, {insert'}), insert,
                               CondBr(Event(pos, 1), ExitTarget, insert'))
       ELSE /\ blocks' = Ended(blocks, insert, Br(Event(pos, 1), ExitTarget))
            /\ UNCHANGED insert
  /\ pos' = After(pos)
  /\ UNCHANGED <<loops, frames>> /\ Control

Refuse ==
  /\ \/ Visiting("goto") /\ Crosses(pos)
     \/ Visiting("exit") /\ Targets = {}
  /\ pc' = "failed"
  /\ UNCHANGED <<prog, genVars, dbgVars, runVars>>

-----------------------------------------------------------------------------
(* mlirGenIf: the test of a guard ends the block it is in; its then block  *)
(* comes next, and its false block, the merge when no guard and no else    *)
(* part is left, takes the following test.                                 *)
Merge(q) == Block(q, "merge")

(* Mutant: the last guard's false edge skips the else part.                *)
MutantFalseBlock(q, i) ==
  IF i < prog[q].guards THEN <<q, "false", i>> ELSE Merge(q)

FalseBlock(q, i) ==
  IF i < prog[q].guards \/ prog[q].hasElse THEN <<q, "false", i>> ELSE Merge(q)

Tested(B, q, i, test) ==
  Ended(Created(B, {Then(q, i), FalseBlock(q, i)} \ {Merge(q)}), test,
        CondBr(Event(q, i), Then(q, i), FalseBlock(q, i)))

EnterIf ==
  /\ Visiting("if")
  /\ blocks' = Tested(Created(blocks, {Merge(pos)}), pos, 1, insert)
  /\ insert' = Then(pos, 1)
  /\ Enter(1, HereFrame)
  /\ UNCHANGED loops /\ Control

LeaveIfPart ==
  /\ AtEndOf("if")
  /\ LET q == Outer(pos)
         i == Part(pos)
         B == BranchIfOpen(blocks, insert, Br(Silent, Merge(q)))
     IN  \/ /\ i < prog[q].guards
            /\ blocks' = Tested(B, q, i + 1, FalseBlock(q, i))
            /\ insert' = Then(q, i + 1)
            /\ pos' = First(q, i + 1)
            /\ UNCHANGED frames
         \/ /\ i = prog[q].guards /\ prog[q].hasElse
            /\ blocks' = B
            /\ insert' = FalseBlock(q, i)
            /\ pos' = First(q, i + 1)
            /\ UNCHANGED frames
         \/ /\ i = Parts(prog[q])
            /\ MergeAt(B, Merge(q), Frame.block)
            /\ LeaveTo(After(q))
  /\ UNCHANGED loops /\ Control

-----------------------------------------------------------------------------
(* mlirGenLoop and mlirGenForLoop.                                         *)
Body(q) == Block(q, "body")
Header(q) == IF prog[q].kind = "while" THEN Block(q, "header") ELSE Body(q)
InitBlock(q) == Block(q, "init")
StepBlock(q) == Block(q, "step")

PushLoop == loops' = Append(loops, [merge |-> Merge(pos), name |-> Stmt.name])
PopLoop == loops' = SubSeq(loops, 1, Len(loops) - 1)

EnterLoop ==
  /\ \E kind \in {"loop", "while"} : Visiting(kind)
  /\ LET B == Created(blocks, {Merge(pos), Body(pos), Header(pos)})
         C == Ended(B, insert, Br(Silent, Header(pos)))
     IN  blocks' = IF Stmt.kind = "while"
                     THEN Ended(C, Header(pos),
                                CondBr(Event(pos, 1), Body(pos), Merge(pos)))
                     ELSE C
  /\ insert' = Body(pos)
  /\ PushLoop
  /\ Enter(1, HereFrame)
  /\ Control

(* The back edge; that of a bare loop is its only operation.               *)
LeaveLoop ==
  /\ \E kind \in {"loop", "while"} : AtEndOf(kind)
  /\ LET q == Outer(pos)
         again == IF prog[q].kind = "loop" THEN Event(q, 1) ELSE Silent
     IN  /\ MergeAt(BranchIfOpen(blocks, insert, Br(again, Header(q))),
                    Merge(q), Body(q))
         /\ LeaveTo(After(q))
  /\ PopLoop
  /\ Control

EnterFor ==
  /\ Visiting("for")
  /\ LET B == Created(blocks,
                {Merge(pos), StepBlock(pos), Body(pos), InitBlock(pos)})
     IN  blocks' = Ended(Ended(B, insert,
                     CondBr(Event(pos, 1), InitBlock(pos), Merge(pos))),
                     InitBlock(pos), Br(Silent, Body(pos)))
  /\ insert' = Body(pos)
  /\ PushLoop
  /\ Enter(1, HereFrame)
  /\ Control

LeaveFor ==
  /\ AtEndOf("for")
  /\ LET q == Outer(pos)
         stepping == [blocks EXCEPT
           ![insert].end = CondBr(Event(q, 2), Merge(q), StepBlock(q)),
           ![StepBlock(q)] = [code |-> <<Event(q, 3)>>, end |-> Br(Silent, Body(q))]]
     IN  /\ blocks' = IF Terminated(blocks, insert)
                        THEN Erased(blocks, StepBlock(q))
                        ELSE stepping
         /\ insert' = Merge(q)
         /\ LeaveTo(After(q))
  /\ PopLoop
  /\ Control

-----------------------------------------------------------------------------
(* mlirGenBlock: a block statement dissolves into the enclosing region.    *)
EnterBlock ==
  /\ Visiting("block")
  /\ Enter(1, HereFrame)
  /\ UNCHANGED <<insert, blocks, loops>> /\ Control

LeaveBlock ==
  /\ AtEndOf("block")
  /\ LeaveTo(After(Outer(pos)))
  /\ UNCHANGED <<insert, blocks, loops>> /\ Control

(* mlirGenSubpBody: the loops of an enclosing body are out of its reach.   *)
Entry(q) == Block(q, "entry")

(* Mutant: the loop stack is not cleared for a nested body.                *)
MutantOwnLoops == loops

OwnLoops == <<>>

(* Bodies declared in a body or block go into an ada.decls that stands     *)
(* where they do; those of the library level need none.                    *)
WithDecls ==
  IF pos # Top /\ pos[Len(pos)] = 1
    THEN [blocks EXCEPT ![insert].code = Append(@, Silent)]
    ELSE blocks

EnterSubp ==
  /\ pc = "generate"
  /\ pos \in Subps(prog)
  /\ insert' = Entry(pos)
  /\ blocks' = Created(WithDecls, {insert'})
  /\ loops' = OwnLoops
  /\ labels' = <<>>
  /\ Enter(1, HereFrame)
  /\ UNCHANGED markers /\ Outside

(* anchorPendingLabels: a label is fused onto the first operation of its   *)
(* block that is no null, read or write of an object; a block that only    *)
(* branches is left for its target.                                        *)
Passing == {Event(q, 1) : q \in {p \in DOMAIN prog : prog[p] \in {Assignment, NullStmt}}}

FirstKept(B, b) ==
  LET ops == SelectSeq(B[b].code, LAMBDA e : e \notin Passing)
  IN  IF ops = <<>> THEN B[b].end ELSE [Open EXCEPT !.op = "other", !.event = Head(ops)]

(* Mutant: a block that only branches is not left for its target.          *)
MutantAnchor(B, b) == FirstKept(B, b)

Anchor(B, b) ==
  LET From[c \in DOMAIN B, seen \in SUBSET DOMAIN B] ==
        LET op == FirstKept(B, c)
        IN  CASE c \in seen -> Open
              [] op.op = "br" -> From[op.to[1], seen \union {c}]
              [] OTHER -> op
  IN  From[b, {}]

Markers(B, body) ==
  {[label |-> l, body |-> body, at |-> Anchor(B, Block(l, "label")).event] :
     l \in {l \in Range(labels) : Anchor(B, Block(l, "label")) # Open}}

LeaveSubp ==
  /\ AtEndOf("subp")
  /\ LET q == Outer(pos)
     IN  /\ blocks' = IF prog[q].isFunction
                        THEN blocks
                        ELSE BranchIfOpen(blocks, insert, Ret(Event(q, 1)))
         /\ markers' = markers \union Markers(blocks', q)
         /\ LeaveTo(After(q))
  /\ insert' = Frame.block
  /\ loops' = Frame.loops
  /\ labels' = Frame.labels
  /\ Outside

(* generateModule: the verifier wants a terminator in every block.         *)
Verify ==
  /\ pc = "generate"
  /\ pos = After(Top)
  /\ pc' = IF \A b \in DOMAIN blocks : Terminated(blocks, b)
             THEN "verified" ELSE "failed"
  /\ UNCHANGED <<prog, genVars, dbgVars, runVars>>

(* AdaDebugInfo describes each label a marker of which is still there: an  *)
(* ada.decls has been erased, with the markers on it.  Of the labels of a  *)
(* body that share a name one is described, the first it walks over.       *)
SameDIE(m, n) == m.body = n.body /\ prog[m.label].name = prog[n.label].name

DescribeLabels ==
  /\ pc = "verified"
  /\ pc' = "described"
  /\ LET kept == {m \in markers : m.at # Silent}
     IN  \E S \in SUBSET kept :
           /\ \A m \in kept : Cardinality({n \in S : SameDIE(m, n)}) = 1
           /\ debug' = S
  /\ UNCHANGED <<prog, genVars, markers, runVars>>

-----------------------------------------------------------------------------
(* A run of one of the bodies emitted.                                     *)
GoTo(b) == here' = [block |-> b, op |-> 1]
End == blocks[here.block].end
AtEnd == pc = "running" /\ here.op > Len(blocks[here.block].code)
Emitted == UNCHANGED <<prog, genVars, dbgVars>>

Begin ==
  /\ pc = "described"
  /\ pc' = "running"
  /\ \E q \in Subps(prog) : Entry(q) \in DOMAIN blocks /\ GoTo(Entry(q))
  /\ UNCHANGED <<at, took>> /\ Emitted

Execute ==
  /\ pc = "running" /\ ~AtEnd
  /\ LET e == blocks[here.block].code[here.op]
     IN  IF e = Silent THEN UNCHANGED <<at, took>> ELSE at' = e /\ took' = TRUE
  /\ here' = [here EXCEPT !.op = @ + 1]
  /\ UNCHANGED pc /\ Emitted

Branch ==
  /\ AtEnd /\ End.op = "br"
  /\ IF End.event = Silent
       THEN UNCHANGED <<at, took>>
       ELSE at' = End.event /\ took' = TRUE
  /\ GoTo(End.to[1])
  /\ UNCHANGED pc /\ Emitted

CondBranch ==
  /\ AtEnd /\ End.op = "cond_br"
  /\ at' = End.event
  /\ took' \in BOOLEAN
  /\ GoTo(End.to[IF took' THEN 1 ELSE 2])
  /\ UNCHANGED pc /\ Emitted

ReturnOp ==
  /\ AtEnd /\ End.op = "return"
  /\ at' = End.event
  /\ took' = TRUE
  /\ pc' = "stopped"
  /\ UNCHANGED here /\ Emitted

-----------------------------------------------------------------------------
NoBlock == <<<<>>, "none", 0>>

Init ==
  /\ prog \in Programs
  /\ pc = "generate"
  /\ pos = Top
  /\ insert = NoBlock
  /\ blocks = <<>>
  /\ loops = <<>>
  /\ labels = <<>>
  /\ markers = {}
  /\ debug = {}
  /\ frames = <<>>
  /\ here = [block |-> NoBlock, op |-> 0]
  /\ at = Silent
  /\ took = TRUE

Emit ==
  \/ SkipUnreachable \/ EmitAct \/ EmitReturn \/ EmitGoto \/ EmitLabel
  \/ EmitExit \/ Refuse \/ EnterIf \/ LeaveIfPart \/ EnterLoop \/ LeaveLoop
  \/ EnterFor \/ LeaveFor \/ EnterBlock \/ LeaveBlock \/ EnterSubp
  \/ LeaveSubp \/ Verify \/ DescribeLabels

Run == Begin \/ Execute \/ Branch \/ CondBranch \/ ReturnOp

Next == Emit \/ Run

Spec == Init /\ [][Next]_vars

-----------------------------------------------------------------------------
Roles == {"entry", "then", "false", "merge", "body", "header", "init", "step",
          "continue", "label"}

(* Emission visits positions of the program, each block belongs to one of  *)
(* its statements, and the builder inserts into a block that still exists. *)
TypeOK ==
  /\ pc \in {"generate", "failed", "verified", "described", "running", "stopped"}
  /\ pos \in Ada!Positions
  /\ \A b \in DOMAIN blocks :
       /\ b[1] \in DOMAIN prog /\ b[2] \in Roles
       /\ blocks[b].end.op \in {"none", "br", "cond_br", "return"}
       /\ \A i \in DOMAIN blocks[b].code :
            blocks[b].code[i] = Silent \/ blocks[b].code[i].stmt \in DOMAIN prog
  /\ insert \in DOMAIN blocks \union {NoBlock}
  /\ \A i \in DOMAIN frames : frames[i].block \in DOMAIN blocks \union {NoBlock}
  /\ took \in BOOLEAN

(* No branch is ever left to a block that has been erased: the merge and   *)
(* step blocks mlirGenIf, mlirGenLoop and mlirGenForLoop drop stay unused, *)
(* and the loop stack never offers an exit a block that is gone.           *)
NothingDangles ==
  /\ \A b \in DOMAIN blocks : Range(blocks[b].end.to) \subseteq DOMAIN blocks
  /\ \A i \in DOMAIN loops : loops[i].merge \in DOMAIN blocks

(* What is emitted holds no block of lowering's own making that nothing    *)
(* branches to: "the merge block is unreachable and is erased" (3094).     *)
OrphansErased ==
  pc = "verified" =>
    \A b \in DOMAIN blocks :
      b[2] \in {"entry", "label"} \/ HasPredecessors(blocks, b)

(* A unit is accepted only when no control path reaches a forbidden goto   *)
(* or exit, nor the end of a function; it is refused only when one does,   *)
(* from an entry or from a label, which emission takes to be reachable.    *)
VerdictJustified ==
  LET entries == {Ada!Lands[First(q, 1)] : q \in {s \in Subps(prog) :
                                              Entry(s) \in DOMAIN blocks}}
      reentries == {Ada!Lands[l] : l \in Labels(prog)}
      Wrong(e) == Illegal(prog, e.stmt) \/ Ada!MissingReturn(e)
  IN  /\ pc = "verified" => ~\E e \in Ada!Reach(entries) : Wrong(e)
      /\ pc = "failed" => \E e \in Ada!Reach(entries \union reentries) : Wrong(e)

(* Every label emitted is described, in the body it is in and at the first *)
(* step control takes from it that is a step of the final code, except     *)
(* where it has none: control goes round in jumps, or bodies are declared  *)
(* there in a block, or a label of the same body has its name.             *)
LabelsAnchored ==
  LET Place(l) == Ada!Settles(l, Passing)
      emitted == {l \in Labels(prog) : Block(l, "label") \in DOMAIN blocks}
  IN  pc = "described" =>
        /\ \A m \in debug :
             /\ m.at = Place(m.label)
             /\ m.body = EnclosingSubpBody(prog, m.label)
        /\ \A l \in emitted :
             Place(l) # Silent =>
               \E m \in debug :
                 /\ prog[m.label].name = prog[l].name
                 /\ m.body = EnclosingSubpBody(prog, l)

(* Running what was emitted, every act, test and jump happens in the order *)
(* Ada's rules for compound statements, exits, gotos and returns give.     *)
ImplementsAdaStatements == Ada!Spec
=============================================================================
