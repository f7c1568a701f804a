---------------------------- MODULE MCStatementCFG -----------------------------
(***************************************************************************)
(* Instances of StatementCFG: every body of at most four statements over   *)
(* the shapes below, and bodies written out for what needs more of them.   *)
(***************************************************************************)
EXTENDS StatementCFG, TLC

(* Nodes in order, each a program of its own rooted at <<1>>; a statement  *)
(* with its parts, each a sequence of nodes.                               *)
InOrder(nodes) ==
  [q \in UNION {{<<i>> \o Tail(r) : r \in DOMAIN nodes[i]} : i \in DOMAIN nodes}
     |-> nodes[q[1]][<<1>> \o Tail(q)]]

Node(stmt, parts) ==
  LET below == [i \in DOMAIN parts |-> InOrder(parts[i])]
  IN  (Top :> stmt) @@
      [q \in UNION {{<<1, i>> \o r : r \in DOMAIN below[i]} : i \in DOMAIN parts}
         |-> below[q[2]][SubSeq(q, 3, Len(q))]]
Leaf(stmt) == Node(stmt, <<>>)

BodyOf(isFunction, nodes) == Node(SubpBody(isFunction), <<nodes>>)

Simple ==
  {Leaf(s) : s \in {Act, ReturnStmt, LabelStmt("L"), GotoStmt("L"),
                    ExitStmt(Unnamed, FALSE), ExitStmt(Unnamed, TRUE)}}

OnePart == {LoopStmt(k, Unnamed) : k \in LoopKinds} \union {BlockStmt, IfStmt(1, FALSE)}
TwoParts == {IfStmt(1, TRUE), IfStmt(2, FALSE)}

Around(L) == {Node(s, <<p>>) : s \in OnePart, p \in L}
Around2(L, M) == {Node(s, <<p, r>>) : s \in TwoParts, p \in L, r \in M}
Alone(N) == {<<t>> : t \in N}
Before(N, L) == {<<t>> \o rest : t \in N, rest \in L}

(* Sequences of 1 to 4 statements, counted with those inside them.         *)
Lists1 == Alone(Simple)
Nodes2 == Around(Lists1)
Lists2 == Alone(Nodes2) \union Before(Simple, Lists1)
Nodes3 == Around(Lists2) \union Around2(Lists1, Lists1)
Lists3 == Alone(Nodes3) \union Before(Nodes2, Lists1) \union Before(Simple, Lists2)
Nodes4 == Around(Lists3) \union Around2(Lists1, Lists2) \union Around2(Lists2, Lists1)
Lists4 == Alone(Nodes4) \union Before(Nodes3, Lists1)
          \union Before(Nodes2, Lists2) \union Before(Simple, Lists3)

Bodies ==
  {BodyOf(f, nodes) : f \in BOOLEAN,
                      nodes \in Lists1 \union Lists2 \union Lists3 \union Lists4}

-----------------------------------------------------------------------------
(* What labels and gotos make of a flat sequence.                          *)
Jumps ==
  {Leaf(s) : s \in {Act, Assignment, NullStmt} \union
             UNION {{LabelStmt(n), GotoStmt(n)} : n \in {"L", "M"}}}
Flat == {BodyOf(FALSE, nodes) : nodes \in UNION {[1..n -> Jumps] : n \in 1..4}}

a == Leaf(Act)
null == Leaf(NullStmt)
assign == Leaf(Assignment)
return == Leaf(ReturnStmt)
label(n) == Leaf(LabelStmt(n))
goto(n) == Leaf(GotoStmt(n))
exit(n) == Leaf(ExitStmt(n, FALSE))
exitWhen(n) == Leaf(ExitStmt(n, TRUE))
loop(kind, name, body) == Node(LoopStmt(kind, name), <<body>>)
block(body) == Node(BlockStmt, <<body>>)
local(isFunction, body) == Node(SubpBody(isFunction), <<body>>)

Written ==
  { (* exits of an outer loop from an inner one *)
    BodyOf(FALSE, <<loop("loop", "Outer", <<loop("for", "Inner",
                      <<a, exitWhen("Outer"), exit("Inner")>>), a>>), a>>),
    BodyOf(FALSE, <<loop("for", "Outer", <<loop("loop", "Inner",
                      <<exitWhen("Inner"), exit("Outer")>>), exit("Inner")>>)>>),
    BodyOf(TRUE, <<loop("while", "Outer", <<loop("loop", "Inner",
                      <<a, exit("Outer")>>), a>>), return>>),
    (* a body declared in a block inside a loop *)
    BodyOf(FALSE, <<loop("loop", "Outer",
                      <<block(<<local(FALSE, <<a, exit(Unnamed)>>), a>>),
                        exit(Unnamed)>>)>>),
    BodyOf(FALSE, <<loop("loop", "Outer",
                      <<block(<<local(TRUE, <<loop("loop", "Inner", <<exitWhen(Unnamed)>>),
                                              return>>), a, exitWhen("Outer")>>)>>), a>>),
    BodyOf(FALSE, <<local(FALSE, <<local(TRUE, <<a>>), a>>), a>>),
    BodyOf(TRUE, <<return, block(<<local(TRUE, <<a>>), a>>)>>),
    (* gotos out of a body, and past the end of a loop *)
    BodyOf(FALSE, <<local(FALSE, <<a, goto("L")>>), a, label("L"), a>>),
    BodyOf(TRUE, <<label("M"), loop("loop", Unnamed, <<a, goto("L"), label("M2"),
                      goto("M2")>>), label("L"), exitWhen(Unnamed), return>>),
    BodyOf(FALSE, <<label("M"), label("L"), a, loop("for", Unnamed,
                      <<goto("K"), a, label("K"), exitWhen(Unnamed), goto("M")>>)>>),
    (* elsif and else, every branch leaving *)
    BodyOf(TRUE, <<Node(IfStmt(2, TRUE), <<<<return>>, <<a, return>>, <<goto("L")>>>>),
                   a, label("L"), return>>),
    BodyOf(FALSE, <<loop("loop", Unnamed, <<Node(IfStmt(3, TRUE),
                      <<<<exit(Unnamed)>>, <<a>>, <<return>>, <<goto("L")>>>>), a>>),
                    label("L")>>),
    (* labels of a body and of one nested in it; bodies after a label *)
    BodyOf(FALSE, <<label("L"), block(<<local(FALSE, <<label("M"), null,
                      goto("M")>>), a>>), label("K"), assign, goto("L")>>),
    BodyOf(FALSE, <<label("L"), assign, a, block(<<local(TRUE, <<label("L"), return>>),
                      label("M"), a>>), loop("while", Unnamed, <<assign, label("K")>>)>>),
    (* labels of one name, in two blocks and around one *)
    BodyOf(FALSE, <<block(<<label("L"), null>>), block(<<label("L"), a>>),
                    a>>),
    BodyOf(FALSE, <<label("L"), a, block(<<goto("L"), label("L"), assign,
                      Node(IfStmt(1, FALSE), <<<<goto("L")>>>>)>>), goto("L")>>) }

MCPrograms == {p \in Bodies \union Flat \union Written : WellFormed(p)}
=============================================================================
