-------------------------- MODULE StatementCFG_proofs --------------------------
(***************************************************************************)
(* Proofs about the emission of statements, for every program: emission    *)
(* stays inside the program and the blocks it has made, no branch is left  *)
(* to an erased block, no block of lowering's own making is left without a *)
(* branch to it, what is emitted runs in the order Ada gives, and a unit   *)
(* is accepted or refused as Ada's rules on jumps and returns say.         *)
(***************************************************************************)
EXTENDS StatementCFG, Words_proofs

(* The statements being visited, outermost first, and the part of each.    *)
Depth == Len(frames)
Owner(i) == SubSeq(pos, 1, 2 * i - 1)
PartOf(i) == pos[2 * i]

(* Positions in the order of the visit: r lies before q, or around it.     *)
Precedes(r, q) ==
  \E k \in 1..Len(r) : /\ k <= Len(q) /\ r[k] < q[k]
                       /\ \A j \in 1..(k - 1) : r[j] = q[j]
Surrounds(r, q) == Len(r) < Len(q) /\ \A j \in 1..Len(r) : r[j] = q[j]
Begun(r, q) == Precedes(r, q) \/ Surrounds(r, q)

(* Graphs of blocks.                                                       *)
Events == [stmt : DOMAIN prog, step : Nat] \union {Silent}
Names == (DOMAIN prog) \X Roles \X Nat
Ways(op) == CASE op = "br" -> 1 [] op = "cond_br" -> 2 [] OTHER -> 0
Ends == {end \in [op : {"none", "br", "cond_br", "return"}, event : Events, to : Seq(Names)] :
           Len(end.to) = Ways(end.op) /\ (end.op = "none" => end = Open)}
Nodes == [code : Seq(Events), end : Ends]

Branched(B) == UNION {Range(B[b].end.to) : b \in DOMAIN B}

Sound(B) ==
  /\ DOMAIN B \subseteq Names /\ B \in [DOMAIN B -> Nodes]
  /\ Branched(B) \subseteq DOMAIN B

LoopRecords ==
  [merge : Names,
   name : {prog[q].name : q \in {r \in DOMAIN prog : prog[r].kind \in LoopKinds}}]
Frames ==
  [block : Names \union {NoBlock}, loops : Seq(LoopRecords), labels : Seq(DOMAIN prog)]

-----------------------------------------------------------------------------
(* The frames are those of the statements around the position.             *)
DescentInv ==
  /\ prog \in Programs
  /\ pc \in {"generate", "failed", "verified", "described", "running", "stopped"}
  /\ pc \notin {"generate", "failed"} => pos = After(Top)
  /\ pos \in Ada!Positions
  /\ frames \in Seq(Frames) /\ Len(pos) = 2 * Depth + 1
  /\ \A i \in 1..Depth :
       Owner(i) \in DOMAIN prog /\ PartOf(i) \in 1..Parts(prog[Owner(i)])
  /\ labels \in Seq(DOMAIN prog)
  /\ took \in BOOLEAN

(* Where in a statement a block begins: at a part, or with the statement.  *)
Mark(b) == IF b[2] \in {"then", "false"} THEN Append(b[1], b[3]) ELSE b[1]

(* Blocks are those of statements begun, and of labels.                    *)
BlocksInv ==
  /\ Sound(blocks)
  /\ \A b \in DOMAIN blocks : b[2] = "label" \/ Begun(Mark(b), pos)
  /\ \A c \in Branched(blocks) : c[2] = "step" => Precedes(c[1], pos)

(* A block where emission at q may go on.                                  *)
Inserted(b, q) ==
  CASE b[2] \in {"label", "merge", "false"} -> Precedes(Mark(b), q)
    [] b[2] \in {"entry", "then", "body", "continue"} -> Begun(Mark(b), q)
    [] OTHER -> FALSE

InsertInv ==
  /\ IF Depth = 0 THEN insert = NoBlock
     ELSE insert \in DOMAIN blocks /\ Inserted(insert, pos)
  /\ \A i \in 1..Depth :
       IF i = 1 THEN frames[i].block = NoBlock
       ELSE frames[i].block \in DOMAIN blocks /\ Inserted(frames[i].block, Owner(i))

(* The blocks of a statement in whose part i emission is that it has yet   *)
(* to come to, those of them dropped if nothing branches to them, and      *)
(* those it branches to or inserts into when it is left.                   *)
Droppable(q) ==
  CASE prog[q].kind \in {"if", "loop", "while"} -> {Merge(q)}
    [] prog[q].kind = "for" -> {StepBlock(q)}
    [] OTHER -> {}
Closing(q) == Droppable(q) \union (IF prog[q].kind = "for" THEN {Merge(q)} ELSE {})
Ahead(q, i) ==
  Closing(q) \union
  (IF prog[q].kind = "if" /\ i <= prog[q].guards THEN {FalseBlock(q, i)} ELSE {})
Needed(q) == IF prog[q].kind \in LoopKinds THEN {Body(q), Header(q)} ELSE {}

OpenInv ==
  \A i \in 1..Depth :
    /\ \A b \in Ahead(Owner(i), PartOf(i)) : b \in DOMAIN blocks /\ ~Terminated(blocks, b)
    /\ Needed(Owner(i)) \subseteq DOMAIN blocks

OrphanInv ==
  \A b \in DOMAIN blocks :
    \/ b[2] \in {"entry", "label"}
    \/ b \in Branched(blocks)
    \/ \E i \in 1..Depth : b \in Droppable(Owner(i))

(* The loops an exit may leave are those around it in its body.            *)
LoopsIn(i) ==
  LET q == Owner(i)
  IN  CASE prog[q].kind \in LoopKinds ->
             Append(frames[i].loops, [merge |-> Merge(q), name |-> prog[q].name])
        [] prog[q].kind = "subp" -> <<>>
        [] OTHER -> frames[i].loops

LoopsInv ==
  /\ loops = IF Depth = 0 THEN <<>> ELSE LoopsIn(Depth)
  /\ \A i \in 1..Depth :
       /\ frames[i].loops = IF i = 1 THEN <<>> ELSE LoopsIn(i - 1)
       /\ \A j \in DOMAIN frames[i].loops : \E k \in 1..(i - 1) :
            /\ frames[i].loops[j].merge = Merge(Owner(k))
            /\ prog[Owner(k)].kind \in LoopKinds

IInv ==
  /\ DescentInv /\ BlocksInv /\ InsertInv /\ OpenInv /\ OrphanInv /\ LoopsInv

-----------------------------------------------------------------------------
(* Paths *)

LEMMA PathFacts ==
  ASSUME NEW q, IsPath(q)
  PROVE  /\ q \in Seq(Nat \ {0}) /\ q \in Seq(Nat)
         /\ Len(q) \in Nat /\ Len(q) >= 1 /\ (Len(q) > 1 => Len(q) >= 3)
         /\ \A j \in 1..Len(q) : q[j] \in Nat \ {0}
<1>1. q \in Seq(Nat \ {0}) /\ Len(q) % 2 = 1 /\ Len(q) \in Nat BY DEF IsPath
<1>2. \A n \in Nat : n % 2 = 1 => n >= 1 /\ (n > 1 => n >= 3)
  OBVIOUS
<1>3. q \in Seq(Nat) BY <1>1
<1>4. QED BY <1>1, <1>2, <1>3, ElementOfSeq

LEMMA AfterFacts ==
  ASSUME NEW q, IsPath(q)
  PROVE  /\ IsPath(After(q)) /\ Len(After(q)) = Len(q)
         /\ \A j \in 1..(Len(q) - 1) : After(q)[j] = q[j]
         /\ After(q)[Len(q)] = q[Len(q)] + 1
         /\ \A m \in 0..(Len(q) - 1) : SubSeq(After(q), 1, m) = SubSeq(q, 1, m)
<1> DEFINE n == Len(q)
<1>1. q \in Seq(Nat \ {0}) /\ n \in Nat /\ n >= 1 /\ q[n] + 1 \in Nat \ {0}
  BY PathFacts
<1>2. /\ After(q) \in Seq(Nat \ {0}) /\ Len(After(q)) = n
      /\ \A j \in 1..n : After(q)[j] = IF j = n THEN q[n] + 1 ELSE q[j]
  <2>1. n \in 1..Len(q) BY <1>1
  <2>2. After(q) = [q EXCEPT ![n] = q[n] + 1] BY DEF After
  <2>3. QED BY <1>1, <2>1, <2>2, ExceptSeq
<1>3. \A j \in 1..(n - 1) : After(q)[j] = q[j] BY <1>1, <1>2
<1>4. ASSUME NEW m \in 0..(n - 1) PROVE SubSeq(After(q), 1, m) = SubSeq(q, 1, m)
  BY <1>1, <1>2, <1>3, SameHead
<1>5. QED BY <1>1, <1>2, <1>3, <1>4 DEF IsPath

LEMMA FirstFacts ==
  ASSUME NEW q, IsPath(q), NEW p \in Nat \ {0}
  PROVE  /\ IsPath(First(q, p)) /\ Len(First(q, p)) = Len(q) + 2
         /\ \A j \in 1..Len(q) : First(q, p)[j] = q[j]
         /\ First(q, p)[Len(q) + 1] = p /\ First(q, p)[Len(q) + 2] = 1
         /\ \A m \in 0..Len(q) : SubSeq(First(q, p), 1, m) = SubSeq(q, 1, m)
         /\ SubSeq(First(q, p), 1, Len(q)) = q
<1> DEFINE n == Len(q)
           f == First(q, p)
<1>1. q \in Seq(Nat \ {0}) /\ n \in Nat /\ n >= 1 BY PathFacts
<1>2. <<p, 1>> \in Seq(Nat \ {0}) /\ Len(<<p, 1>>) = 2 /\ <<p, 1>>[1] = p /\ <<p, 1>>[2] = 1
  OBVIOUS
<1>3. /\ f \in Seq(Nat \ {0}) /\ Len(f) = n + 2
      /\ \A i \in 1..(n + 2) : f[i] = IF i <= n THEN q[i] ELSE <<p, 1>>[i - n]
  BY <1>1, <1>2, ConcatProperties DEF First
<1>4. /\ \A j \in 1..n : f[j] = q[j]
      /\ f[n + 1] = p /\ f[n + 2] = 1
  <2>1. n + 1 \in 1..(n + 2) /\ n + 2 \in 1..(n + 2) /\ n + 1 - n = 1 /\ n + 2 - n = 2
    BY <1>1
  <2>2. f[n + 1] = <<p, 1>>[1]
    <3>1. f[n + 1] = IF n + 1 <= n THEN q[n + 1] ELSE <<p, 1>>[n + 1 - n]
      BY <1>3, <2>1
    <3>2. ~(n + 1 <= n) BY <1>1
    <3>3. QED BY <2>1, <3>1, <3>2
  <2>3. f[n + 2] = <<p, 1>>[2]
    <3>1. f[n + 2] = IF n + 2 <= n THEN q[n + 2] ELSE <<p, 1>>[n + 2 - n]
      BY <1>3, <2>1
    <3>2. ~(n + 2 <= n) BY <1>1
    <3>3. QED BY <2>1, <3>1, <3>2
  <2>4. QED BY <1>1, <1>2, <1>3, <2>2, <2>3
<1>5. ASSUME NEW m \in 0..n PROVE SubSeq(f, 1, m) = SubSeq(q, 1, m)
  BY <1>1, <1>3, <1>4, SameHead
<1>6. SubSeq(q, 1, n) = q BY <1>1, SubSeqFull
<1>7. (n + 2) % 2 = 1
  <2>1. n % 2 = 1 BY DEF IsPath
  <2>2. QED BY <1>1, <2>1
<1>8. n \in 0..n BY <1>1
<1>9. SubSeq(f, 1, n) = q BY <1>5, <1>6, <1>8
<1>10. QED BY <1>3, <1>4, <1>5, <1>7, <1>9 DEF IsPath

LEMMA OuterFacts ==
  ASSUME NEW q, IsPath(q), Len(q) > 1
  PROVE  /\ IsPath(Outer(q)) /\ Len(Outer(q)) = Len(q) - 2
         /\ \A j \in 1..(Len(q) - 2) : Outer(q)[j] = q[j]
         /\ \A m \in 0..(Len(q) - 2) : SubSeq(Outer(q), 1, m) = SubSeq(q, 1, m)
<1> DEFINE n == Len(q)
           f == Outer(q)
<1>1. q \in Seq(Nat \ {0}) /\ n \in Nat /\ n >= 3 BY PathFacts
<1>2. f \in Seq(Nat \ {0}) /\ Len(f) = n - 2 /\ \A i \in 1..(n - 2) : f[i] = q[i]
  BY <1>1 DEF Outer
<1>3. (n - 2) % 2 = 1
  <2>1. n % 2 = 1 BY DEF IsPath
  <2>2. QED BY <1>1, <2>1
<1>4. ASSUME NEW m \in 0..(n - 2) PROVE SubSeq(f, 1, m) = SubSeq(q, 1, m)
  BY <1>1, <1>2, SameHead
<1>5. QED BY <1>2, <1>3, <1>4 DEF IsPath

-----------------------------------------------------------------------------
(* The order of the visit *)

LEMMA NotBegun ==
  ASSUME NEW q, IsPath(q)
  PROVE  /\ ~Begun(q, q)
         /\ \A m \in 1..Len(q) : /\ ~Precedes(SubSeq(q, 1, m), q)
                                 /\ ~Begun(q, SubSeq(q, 1, m))
<1>1. q \in Seq(Nat) /\ Len(q) \in Nat /\ \A j \in 1..Len(q) : q[j] \in Nat
  BY PathFacts
<1>2. \A m \in 1..Len(q) : /\ Len(SubSeq(q, 1, m)) = m
                           /\ \A j \in 1..m : SubSeq(q, 1, m)[j] = q[j]
  BY <1>1
<1>3. QED BY <1>1, <1>2 DEF Begun, Precedes, Surrounds

(* The visit goes on behind a statement, into it, or behind the one around *)
(* it or into the next part of that.                                       *)
Onward(q, t) ==
  \/ t = After(q)
  \/ \E p \in Nat \ {0} : t = First(q, p)
  \/ Len(q) > 1 /\ t = After(Outer(q))
  \/ Len(q) > 1 /\ t = First(Outer(q), Part(q) + 1)

LEMMA OrderKept ==
  ASSUME NEW q, IsPath(q), NEW t, Onward(q, t), NEW r \in Seq(Nat)
  PROVE  /\ IsPath(t)
         /\ Begun(r, q) => Begun(r, t)
         /\ Precedes(r, q) => Precedes(r, t)
<1> DEFINE n == Len(q)
<1>1. n \in Nat /\ n >= 1 /\ (n > 1 => n >= 3) /\ \A j \in 1..n : q[j] \in Nat \ {0}
  BY PathFacts
<1>2. Len(r) \in Nat /\ \A j \in 1..Len(r) : r[j] \in Nat
  OBVIOUS
<1>3. CASE t = After(q)
  <2>1. /\ IsPath(t) /\ Len(t) = n /\ \A j \in 1..(n - 1) : t[j] = q[j]
        /\ t[n] = q[n] + 1
    BY <1>3, AfterFacts
  <2>2. ASSUME Precedes(r, q) PROVE Precedes(r, t)
    <3>1. PICK k \in 1..Len(r) : k <= n /\ r[k] < q[k] /\ \A j \in 1..(k - 1) : r[j] = q[j]
      BY <2>2 DEF Precedes
    <3>2. r[k] < t[k] /\ \A j \in 1..(k - 1) : r[j] = t[j]
      <4>1. \A j \in 1..(k - 1) : j \in 1..(n - 1) BY <1>1, <1>2, <3>1
      <4>2. k = n \/ k \in 1..(n - 1) BY <1>1, <1>2, <3>1
      <4>3. r[k] \in Nat /\ q[k] \in Nat BY <1>1, <1>2, <3>1, <4>2
      <4>4. t[k] = q[k] \/ t[k] = q[k] + 1 BY <2>1, <4>2
      <4>5. QED BY <2>1, <3>1, <4>1, <4>3, <4>4
    <3>3. QED BY <2>1, <3>1, <3>2 DEF Precedes
  <2>3. ASSUME Surrounds(r, q) PROVE Surrounds(r, t)
    BY <1>1, <1>2, <2>1, <2>3 DEF Surrounds
  <2>4. QED BY <2>1, <2>2, <2>3 DEF Begun
<1>4. ASSUME NEW p \in Nat \ {0}, t = First(q, p)
      PROVE  IsPath(t) /\ (Begun(r, q) => Begun(r, t)) /\ (Precedes(r, q) => Precedes(r, t))
  <2>1. IsPath(t) /\ Len(t) = n + 2 /\ \A j \in 1..n : t[j] = q[j]
    BY <1>4, FirstFacts
  <2>2. ASSUME Precedes(r, q) PROVE Precedes(r, t)
    <3>1. PICK k \in 1..Len(r) : k <= n /\ r[k] < q[k] /\ \A j \in 1..(k - 1) : r[j] = q[j]
      BY <2>2 DEF Precedes
    <3>2. r[k] < t[k] /\ \A j \in 1..(k - 1) : r[j] = t[j]
      BY <1>1, <1>2, <2>1, <3>1
    <3>3. k <= Len(t) BY <1>1, <1>2, <2>1, <3>1
    <3>4. QED BY <3>1, <3>2, <3>3 DEF Precedes
  <2>3. ASSUME Surrounds(r, q) PROVE Surrounds(r, t)
    BY <1>1, <1>2, <2>1, <2>3 DEF Surrounds
  <2>4. QED BY <2>1, <2>2, <2>3 DEF Begun
<1>5. CASE n > 1 /\ t = After(Outer(q))
  <2>1. PICK m \in Nat : m = n - 2 /\ m >= 1 BY <1>1, <1>5
  <2>2. IsPath(Outer(q)) /\ Len(Outer(q)) = m /\ \A j \in 1..m : Outer(q)[j] = q[j]
    BY <1>5, <2>1, OuterFacts
  <2>3. /\ IsPath(t) /\ Len(t) = m /\ \A j \in 1..(m - 1) : t[j] = Outer(q)[j]
        /\ t[m] = Outer(q)[m] + 1
    BY <1>5, <2>2, AfterFacts
  <2>4. (\A j \in 1..(m - 1) : t[j] = q[j]) /\ t[m] = q[m] + 1 /\ q[m] \in Nat
    <3>1. m \in 1..m /\ m \in 1..n /\ 1..(m - 1) \subseteq 1..m BY <1>1, <2>1
    <3>2. q[m] \in Nat /\ t[m] = q[m] + 1 BY <1>1, <2>2, <2>3, <3>1
    <3>3. \A j \in 1..(m - 1) : t[j] = q[j] BY <2>2, <2>3, <3>1
    <3>4. QED BY <3>2, <3>3
  <2>5. ASSUME Precedes(r, q) PROVE Precedes(r, t)
    <3>1. PICK k \in 1..Len(r) : k <= n /\ r[k] < q[k] /\ \A j \in 1..(k - 1) : r[j] = q[j]
      BY <2>5 DEF Precedes
    <3>2. CASE k <= m
      <4>1. r[k] < t[k] /\ \A j \in 1..(k - 1) : r[j] = t[j]
        BY <1>1, <1>2, <2>4, <3>1, <3>2
      <4>2. QED BY <2>3, <3>1, <3>2, <4>1 DEF Precedes
    <3>3. CASE k > m
      <4>1. m \in 1..Len(r) /\ r[m] < t[m] /\ \A j \in 1..(m - 1) : r[j] = t[j]
        <5>1. m \in 1..Len(r) /\ m \in 1..(k - 1) /\ 1..(m - 1) \subseteq 1..(k - 1)
          BY <1>2, <2>1, <3>1, <3>3
        <5>2. r[m] = q[m] /\ \A j \in 1..(m - 1) : r[j] = q[j] BY <3>1, <5>1
        <5>3. QED BY <2>4, <5>1, <5>2
      <4>2. m <= Len(t) BY <2>3
      <4>3. QED BY <4>1, <4>2 DEF Precedes
    <3>4. QED BY <2>1, <3>1, <3>2, <3>3
  <2>6. ASSUME Surrounds(r, q) PROVE Begun(r, t)
    <3>1. Len(r) < n /\ \A j \in 1..Len(r) : r[j] = q[j] BY <2>6 DEF Surrounds
    <3>2. CASE Len(r) < m
      <4>1. \A j \in 1..Len(r) : r[j] = t[j] BY <1>2, <2>1, <2>4, <3>1, <3>2
      <4>2. QED BY <2>3, <3>2, <4>1 DEF Begun, Surrounds
    <3>3. CASE ~(Len(r) < m)
      <4>1. m \in 1..Len(r) /\ r[m] < t[m] /\ \A j \in 1..(m - 1) : r[j] = t[j]
        <5>1. m \in 1..Len(r) /\ m \in 1..Len(r) /\ 1..(m - 1) \subseteq 1..Len(r)
          BY <1>2, <2>1, <3>1, <3>3
        <5>2. r[m] = q[m] /\ \A j \in 1..(m - 1) : r[j] = q[j] BY <3>1, <5>1
        <5>3. QED BY <2>4, <5>1, <5>2
      <4>2. m <= Len(t) BY <2>3
      <4>3. QED BY <4>1, <4>2 DEF Begun, Precedes
    <3>4. QED BY <3>2, <3>3
  <2>7. QED BY <2>3, <2>5, <2>6 DEF Begun
<1>6. CASE n > 1 /\ t = First(Outer(q), Part(q) + 1)
  <2>1. PICK m \in Nat : m = n - 2 /\ m >= 1 BY <1>1, <1>6
  <2>2. IsPath(Outer(q)) /\ Len(Outer(q)) = m /\ \A j \in 1..m : Outer(q)[j] = q[j]
    BY <1>6, <2>1, OuterFacts
  <2>3. Part(q) = q[m + 1] /\ q[m + 1] \in Nat /\ Part(q) + 1 \in Nat \ {0}
    BY <1>1, <2>1 DEF Part
  <2>4. /\ IsPath(t) /\ Len(t) = n /\ \A j \in 1..m : t[j] = Outer(q)[j]
        /\ t[m + 1] = q[m + 1] + 1
    <3>1. /\ IsPath(t) /\ Len(t) = m + 2 /\ \A j \in 1..m : t[j] = Outer(q)[j]
          /\ t[m + 1] = Part(q) + 1
      BY <1>6, <2>2, <2>3, FirstFacts
    <3>2. m + 2 = n BY <1>1, <2>1
    <3>3. QED BY <2>3, <3>1, <3>2
  <2>5. \A j \in 1..m : t[j] = q[j] BY <2>2, <2>4
  <2>6. ASSUME Precedes(r, q) PROVE Precedes(r, t)
    <3>1. PICK k \in 1..Len(r) : k <= n /\ r[k] < q[k] /\ \A j \in 1..(k - 1) : r[j] = q[j]
      BY <2>6 DEF Precedes
    <3>2. CASE k <= m + 1
      <4>1. r[k] < t[k]
        <5>1. CASE k = m + 1 BY <1>2, <2>3, <2>4, <3>1, <5>1
        <5>2. CASE k # m + 1
          <6>1. k \in 1..m BY <2>1, <3>1, <3>2, <5>2
          <6>2. QED BY <2>5, <3>1, <6>1
        <5>3. QED BY <5>1, <5>2
      <4>2. \A j \in 1..(k - 1) : r[j] = t[j]
        <5>1. 1..(k - 1) \subseteq 1..m BY <2>1, <3>1, <3>2
        <5>2. QED BY <2>5, <3>1, <5>1
      <4>3. QED BY <2>4, <3>1, <4>1, <4>2 DEF Precedes
    <3>3. CASE k > m + 1
      <4>1. m + 1 \in 1..Len(r) /\ r[m + 1] < t[m + 1] /\ \A j \in 1..m : r[j] = t[j]
        <5>1. m + 1 \in 1..Len(r) /\ m + 1 \in 1..(k - 1) /\ 1..m \subseteq 1..(k - 1)
          BY <1>2, <2>1, <3>1, <3>3
        <5>2. r[m + 1] = q[m + 1] /\ \A j \in 1..m : r[j] = q[j] BY <3>1, <5>1
        <5>3. QED BY <2>3, <2>4, <2>5, <5>1, <5>2
      <4>2. m + 1 <= Len(t) /\ (m + 1) - 1 = m BY <1>1, <2>1, <2>4
      <4>3. QED BY <4>1, <4>2 DEF Precedes
    <3>4. QED BY <2>1, <3>1, <3>2, <3>3
  <2>7. ASSUME Surrounds(r, q) PROVE Begun(r, t)
    <3>1. Len(r) < n /\ \A j \in 1..Len(r) : r[j] = q[j] BY <2>7 DEF Surrounds
    <3>2. CASE Len(r) <= m
      <4>1. (\A j \in 1..Len(r) : r[j] = t[j]) /\ Len(r) < Len(t)
        BY <1>2, <2>1, <2>4, <2>5, <3>1, <3>2
      <4>2. QED BY <4>1 DEF Begun, Surrounds
    <3>3. CASE ~(Len(r) <= m)
      <4>1. m + 1 \in 1..Len(r) /\ r[m + 1] < t[m + 1] /\ \A j \in 1..m : r[j] = t[j]
        <5>1. m + 1 \in 1..Len(r) /\ m + 1 \in 1..Len(r) /\ 1..m \subseteq 1..Len(r)
          BY <1>2, <2>1, <3>1, <3>3
        <5>2. r[m + 1] = q[m + 1] /\ \A j \in 1..m : r[j] = q[j] BY <3>1, <5>1
        <5>3. QED BY <2>3, <2>4, <2>5, <5>1, <5>2
      <4>2. m + 1 <= Len(t) /\ (m + 1) - 1 = m BY <1>1, <2>1, <2>4
      <4>3. QED BY <4>1, <4>2 DEF Begun, Precedes
    <3>4. QED BY <3>2, <3>3
  <2>8. QED BY <2>4, <2>6, <2>7 DEF Begun
<1>7. QED BY <1>3, <1>4, <1>5, <1>6 DEF Onward

(* What is left lies before what follows.                                  *)
LEMMA LeftPrecedes ==
  ASSUME NEW q, IsPath(q)
  PROVE  /\ Precedes(q, After(q))
         /\ \A p \in Nat \ {0} : Begun(q, First(q, p)) /\ Begun(Append(q, p), First(q, p))
         /\ \A p \in Nat \ {0} : Precedes(Append(q, p), First(q, p + 1))
<1> DEFINE n == Len(q)
<1>1. n \in Nat /\ n >= 1 /\ q \in Seq(Nat) /\ \A j \in 1..n : q[j] \in Nat \ {0}
  BY PathFacts
<1>2. Precedes(q, After(q))
  <2>1. /\ Len(After(q)) = n /\ \A j \in 1..(n - 1) : After(q)[j] = q[j]
        /\ After(q)[n] = q[n] + 1
    BY AfterFacts
  <2>2. n \in 1..n /\ q[n] < After(q)[n] /\ q[n] \in Nat BY <1>1, <2>1
  <2>3. QED BY <2>1, <2>2 DEF Precedes
<1>3. ASSUME NEW p \in Nat \ {0}
      PROVE  /\ Begun(q, First(q, p)) /\ Begun(Append(q, p), First(q, p))
             /\ Precedes(Append(q, p), First(q, p + 1))
  <2>1. /\ Len(First(q, p)) = n + 2 /\ \A j \in 1..n : First(q, p)[j] = q[j]
        /\ First(q, p)[n + 1] = p
    BY FirstFacts
  <2>2. p + 1 \in Nat \ {0}
    OBVIOUS
  <2>3. /\ Len(First(q, p + 1)) = n + 2 /\ \A j \in 1..n : First(q, p + 1)[j] = q[j]
        /\ First(q, p + 1)[n + 1] = p + 1
    BY <2>2, FirstFacts
  <2>4. /\ Len(Append(q, p)) = n + 1 /\ \A j \in 1..n : Append(q, p)[j] = q[j]
        /\ Append(q, p)[n + 1] = p
    BY <1>1
  <2>5. Begun(q, First(q, p)) BY <1>1, <2>1 DEF Begun, Surrounds
  <2>6. Begun(Append(q, p), First(q, p))
    <3>1. \A j \in 1..(n + 1) : Append(q, p)[j] = First(q, p)[j]
      BY <1>1, <2>1, <2>4
    <3>2. QED BY <1>1, <2>1, <2>4, <3>1 DEF Begun, Surrounds
  <2>7. Precedes(Append(q, p), First(q, p + 1))
    <3>1. /\ n + 1 \in 1..(n + 1) /\ n + 1 <= n + 2 /\ p < p + 1
          /\ \A j \in 1..((n + 1) - 1) : Append(q, p)[j] = First(q, p + 1)[j]
      BY <1>1, <2>3, <2>4
    <3>2. QED BY <2>3, <2>4, <3>1 DEF Precedes
  <2>8. QED BY <2>5, <2>6, <2>7
<1>4. QED BY <1>2, <1>3

-----------------------------------------------------------------------------
(* Positions of a program *)

LEMMA PositionsAre == Ada!Positions = DOMAIN prog \union {After(q) : q \in DOMAIN prog}
BY DEF Ada!Positions, Ada!After, After

LEMMA TopFacts ==
  /\ IsPath(Top) /\ Len(Top) = 1
  /\ IsPath(After(Top)) /\ Len(After(Top)) = 1
<1>1. Top \in Seq(Nat \ {0}) /\ Len(Top) = 1 /\ 1 % 2 = 1 BY DEF Top
<1>2. IsPath(Top) BY <1>1 DEF IsPath
<1>3. QED BY <1>1, <1>2, AfterFacts

LEMMA ProgramFacts ==
  ASSUME prog \in Programs
  PROVE  /\ Top \in DOMAIN prog /\ prog[Top].kind = "subp"
         /\ After(Top) \notin DOMAIN prog
         /\ \A q \in DOMAIN prog :
              /\ IsPath(q)
              /\ Len(q) = 1 => q = Top
              /\ q # Top => Len(q) > 1 /\ Outer(q) \in DOMAIN prog /\ Part(q) \in 1..Parts(prog[Outer(q)])
              /\ prog[q].kind = "if" =>
                   prog[q].guards \in Nat \ {0} /\ prog[q].hasElse \in BOOLEAN
              /\ \A i \in 1..Parts(prog[q]) : First(q, i) \in DOMAIN prog
<1>1. WellFormed(prog) BY ProgramsWellFormed
<1>2. Top \in DOMAIN prog /\ prog[Top].kind = "subp"
  BY <1>1 DEF WellFormed, Subps
<1>3. \A q \in DOMAIN prog :
        /\ IsPath(q)
        /\ prog[q].kind = "if" => prog[q].guards \in Nat \ {0} /\ prog[q].hasElse \in BOOLEAN
  BY <1>1 DEF WellFormed
<1>4. \A q \in DOMAIN prog \ {Top} : Outer(q) \in DOMAIN prog /\ Part(q) \in 1..Parts(prog[Outer(q)])
  BY <1>1 DEF WellFormed
<1>5. \A q \in DOMAIN prog : \A i \in 1..Parts(prog[q]) : First(q, i) \in DOMAIN prog
  BY <1>1 DEF WellFormed
<1>6. ASSUME NEW q \in DOMAIN prog, Len(q) = 1 PROVE q = Top
  <2> SUFFICES ASSUME q # Top PROVE FALSE
    OBVIOUS
  <2>1. IsPath(Outer(q)) BY <1>3, <1>4
  <2>2. q \in Seq(Nat) BY <1>3, PathFacts
  <2>3. Len(Outer(q)) = 0 BY <1>6, <2>2 DEF Outer
  <2>4. QED BY <2>1, <2>3, PathFacts
<1>7. ASSUME NEW q \in DOMAIN prog, q # Top PROVE Len(q) > 1
  <2>1. Len(q) \in Nat /\ Len(q) >= 1 BY <1>3, PathFacts
  <2>2. Len(q) # 1 BY <1>6, <1>7
  <2>3. \A n \in Nat : n >= 1 /\ n # 1 => n > 1
    OBVIOUS
  <2>4. QED BY <2>1, <2>2, <2>3
<1>8. After(Top) # Top BY TopFacts, NotBegun, LeftPrecedes DEF Begun
<1>9. After(Top) \notin DOMAIN prog BY <1>6, <1>8, TopFacts
<1>10. QED BY <1>2, <1>3, <1>4, <1>5, <1>6, <1>7, <1>9

LEMMA PositionFacts ==
  ASSUME DescentInv
  PROVE  /\ IsPath(pos) /\ Depth \in Nat
         /\ Depth = 0 <=> pos \in {Top, After(Top)}
         /\ Depth > 0 => /\ Len(pos) > 1 /\ Outer(pos) = Owner(Depth) /\ Part(pos) = PartOf(Depth)
                         /\ Depth \in 1..Depth
         /\ \A i \in 1..Depth :
              /\ 2 * i - 1 \in 1..Len(pos) /\ Owner(i) \in DOMAIN prog /\ IsPath(Owner(i))
              /\ Len(Owner(i)) = 2 * i - 1
              /\ \A j \in 1..(2 * i - 1) : Owner(i)[j] = pos[j]
<1>1. prog \in Programs /\ Depth \in Nat /\ Len(pos) = 2 * Depth + 1
  BY DEF DescentInv, Depth
<1>2. IsPath(pos) /\ (Len(pos) = 1 => pos \in {Top, After(Top)})
  <2>1. pos \in DOMAIN prog \/ \E q \in DOMAIN prog : pos = After(q)
    BY PositionsAre DEF DescentInv
  <2>2. QED BY <1>1, <2>1, ProgramFacts, AfterFacts
<1>3. Depth = 0 <=> pos \in {Top, After(Top)}
  <2>1. Depth = 0 => Len(pos) = 1 BY <1>1
  <2>2. pos \in {Top, After(Top)} => Len(pos) = 1 BY TopFacts
  <2>3. Len(pos) = 1 => Depth = 0
    <3>1. \A d \in Nat : 1 = 2 * d + 1 => d = 0
      OBVIOUS
    <3>2. QED BY <1>1, <3>1
  <2>4. QED BY <1>2, <2>1, <2>2, <2>3
<1>4. pos \in Seq(Nat) BY <1>2, PathFacts
<1>5. ASSUME NEW i \in 1..Depth
      PROVE  /\ 2 * i - 1 \in 1..Len(pos) /\ Owner(i) \in DOMAIN prog /\ IsPath(Owner(i))
             /\ Len(Owner(i)) = 2 * i - 1
             /\ \A j \in 1..(2 * i - 1) : Owner(i)[j] = pos[j]
  <2>1. 2 * i - 1 \in 1..Len(pos) /\ 2 * i - 1 \in Nat BY <1>1
  <2>2. Owner(i) \in DOMAIN prog BY DEF DescentInv
  <2>3. Len(Owner(i)) = 2 * i - 1 /\ \A j \in 1..(2 * i - 1) : Owner(i)[j] = pos[j]
    BY <1>4, <2>1 DEF Owner
  <2>4. QED BY <1>1, <2>1, <2>2, <2>3, ProgramFacts
<1>6. ASSUME Depth > 0
      PROVE  Len(pos) > 1 /\ Outer(pos) = Owner(Depth) /\ Part(pos) = PartOf(Depth) /\ Depth \in 1..Depth
  <2>1. Len(pos) - 2 = 2 * Depth - 1 /\ Len(pos) - 1 = 2 * Depth BY <1>1
  <2>2. QED BY <1>1, <1>6, <2>1 DEF Outer, Owner, Part, PartOf
<1>7. QED BY <1>1, <1>2, <1>3, <1>5, <1>6

(* Where a statement, or the end of a sequence, is visited.                *)
LEMMA VisitFacts ==
  ASSUME DescentInv
  PROVE  /\ pos \in DOMAIN prog /\ pos # Top => Depth > 0
         /\ pos \notin DOMAIN prog /\ pos # After(Top) => Depth > 0 /\ Owner(Depth) \in DOMAIN prog
<1>1. prog \in Programs /\ Depth \in Nat /\ (Depth = 0 <=> pos \in {Top, After(Top)})
  BY PositionFacts DEF DescentInv
<1>2. Depth > 0 => Owner(Depth) \in DOMAIN prog BY PositionFacts
<1>3. QED BY <1>1, <1>2, ProgramFacts

-----------------------------------------------------------------------------
(* Moves of the visit *)

(* After a step, of the statements around the position the n outermost are *)
(* those there were, and d there are.                                      *)
Moved(n, d) ==
  /\ prog' = prog /\ Onward(pos, pos')
  /\ n \in Nat /\ d \in Nat /\ n <= d /\ n <= Depth /\ Depth' = d
  /\ IsPath(pos') /\ Len(pos') = 2 * d + 1 /\ pos' \in Ada!Positions
  /\ \A i \in 1..n : Owner(i)' = Owner(i) /\ PartOf(i)' = PartOf(i) /\ frames'[i] = frames[i]

LEMMA MoveAfter ==
  ASSUME DescentInv, pos \in DOMAIN prog, prog' = prog, pos' = After(pos), frames' = frames
  PROVE  Moved(Depth, Depth)
<1>1. IsPath(pos) /\ Depth \in Nat /\ Len(pos) = 2 * Depth + 1
  BY PositionFacts DEF DescentInv
<1>2. /\ IsPath(pos') /\ Len(pos') = 2 * Depth + 1
      /\ \A j \in 1..(Len(pos) - 1) : pos'[j] = pos[j]
      /\ \A m \in 0..(Len(pos) - 1) : SubSeq(pos', 1, m) = SubSeq(pos, 1, m)
  BY <1>1, AfterFacts
<1>3. ASSUME NEW i \in 1..Depth
      PROVE  Owner(i)' = Owner(i) /\ PartOf(i)' = PartOf(i)
  <2>1. 2 * i \in 1..(Len(pos) - 1) /\ 2 * i - 1 \in 0..(Len(pos) - 1) BY <1>1
  <2>2. QED BY <1>2, <2>1 DEF Owner, PartOf
<1>4. Onward(pos, pos') /\ pos' \in Ada!Positions BY PositionsAre DEF Onward
<1>5. Depth' = Depth BY DEF Depth
<1>6. QED BY <1>1, <1>2, <1>3, <1>4, <1>5 DEF Moved

LEMMA MoveInto ==
  ASSUME DescentInv, pos \in DOMAIN prog, 1 \in 1..Parts(prog[pos]), prog' = prog,
         NEW frame \in Frames, Enter(1, frame), NEW d \in Nat, d = Depth + 1
  PROVE  /\ Moved(Depth, d)
         /\ Owner(d)' = pos /\ PartOf(d)' = 1
         /\ frames'[d] = frame /\ frames' \in Seq(Frames)
<1>1. IsPath(pos) /\ Depth \in Nat /\ Len(pos) = 2 * Depth + 1 /\ frames \in Seq(Frames)
  BY PositionFacts DEF DescentInv
<1>2. pos' = First(pos, 1) /\ frames' = Append(frames, frame) /\ 1 \in Nat \ {0}
  BY DEF Enter
<1>3. /\ IsPath(pos') /\ Len(pos') = Len(pos) + 2
      /\ \A j \in 1..Len(pos) : pos'[j] = pos[j]
      /\ pos'[Len(pos) + 1] = 1
      /\ \A m \in 0..Len(pos) : SubSeq(pos', 1, m) = SubSeq(pos, 1, m)
      /\ SubSeq(pos', 1, Len(pos)) = pos
  BY <1>1, <1>2, FirstFacts
<1>4. /\ frames' \in Seq(Frames) /\ Depth' = Depth + 1
      /\ \A i \in 1..Depth : frames'[i] = frames[i]
      /\ frames'[Depth + 1] = frame
  BY <1>1, <1>2, AppendProperties DEF Depth
<1>5. ASSUME NEW i \in 1..Depth
      PROVE  Owner(i)' = Owner(i) /\ PartOf(i)' = PartOf(i)
  <2>1. 2 * i \in 1..Len(pos) /\ 2 * i - 1 \in 0..Len(pos) BY <1>1
  <2>2. QED BY <1>3, <2>1 DEF Owner, PartOf
<1>6. Onward(pos, pos') /\ pos' \in Ada!Positions
  BY <1>2, PositionsAre, ProgramFacts DEF Onward, DescentInv
<1>7. Owner(d)' = pos /\ PartOf(d)' = 1
  <2>1. 2 * d - 1 = Len(pos) /\ 2 * d = Len(pos) + 1 BY <1>1
  <2>2. Owner(d)' = SubSeq(pos', 1, Len(pos)) /\ PartOf(d)' = pos'[Len(pos) + 1]
    BY <2>1 DEF Owner, PartOf
  <2>3. QED BY <1>3, <2>2
<1>8. Len(pos') = 2 * d + 1 /\ Depth <= d /\ Depth <= Depth BY <1>1, <1>3
<1>9. QED BY <1>1, <1>3, <1>4, <1>5, <1>6, <1>7, <1>8 DEF Moved

LEMMA MoveOut ==
  ASSUME DescentInv, Depth > 0, prog' = prog, LeaveTo(After(Outer(pos)))
  PROVE  Moved(Depth - 1, Depth - 1) /\ pos' = After(Owner(Depth)) /\ frames' \in Seq(Frames)
<1>1. /\ IsPath(pos) /\ Depth \in Nat /\ Len(pos) = 2 * Depth + 1 /\ frames \in Seq(Frames)
      /\ Len(pos) > 1 /\ Outer(pos) = Owner(Depth) /\ Depth \in 1..Depth
      /\ Owner(Depth) \in DOMAIN prog
  BY PositionFacts DEF DescentInv
<1>2. pos' = After(Outer(pos)) /\ frames' = SubSeq(frames, 1, Depth - 1)
  BY DEF LeaveTo, Depth
<1>3. PICK d \in Nat : d = Depth - 1 BY <1>1
<1>4. Depth = d + 1 /\ Len(pos) - 2 = 2 * d + 1 /\ Len(pos) - 3 = 2 * d
  BY <1>1, <1>3
<1>5. /\ IsPath(Outer(pos)) /\ Len(Outer(pos)) = 2 * d + 1
      /\ \A j \in 1..(2 * d + 1) : Outer(pos)[j] = pos[j]
      /\ \A m \in 0..(2 * d + 1) : SubSeq(Outer(pos), 1, m) = SubSeq(pos, 1, m)
  BY <1>1, <1>4, OuterFacts
<1>6. /\ IsPath(pos') /\ Len(pos') = 2 * d + 1
      /\ \A j \in 1..(2 * d) : pos'[j] = Outer(pos)[j]
      /\ \A m \in 0..(2 * d) : SubSeq(pos', 1, m) = SubSeq(Outer(pos), 1, m)
  <2>1. 2 * d + 1 - 1 = 2 * d BY <1>3
  <2>2. QED BY <1>2, <1>5, <2>1, AfterFacts
<1>7. ASSUME NEW i \in 1..d
      PROVE  Owner(i)' = Owner(i) /\ PartOf(i)' = PartOf(i)
  <2>1. /\ 2 * i \in 1..(2 * d) /\ 2 * i - 1 \in 0..(2 * d)
        /\ 2 * i \in 1..(2 * d + 1) /\ 2 * i - 1 \in 0..(2 * d + 1)
    BY <1>3
  <2>2. QED BY <1>5, <1>6, <2>1 DEF Owner, PartOf
<1>8. /\ frames' \in Seq(Frames) /\ Depth' = d
      /\ \A i \in 1..d : frames'[i] = frames[i]
  <2>1. d <= Len(frames) /\ frames' = SubSeq(frames, 1, d)
    BY <1>1, <1>2, <1>3, <1>4 DEF Depth
  <2>2. QED BY <1>1, <1>3, <2>1 DEF Depth
<1>9. Onward(pos, pos') /\ pos' \in Ada!Positions
  BY <1>1, <1>2, PositionsAre DEF Onward
<1>10. d \in Nat /\ d <= d /\ d <= Depth BY <1>3, <1>4
<1>11. Moved(d, d) BY <1>6, <1>7, <1>8, <1>9, <1>10 DEF Moved
<1>12. QED BY <1>1, <1>2, <1>3, <1>8, <1>11

LEMMA MovePart ==
  ASSUME DescentInv, Depth > 0, Part(pos) + 1 \in 1..Parts(prog[Outer(pos)]), prog' = prog,
         pos' = First(Outer(pos), Part(pos) + 1), frames' = frames
  PROVE  /\ Moved(Depth - 1, Depth)
         /\ Owner(Depth)' = Owner(Depth) /\ PartOf(Depth)' = PartOf(Depth) + 1
         /\ frames'[Depth] = frames[Depth]
<1>1. /\ IsPath(pos) /\ Depth \in Nat /\ Len(pos) = 2 * Depth + 1
      /\ Len(pos) > 1 /\ Outer(pos) = Owner(Depth) /\ Depth \in 1..Depth
      /\ Owner(Depth) \in DOMAIN prog /\ Part(pos) = PartOf(Depth)
  BY PositionFacts DEF DescentInv
<1>2. PICK d \in Nat : d = Depth - 1 BY <1>1
<1>3. /\ Depth = d + 1 /\ Len(pos) - 2 = 2 * d + 1 /\ Len(pos) = 2 * d + 3
      /\ 2 * Depth - 1 = 2 * d + 1 /\ 2 * Depth = 2 * d + 2
  BY <1>1, <1>2
<1>4. /\ IsPath(Outer(pos)) /\ Len(Outer(pos)) = 2 * d + 1
      /\ \A j \in 1..(2 * d + 1) : Outer(pos)[j] = pos[j]
      /\ \A m \in 0..(2 * d + 1) : SubSeq(Outer(pos), 1, m) = SubSeq(pos, 1, m)
  BY <1>1, <1>3, OuterFacts
<1>5. PICK p \in Nat \ {0} : p = Part(pos) + 1
  OBVIOUS
<1>6. /\ IsPath(pos') /\ Len(pos') = 2 * d + 3
      /\ \A j \in 1..(2 * d + 1) : pos'[j] = Outer(pos)[j]
      /\ pos'[2 * d + 2] = p
      /\ \A m \in 0..(2 * d + 1) : SubSeq(pos', 1, m) = SubSeq(Outer(pos), 1, m)
  <2>1. 2 * d + 1 + 1 = 2 * d + 2 /\ 2 * d + 1 + 2 = 2 * d + 3 /\ pos' = First(Outer(pos), p)
    BY <1>2, <1>5
  <2>2. PICK q : q = Outer(pos)
    OBVIOUS
  <2>3. IsPath(q) /\ Len(q) = 2 * d + 1 /\ pos' = First(q, p)
    BY <1>4, <2>1, <2>2
  <2>4. PICK t : t = First(q, p)
    OBVIOUS
  <2>5. /\ IsPath(t) /\ Len(t) = Len(q) + 2 /\ \A j \in 1..Len(q) : t[j] = q[j]
        /\ t[Len(q) + 1] = p
        /\ \A m \in 0..Len(q) : SubSeq(t, 1, m) = SubSeq(q, 1, m)
    BY <2>3, <2>4, FirstFacts
  <2>6. pos' = t BY <2>3, <2>4
  <2>7. QED BY <2>1, <2>2, <2>3, <2>5, <2>6
<1>7. ASSUME NEW i \in 1..d
      PROVE  Owner(i)' = Owner(i) /\ PartOf(i)' = PartOf(i)
  <2>1. 2 * i \in 1..(2 * d + 1) /\ 2 * i - 1 \in 0..(2 * d + 1) BY <1>2
  <2>2. QED BY <1>4, <1>6, <2>1 DEF Owner, PartOf
<1>8. Owner(Depth)' = Owner(Depth) /\ PartOf(Depth)' = PartOf(Depth) + 1
  <2>1. PICK e : e = Depth
    OBVIOUS
  <2>2. 2 * d + 1 \in 0..(2 * d + 1) BY <1>2
  <2>3. Owner(e)' = SubSeq(pos', 1, 2 * d + 1) /\ Owner(e) = SubSeq(pos, 1, 2 * d + 1)
    BY <1>3, <2>1 DEF Owner
  <2>4. PartOf(e)' = pos'[2 * d + 2] BY <1>3, <2>1 DEF PartOf
  <2>5. Depth' = Depth BY DEF Depth
  <2>6. QED BY <1>1, <1>4, <1>5, <1>6, <2>1, <2>2, <2>3, <2>4, <2>5
<1>9. Onward(pos, pos') /\ pos' \in Ada!Positions
  BY <1>1, PositionsAre, ProgramFacts DEF Onward, DescentInv
<1>10. d \in Nat /\ d <= Depth /\ Depth' = Depth /\ Len(pos') = 2 * Depth + 1
       /\ \A i \in 1..d : frames'[i] = frames[i]
  BY <1>1, <1>2, <1>3, <1>6 DEF Depth
<1>11. Moved(d, Depth) BY <1>1, <1>6, <1>7, <1>9, <1>10 DEF Moved
<1>12. QED BY <1>2, <1>8, <1>11

(* The descent goes on as it should when the statement entered last, or    *)
(* the part, is one of the program.                                        *)
LEMMA DescentMoved ==
  ASSUME DescentInv, NEW n, NEW d, Moved(n, d), pc' = "generate",
         frames' \in Seq(Frames), labels' \in Seq(DOMAIN prog), took' = took,
         \A i \in 1..d :
           i > n => Owner(i)' \in DOMAIN prog /\ PartOf(i)' \in 1..Parts(prog[Owner(i)'])
  PROVE  DescentInv'
<1>1. prog' = prog /\ Depth' = d /\ n \in Nat /\ d \in Nat /\ n <= d /\ n <= Depth
  BY DEF Moved
<1>2. \A i \in 1..d : Owner(i)' \in DOMAIN prog /\ PartOf(i)' \in 1..Parts(prog[Owner(i)'])
  <2> TAKE i \in 1..d
  <2>1. CASE i > n BY <2>1
  <2>2. CASE ~(i > n)
    <3>1. Depth \in Nat BY PositionFacts
    <3>2. i \in 1..n /\ i \in 1..Depth BY <1>1, <2>2, <3>1
    <3>3. QED BY <3>2 DEF Moved, DescentInv
  <2>3. QED BY <2>1, <2>2
<1>3. pos' \in Ada!Positions' /\ Len(pos') = 2 * d + 1
  BY <1>1 DEF Moved, Ada!Positions, Ada!After
<1>4. Frames' = Frames BY <1>1 DEF Frames, Names, LoopRecords
<1>5. QED BY <1>1, <1>2, <1>3, <1>4 DEF DescentInv

-----------------------------------------------------------------------------
(* Blocks and their ends *)

LEMMA EventFacts ==
  /\ Silent \in Events
  /\ \A q \in DOMAIN prog, n \in Nat : Event(q, n) \in Events
BY DEF Silent, Event, Events, Ada!Idle, Ada!Event

LEMMA EndFacts ==
  ASSUME NEW e \in Events
  PROVE  /\ Open \in Ends /\ Range(Open.to) = {}
         /\ Ret(e) \in Ends /\ Ret(e) # Open /\ Range(Ret(e).to) = {}
         /\ \A b \in Names :
              Br(e, b) \in Ends /\ Br(e, b) # Open /\ Range(Br(e, b).to) = {b}
         /\ \A b, c \in Names :
              /\ CondBr(e, b, c) \in Ends /\ CondBr(e, b, c) # Open
              /\ Range(CondBr(e, b, c).to) = {b, c}
<1>1. Open \in Ends /\ Range(Open.to) = {}
  BY EventFacts DEF Open, Ends, Ways, Range
<1>2. Ret(e) \in Ends /\ Ret(e) # Open /\ Range(Ret(e).to) = {}
  BY DEF Open, Ret, Ends, Ways, Range
<1>3. ASSUME NEW b \in Names
      PROVE  Br(e, b) \in Ends /\ Br(e, b) # Open /\ Range(Br(e, b).to) = {b}
  <2>1. Br(e, b) # Open BY DEF Open, Br
  <2>2. Br(e, b).to = <<b>> /\ Br(e, b).op = "br" BY DEF Br
  <2>3. DOMAIN <<b>> = {1} /\ <<b>>[1] = b /\ Len(<<b>>) = 1 /\ <<b>> \in Seq(Names)
    OBVIOUS
  <2>4. Br(e, b) \in Ends BY <2>2, <2>3 DEF Br, Ends, Ways
  <2>5. QED BY <2>1, <2>2, <2>3, <2>4 DEF Range
<1>4. ASSUME NEW b \in Names, NEW c \in Names
      PROVE  /\ CondBr(e, b, c) \in Ends /\ CondBr(e, b, c) # Open
             /\ Range(CondBr(e, b, c).to) = {b, c}
  <2>1. CondBr(e, b, c) \in Ends /\ CondBr(e, b, c) # Open
    BY DEF Open, CondBr, Ends, Ways
  <2>2. CondBr(e, b, c).to = <<b, c>> BY DEF CondBr
  <2>3. DOMAIN <<b, c>> = {1, 2} /\ <<b, c>>[1] = b /\ <<b, c>>[2] = c
    OBVIOUS
  <2>4. QED BY <2>1, <2>2, <2>3 DEF Range
<1>5. QED BY <1>1, <1>2, <1>3, <1>4

LEMMA EndsKept == prog' = prog => Ends' = Ends
BY DEF Ends, Names, Ways, Events, Open, Silent, Ada!Idle, Ada!Event

LEMMA NodeFacts ==
  ASSUME NEW B, Sound(B), NEW b \in DOMAIN B
  PROVE  /\ b \in Names /\ B[b] \in Nodes /\ B[b].code \in Seq(Events) /\ B[b].end \in Ends
         /\ B[b] = [code |-> B[b].code, end |-> B[b].end]
         /\ ~Terminated(B, b) => Range(B[b].end.to) = {}
         /\ Range(B[b].end.to) \subseteq Branched(B)
<1>1. b \in Names /\ B[b] \in Nodes BY DEF Sound
<1>2. ~Terminated(B, b) => Range(B[b].end.to) = {}
  BY EndFacts, EventFacts DEF Terminated
<1>3. Range(B[b].end.to) \subseteq Branched(B) BY DEF Branched
<1>4. QED BY <1>1, <1>2, <1>3 DEF Nodes

LEMMA BranchedIs ==
  ASSUME NEW B, NEW b
  PROVE  HasPredecessors(B, b) <=> b \in Branched(B)
BY DEF HasPredecessors, Branched

LEMMA CreatedFacts ==
  ASSUME NEW B, Sound(B), NEW S \in SUBSET Names
  PROVE  /\ Sound(Created(B, S)) /\ DOMAIN Created(B, S) = DOMAIN B \union S
         /\ Branched(Created(B, S)) = Branched(B)
         /\ \A b \in DOMAIN B : Created(B, S)[b] = B[b]
         /\ \A b \in S \ DOMAIN B : ~Terminated(Created(B, S), b)
<1> DEFINE C == Created(B, S)
           fresh == [code |-> <<>>, end |-> Open]
<1>1. /\ DOMAIN C = DOMAIN B \union S
      /\ \A b \in DOMAIN C : C[b] = IF b \in DOMAIN B THEN B[b] ELSE fresh
      /\ C = [b \in DOMAIN C |-> C[b]]
  BY DEF Created
<1>2. fresh \in Nodes /\ Range(fresh.end.to) = {}
  BY EndFacts, EventFacts DEF Nodes
<1>3. \A b \in DOMAIN C : C[b] \in Nodes BY <1>1, <1>2, NodeFacts
<1>4. Branched(C) = Branched(B)
  <2>1. ASSUME NEW c \in Branched(C) PROVE c \in Branched(B)
    <3>1. PICK b \in DOMAIN C : c \in Range(C[b].end.to) BY <2>1 DEF Branched
    <3>2. b \in DOMAIN B BY <1>1, <1>2, <3>1
    <3>3. QED BY <1>1, <3>1, <3>2 DEF Branched
  <2>2. ASSUME NEW c \in Branched(B) PROVE c \in Branched(C)
    <3>1. PICK b \in DOMAIN B : c \in Range(B[b].end.to) BY <2>2 DEF Branched
    <3>2. QED BY <1>1, <3>1 DEF Branched
  <2>3. QED BY <2>1, <2>2
<1>5. C \in [DOMAIN C -> Nodes] BY <1>1, <1>3
<1>6. Sound(C) BY <1>1, <1>4, <1>5 DEF Sound
<1>7. \A b \in S \ DOMAIN B : ~Terminated(C, b) BY <1>1 DEF Terminated
<1>8. QED BY <1>1, <1>4, <1>6, <1>7

LEMMA EndedFacts ==
  ASSUME NEW B, Sound(B), NEW b \in DOMAIN B, ~Terminated(B, b),
         NEW e \in Ends, Range(e.to) \subseteq DOMAIN B
  PROVE  /\ Sound(Ended(B, b, e)) /\ DOMAIN Ended(B, b, e) = DOMAIN B
         /\ Branched(Ended(B, b, e)) = Branched(B) \union Range(e.to)
         /\ Ended(B, b, e)[b].end = e
         /\ \A c \in DOMAIN B \ {b} : Ended(B, b, e)[c] = B[c]
<1> DEFINE C == Ended(B, b, e)
<1>1. B \in [DOMAIN B -> Nodes] /\ B[b] = [code |-> B[b].code, end |-> B[b].end]
  BY NodeFacts DEF Sound
<1>2. C[b] = [code |-> B[b].code, end |-> e]
  <2>1. C[b] = [B[b] EXCEPT !.end = e] BY DEF Ended
  <2>2. PICK k, x : B[b] = [code |-> k, end |-> x] /\ k = B[b].code BY <1>1
  <2>3. QED BY <2>1, <2>2
<1>3. DOMAIN C = DOMAIN B /\ C = [c \in DOMAIN B |-> C[c]]
      /\ \A c \in DOMAIN B \ {b} : C[c] = B[c]
  BY <1>1 DEF Ended
<1>4. C[b] \in Nodes
  <2>1. B[b].code \in Seq(Events) BY NodeFacts
  <2>2. QED BY <1>2, <2>1 DEF Nodes
<1>5. C \in [DOMAIN C -> Nodes] BY <1>1, <1>3, <1>4
<1>6. Branched(C) = Branched(B) \union Range(e.to)
  <2>1. ASSUME NEW c \in Branched(C) PROVE c \in Branched(B) \union Range(e.to)
    <3>1. PICK a \in DOMAIN C : c \in Range(C[a].end.to) BY <2>1 DEF Branched
    <3>2. CASE a = b BY <1>2, <3>1, <3>2
    <3>3. CASE a # b BY <1>3, <3>1, <3>3 DEF Branched
    <3>4. QED BY <3>2, <3>3
  <2>2. ASSUME NEW c \in Branched(B) PROVE c \in Branched(C)
    <3>1. PICK a \in DOMAIN B : c \in Range(B[a].end.to) BY <2>2 DEF Branched
    <3>2. a # b BY <3>1, NodeFacts
    <3>3. QED BY <1>3, <3>1, <3>2 DEF Branched
  <2>3. ASSUME NEW c \in Range(e.to) PROVE c \in Branched(C)
    <3>1. Range(C[b].end.to) = Range(e.to) BY <1>2
    <3>2. QED BY <1>3, <2>3, <3>1 DEF Branched
  <2>4. QED BY <2>1, <2>2, <2>3
<1>7. Sound(C) BY <1>3, <1>5, <1>6 DEF Sound
<1>8. QED BY <1>2, <1>3, <1>6, <1>7

LEMMA ErasedFacts ==
  ASSUME NEW B, Sound(B), NEW m, m \in DOMAIN B => ~Terminated(B, m), m \notin Branched(B)
  PROVE  /\ Sound(Erased(B, m)) /\ DOMAIN Erased(B, m) = DOMAIN B \ {m}
         /\ Branched(Erased(B, m)) = Branched(B)
         /\ \A c \in DOMAIN B \ {m} : Erased(B, m)[c] = B[c]
<1> DEFINE C == Erased(B, m)
<1>1. /\ DOMAIN C = DOMAIN B \ {m} /\ C = [c \in DOMAIN B \ {m} |-> B[c]]
      /\ \A c \in DOMAIN B \ {m} : C[c] = B[c]
  BY DEF Erased, Restrict
<1>2. C \in [DOMAIN C -> Nodes] BY <1>1 DEF Sound
<1>3. Branched(C) = Branched(B)
  <2>1. ASSUME NEW c \in Branched(B) PROVE c \in Branched(C)
    <3>1. PICK a \in DOMAIN B : c \in Range(B[a].end.to) BY <2>1 DEF Branched
    <3>2. a # m BY <3>1, NodeFacts
    <3>3. QED BY <1>1, <3>1, <3>2 DEF Branched
  <2>2. ASSUME NEW c \in Branched(C) PROVE c \in Branched(B)
    BY <1>1, <2>2 DEF Branched
  <2>3. QED BY <2>1, <2>2
<1>4. Sound(C) BY <1>1, <1>2, <1>3 DEF Sound
<1>5. QED BY <1>1, <1>3, <1>4

-----------------------------------------------------------------------------
(* What a step keeps *)

LEMMA OwnerWithin ==
  ASSUME DescentInv, NEW k \in 1..Depth, NEW i \in 1..k
  PROVE  Owner(i) = SubSeq(Owner(k), 1, 2 * i - 1)
<1>1. /\ 2 * k - 1 \in 1..Len(pos) /\ IsPath(Owner(k)) /\ Len(Owner(k)) = 2 * k - 1
      /\ \A j \in 1..(2 * k - 1) : Owner(k)[j] = pos[j]
      /\ Depth \in Nat /\ IsPath(pos)
  BY PositionFacts
<1>2. pos \in Seq(Nat) /\ Owner(k) \in Seq(Nat) /\ Len(pos) \in Nat
  BY <1>1, PathFacts
<1>3. PICK m \in Nat : m = 2 * i - 1 /\ m <= 2 * k - 1 /\ m <= Len(pos)
  BY <1>1, <1>2
<1>4. \A j \in 1..m : pos[j] = Owner(k)[j] BY <1>1, <1>3
<1>5. SubSeq(pos, 1, m) = SubSeq(Owner(k), 1, m)
  BY <1>1, <1>2, <1>3, <1>4, SameHead
<1>6. QED BY <1>3, <1>5 DEF Owner

LEMMA OwnersDiffer ==
  ASSUME DescentInv, NEW k \in 1..Depth, NEW i \in 1..Depth, i # k
  PROVE  Owner(i) # Owner(k)
<1>1. Len(Owner(i)) = 2 * i - 1 /\ Len(Owner(k)) = 2 * k - 1 BY PositionFacts
<1>2. 2 * i - 1 # 2 * k - 1
  OBVIOUS
<1>3. QED BY <1>1, <1>2

(* The blocks a statement is yet to come to are its own.                   *)
LEMMA AheadFacts ==
  ASSUME NEW q, NEW i, NEW b \in Ahead(q, i)
  PROVE  /\ b[1] = q /\ b[2] \in {"merge", "step", "false"}
         /\ b[2] = "false" => prog[q].kind = "if" /\ b = <<q, "false", i>>
BY DEF Ahead, Closing, Droppable, FalseBlock, Merge, StepBlock, Block

(* Emission never goes on in a block it has yet to come to.                *)
LEMMA AheadApart ==
  ASSUME DescentInv, NEW k \in 1..Depth,
         NEW i \in 1..Depth, NEW b \in Ahead(Owner(i), PartOf(i))
  PROVE  /\ ~Inserted(b, pos)
         /\ i <= k /\ b[2] # "false" => ~Inserted(b, Owner(k))
<1>1. /\ IsPath(pos) /\ Depth \in Nat /\ 2 * i - 1 \in 1..Len(pos)
      /\ Len(pos) = 2 * Depth + 1
      /\ IsPath(Owner(k)) /\ Len(Owner(k)) = 2 * k - 1
      /\ IsPath(Owner(i)) /\ Len(Owner(i)) = 2 * i - 1
      /\ \A j \in 1..(2 * i - 1) : Owner(i)[j] = pos[j]
  BY PositionFacts DEF DescentInv
<1>2. /\ b[1] = Owner(i) /\ b[2] \in {"merge", "step", "false"}
      /\ b[2] = "false" => b = <<Owner(i), "false", PartOf(i)>>
  BY AheadFacts
<1>3. ~Precedes(Owner(i), pos)
  <2>1. Owner(i) = SubSeq(pos, 1, 2 * i - 1) BY DEF Owner
  <2>2. QED BY <1>1, <2>1, NotBegun
<1>4. b[2] = "false" => ~Precedes(Mark(b), pos)
  <2>1. Append(Owner(i), PartOf(i)) = SubSeq(pos, 1, 2 * i)
    <3>1. PICK m \in Nat : m = 2 * i - 1 /\ m + 1 = 2 * i /\ m + 1 <= Len(pos)
      BY <1>1
    <3>2. pos \in Seq(Nat) BY <1>1, PathFacts
    <3>3. Append(SubSeq(pos, 1, m), pos[m + 1]) = SubSeq(pos, 1, m + 1)
      BY <3>1, <3>2, LongerHead
    <3>4. QED BY <3>1, <3>3 DEF Owner, PartOf
  <2>2. 2 * i \in 1..Len(pos) BY <1>1
  <2>3. ~Precedes(SubSeq(pos, 1, 2 * i), pos) BY <1>1, <2>2, NotBegun
  <2>4. b[2] = "false" => Mark(b) = Append(Owner(i), PartOf(i))
    BY <1>2 DEF Mark
  <2>5. QED BY <2>1, <2>3, <2>4
<1>5. i <= k => ~Precedes(Owner(i), Owner(k))
  <2> SUFFICES ASSUME i <= k PROVE ~Precedes(Owner(i), Owner(k))
    OBVIOUS
  <2>1. Owner(i) = SubSeq(Owner(k), 1, 2 * i - 1) BY OwnerWithin
  <2>2. 2 * i - 1 \in 1..Len(Owner(k)) BY <1>1
  <2>3. QED BY <1>1, <2>1, <2>2, NotBegun
<1>6. b[2] # "false" => Mark(b) = Owner(i) BY <1>2 DEF Mark
<1>7. QED BY <1>2, <1>3, <1>4, <1>5, <1>6 DEF Inserted

(* After a step on blocks of T, not yet terminated, every branch is still  *)
(* there, and the end of every other block.                                *)
Grown(B, C, T) ==
  /\ Sound(C) /\ Branched(B) \subseteq Branched(C)
  /\ \A b \in DOMAIN B \ T : b \in DOMAIN C /\ C[b].end = B[b].end

(* A step that leaves n of the statements around changes the block it      *)
(* inserts into, and those of the statement it leaves; it erases a block   *)
(* of that statement alone; and it makes blocks of what it has come to.    *)
Carries(n, d, T) ==
  /\ Grown(blocks, blocks', T)
  /\ \A b \in T : b = insert \/ (n < Depth /\ b[1] = Owner(Depth))
  /\ \A b \in DOMAIN blocks \ DOMAIN blocks' :
       n < Depth /\ b[1] = Owner(Depth) /\ b[2] \in {"merge", "step"}
  /\ \A b \in DOMAIN blocks' \ DOMAIN blocks : b[2] = "label" \/ Begun(Mark(b), pos')
  /\ \A c \in Branched(blocks') \ Branched(blocks) :
       c[2] = "step" => Precedes(c[1], pos')
  /\ \A b \in DOMAIN blocks' :
       \/ b[2] \in {"entry", "label"}
       \/ b \in Branched(blocks')
       \/ b \in DOMAIN blocks /\ (n < Depth => b \notin Droppable(Owner(Depth)))
       \/ d > n /\ b \in Droppable(Owner(d)')

LEMMA PathOfMark ==
  ASSUME DescentInv, NEW b \in Names
  PROVE  Mark(b) \in Seq(Nat)
<1>1. b[1] \in DOMAIN prog /\ b[3] \in Nat BY DEF Names
<1>2. b[1] \in Seq(Nat) BY <1>1, ProgramFacts, PathFacts DEF DescentInv
<1>3. QED BY <1>1, <1>2 DEF Mark

LEMMA InsertedOn ==
  ASSUME DescentInv, NEW q, IsPath(q), NEW t, Onward(q, t), NEW b \in Names, Inserted(b, q)
  PROVE  Inserted(b, t)
<1>1. Mark(b) \in Seq(Nat) BY PathOfMark
<1>2. (Precedes(Mark(b), q) => Precedes(Mark(b), t)) /\ (Begun(Mark(b), q) => Begun(Mark(b), t))
  BY <1>1, OrderKept
<1>3. QED BY <1>2 DEF Inserted

LEMMA BlocksCarried ==
  ASSUME DescentInv, BlocksInv, NEW n, NEW d, Moved(n, d), NEW T, Carries(n, d, T)
  PROVE  BlocksInv'
<1>1. prog' = prog /\ Onward(pos, pos') /\ IsPath(pos)
  BY PositionFacts DEF Moved
<1>2. Sound(blocks)'
  <2>1. Sound(blocks') BY DEF Carries, Grown
  <2>2. Ends' = Ends BY <1>1, EndsKept
  <2>3. QED BY <1>1, <2>1, <2>2 DEF Sound, Names, Nodes, Events, Branched
<1>3. ASSUME NEW b \in DOMAIN blocks' PROVE b[2] = "label" \/ Begun(Mark(b), pos')
  <2>1. CASE b \in DOMAIN blocks
    <3>1. b \in Names /\ (b[2] = "label" \/ Begun(Mark(b), pos))
      BY <2>1 DEF BlocksInv, Sound
    <3>2. QED BY <1>1, <3>1, PathOfMark, OrderKept
  <2>2. CASE b \notin DOMAIN blocks BY <2>2 DEF Carries
  <2>3. QED BY <2>1, <2>2
<1>4. ASSUME NEW c \in Branched(blocks'), c[2] = "step" PROVE Precedes(c[1], pos')
  <2>1. CASE c \in Branched(blocks)
    <3>1. c \in Names /\ Precedes(c[1], pos) BY <1>4, <2>1 DEF BlocksInv, Sound
    <3>2. c[1] = Mark(c) BY <1>4 DEF Mark
    <3>3. QED BY <1>1, <3>1, <3>2, PathOfMark, OrderKept
  <2>2. CASE c \notin Branched(blocks) BY <1>4, <2>2 DEF Carries
  <2>3. QED BY <2>1, <2>2
<1>5. QED
  BY <1>2, <1>3, <1>4 DEF BlocksInv, Branched, Mark, Begun, Precedes, Surrounds

LEMMA InsertCarried ==
  ASSUME DescentInv, BlocksInv, InsertInv, NEW n, NEW d, Moved(n, d), NEW T, Carries(n, d, T),
         IF d = 0 THEN insert' = NoBlock
         ELSE insert' \in DOMAIN blocks' /\ Inserted(insert', pos'),
         \A i \in 1..d : i > n =>
           IF i = 1 THEN frames'[i].block = NoBlock
           ELSE frames'[i].block \in DOMAIN blocks' /\ Inserted(frames'[i].block, Owner(i)')
  PROVE  InsertInv'
<1>1. Depth' = d /\ n \in Nat /\ d \in Nat /\ n <= d /\ n <= Depth /\ Depth \in Nat
  BY PositionFacts DEF Moved
<1>2. ASSUME NEW i \in 1..d
      PROVE  IF i = 1 THEN frames'[i].block = NoBlock
             ELSE frames'[i].block \in DOMAIN blocks' /\ Inserted(frames'[i].block, Owner(i)')
  <2>1. CASE i > n BY <2>1
  <2>2. CASE ~(i > n)
    <3>1. i \in 1..n /\ i \in 1..Depth BY <1>1, <2>2
    <3>2. Owner(i)' = Owner(i) /\ frames'[i] = frames[i] BY <3>1 DEF Moved
    <3>3. CASE i = 1 BY <3>1, <3>2, <3>3 DEF InsertInv
    <3>4. CASE i # 1
      <4>1. PICK b : b = frames[i].block
        OBVIOUS
      <4>2. b \in DOMAIN blocks /\ Inserted(b, Owner(i))
        BY <3>1, <3>4, <4>1 DEF InsertInv
      <4>3. b \in DOMAIN blocks'
        <5> SUFFICES ASSUME b \notin DOMAIN blocks' PROVE FALSE
          OBVIOUS
        <5>1. n < Depth /\ b[1] = Owner(Depth) /\ b[2] \in {"merge", "step"}
          BY <4>2 DEF Carries
        <5>2. Precedes(Owner(Depth), Owner(i)) BY <4>2, <5>1 DEF Inserted, Mark
        <5>3. /\ Depth \in 1..Depth /\ i \in 1..Depth /\ IsPath(Owner(Depth))
              /\ Len(Owner(Depth)) = 2 * Depth - 1
          BY <1>1, <3>1, <5>1, PositionFacts
        <5>4. Owner(i) = SubSeq(Owner(Depth), 1, 2 * i - 1) /\ 2 * i - 1 \in 1..Len(Owner(Depth))
          <6>1. i \in 1..Depth /\ 2 * i - 1 \in 1..(2 * Depth - 1)
            BY <1>1, <5>3
          <6>2. QED BY <5>3, <6>1, OwnerWithin
        <5>5. ~Begun(Owner(Depth), Owner(i)) BY <5>3, <5>4, NotBegun
        <5>6. QED BY <5>2, <5>5 DEF Begun
      <4>4. QED BY <3>2, <3>4, <4>1, <4>2, <4>3
    <3>5. QED BY <3>3, <3>4
  <2>3. QED BY <2>1, <2>2
<1>3. \A i \in 1..d : Inserted(frames[i].block, Owner(i))' <=> Inserted(frames'[i].block, Owner(i)')
  BY DEF Inserted, Precedes, Begun, Surrounds, Mark
<1>4. Inserted(insert, pos)' <=> Inserted(insert', pos')
  BY DEF Inserted, Precedes, Begun, Surrounds, Mark
<1>5. QED BY <1>1, <1>2, <1>3, <1>4 DEF InsertInv

LEMMA OpenCarried ==
  ASSUME DescentInv, BlocksInv, InsertInv, OpenInv,
         NEW n, NEW d, Moved(n, d), NEW T, Carries(n, d, T),
         \A i \in 1..d : i > n =>
           /\ \A b \in Ahead(Owner(i)', PartOf(i)') :
                b \in DOMAIN blocks' /\ ~Terminated(blocks', b)
           /\ Needed(Owner(i)') \subseteq DOMAIN blocks'
  PROVE  OpenInv'
<1>1. Depth' = d /\ n \in Nat /\ d \in Nat /\ n <= d /\ n <= Depth /\ Depth \in Nat /\ prog' = prog
  BY PositionFacts DEF Moved
<1>2. ASSUME NEW i \in 1..d
      PROVE  /\ \A b \in Ahead(Owner(i)', PartOf(i)') :
                  b \in DOMAIN blocks' /\ ~Terminated(blocks', b)
             /\ Needed(Owner(i)') \subseteq DOMAIN blocks'
  <2>1. CASE i > n BY <2>1
  <2>2. CASE ~(i > n)
    <3>1. i \in 1..n /\ i \in 1..Depth BY <1>1, <2>2
    <3>2. Owner(i)' = Owner(i) /\ PartOf(i)' = PartOf(i) BY <3>1 DEF Moved
    <3>3. n < Depth => Owner(i) # Owner(Depth)
      <4>1. n < Depth => i # Depth /\ Depth \in 1..Depth BY <1>1, <3>1
      <4>2. QED BY <3>1, <4>1, OwnersDiffer
    <3>4. ASSUME NEW b \in Ahead(Owner(i), PartOf(i))
          PROVE  b \in DOMAIN blocks' /\ ~Terminated(blocks', b)
      <4>1. b \in DOMAIN blocks /\ ~Terminated(blocks, b) /\ b[1] = Owner(i)
        BY <3>1, AheadFacts DEF OpenInv
      <4>2. b # insert
        <5>1. Depth # 0 BY <1>1, <3>1
        <5>2. ~Inserted(b, pos) BY <3>1, AheadApart
        <5>3. QED BY <5>1, <5>2 DEF InsertInv
      <4>3. b \notin T BY <3>3, <4>1, <4>2 DEF Carries
      <4>4. QED BY <4>1, <4>3 DEF Carries, Grown, Terminated
    <3>5. ASSUME NEW b \in Needed(Owner(i)) PROVE b \in DOMAIN blocks'
      <4>1. b \in DOMAIN blocks BY <3>1 DEF OpenInv
      <4>2. b[2] \notin {"merge", "step"} BY DEF Needed, Body, Header, Block
      <4>3. QED BY <4>1, <4>2 DEF Carries
    <3>6. QED BY <3>2, <3>4, <3>5
  <2>3. QED BY <2>1, <2>2
<1>3. ASSUME NEW i \in 1..d
      PROVE  /\ Ahead(Owner(i), PartOf(i))' = Ahead(Owner(i)', PartOf(i)')
             /\ Needed(Owner(i))' = Needed(Owner(i)')
  BY <1>1 DEF Ahead, Needed, Closing, Droppable, FalseBlock, Merge, StepBlock, Block, Body, Header
<1>4. \A b : Terminated(blocks, b)' <=> Terminated(blocks', b)
  BY DEF Terminated, Open, Silent, Ada!Idle, Ada!Event
<1>5. QED BY <1>1, <1>2, <1>3, <1>4 DEF OpenInv

LEMMA OrphanCarried ==
  ASSUME DescentInv, OrphanInv, NEW n, NEW d, Moved(n, d), n \in {Depth, Depth - 1},
         NEW T, Carries(n, d, T)
  PROVE  OrphanInv'
<1>1. Depth' = d /\ n \in Nat /\ d \in Nat /\ n <= d /\ n <= Depth /\ Depth \in Nat /\ prog' = prog
  BY PositionFacts DEF Moved
<1>2. ASSUME NEW b \in DOMAIN blocks', b[2] \notin {"entry", "label"}, b \notin Branched(blocks')
      PROVE  \E i \in 1..d : b \in Droppable(Owner(i)')
  <2>1. CASE d > n /\ b \in Droppable(Owner(d)') BY <1>1, <2>1
  <2>2. CASE b \in DOMAIN blocks /\ (n < Depth => b \notin Droppable(Owner(Depth)))
    <3>1. b \notin Branched(blocks) BY <1>2 DEF Carries, Grown
    <3>2. PICK i \in 1..Depth : b \in Droppable(Owner(i))
      BY <1>2, <2>2, <3>1 DEF OrphanInv
    <3>3. i <= n BY <1>1, <2>2, <3>2
    <3>4. i \in 1..n /\ i \in 1..d BY <1>1, <3>2, <3>3
    <3>5. Owner(i)' = Owner(i) BY <3>4 DEF Moved
    <3>6. QED BY <3>2, <3>4, <3>5
  <2>3. QED BY <1>2, <2>1, <2>2 DEF Carries
<1>3. \A i \in 1..d : Droppable(Owner(i))' = Droppable(Owner(i)')
  BY <1>1 DEF Droppable, Merge, StepBlock, Block
<1>4. Branched(blocks)' = Branched(blocks') BY DEF Branched
<1>5. QED BY <1>1, <1>2, <1>3, <1>4 DEF OrphanInv

LEMMA LoopsFacts ==
  ASSUME DescentInv, LoopsInv
  PROVE  /\ loops \in Seq(LoopRecords)
         /\ \A j \in DOMAIN loops : \E k \in 1..Depth :
              loops[j].merge = Merge(Owner(k)) /\ prog[Owner(k)].kind \in LoopKinds
<1>1. CASE Depth = 0
  <2>1. loops = <<>> BY <1>1 DEF LoopsInv
  <2>2. QED BY <2>1
<1>2. CASE Depth # 0
  <2>1. Depth \in Nat /\ Depth \in 1..Depth /\ Owner(Depth) \in DOMAIN prog
    <3>1. Depth \in Nat BY PositionFacts
    <3>2. Depth \in 1..Depth BY <1>2, <3>1
    <3>3. QED BY <3>1, <3>2, PositionFacts
  <2>2. frames[Depth] \in Frames BY <2>1 DEF DescentInv, Depth
  <2>3. frames[Depth].loops \in Seq(LoopRecords) BY <2>2 DEF Frames
  <2>4. loops = LoopsIn(Depth) BY <1>2 DEF LoopsInv
  <2>5. ASSUME NEW j \in DOMAIN frames[Depth].loops
        PROVE  \E k \in 1..Depth : /\ frames[Depth].loops[j].merge = Merge(Owner(k))
                                   /\ prog[Owner(k)].kind \in LoopKinds
    <3>1. PICK k \in 1..(Depth - 1) : /\ frames[Depth].loops[j].merge = Merge(Owner(k))
                                      /\ prog[Owner(k)].kind \in LoopKinds
      BY <2>1 DEF LoopsInv
    <3>2. k \in 1..Depth BY <2>1
    <3>3. QED BY <3>1, <3>2
  <2>6. CASE prog[Owner(Depth)].kind \in LoopKinds
    <3> DEFINE r == [merge |-> Merge(Owner(Depth)), name |-> prog[Owner(Depth)].name]
    <3>1. r \in LoopRecords
      BY <2>1, <2>6 DEF LoopRecords, Names, Merge, Block, Roles
    <3>2. loops = Append(frames[Depth].loops, r)
      BY <2>4, <2>6 DEF LoopsIn, LoopKinds
    <3>3. /\ loops \in Seq(LoopRecords) /\ Len(loops) = Len(frames[Depth].loops) + 1
          /\ \A j \in 1..Len(frames[Depth].loops) : loops[j] = frames[Depth].loops[j]
          /\ loops[Len(frames[Depth].loops) + 1] = r
      BY <2>3, <3>1, <3>2, AppendProperties
    <3>4. ASSUME NEW j \in DOMAIN loops
          PROVE  \E k \in 1..Depth : /\ loops[j].merge = Merge(Owner(k))
                                     /\ prog[Owner(k)].kind \in LoopKinds
      <4>1. CASE j = Len(frames[Depth].loops) + 1 BY <2>1, <2>6, <3>3, <4>1
      <4>2. CASE j # Len(frames[Depth].loops) + 1
        <5>1. j \in 1..Len(frames[Depth].loops) /\ j \in DOMAIN frames[Depth].loops
          BY <2>3, <3>3, <4>2
        <5>2. QED BY <2>5, <3>3, <5>1
      <4>3. QED BY <4>1, <4>2
    <3>5. QED BY <3>3, <3>4
  <2>7. CASE prog[Owner(Depth)].kind = "subp"
    <3>1. loops = <<>> BY <2>4, <2>7 DEF LoopsIn, LoopKinds
    <3>2. QED BY <3>1
  <2>8. CASE prog[Owner(Depth)].kind \notin LoopKinds \union {"subp"}
    <3>1. loops = frames[Depth].loops BY <2>4, <2>8 DEF LoopsIn
    <3>2. QED BY <2>3, <2>5, <3>1
  <2>9. QED BY <2>6, <2>7, <2>8
<1>3. QED BY <1>1, <1>2

LEMMA LoopsCarried ==
  ASSUME DescentInv, LoopsInv, NEW n, NEW d, Moved(n, d), d <= n + 1,
         loops' = IF d = 0 THEN <<>> ELSE LoopsIn(d)',
         d > n => /\ frames'[d].loops = IF d = 1 THEN <<>> ELSE LoopsIn(n)
                  /\ \A j \in DOMAIN frames'[d].loops : \E k \in 1..n :
                       /\ frames'[d].loops[j].merge = Merge(Owner(k))
                       /\ prog[Owner(k)].kind \in LoopKinds
  PROVE  LoopsInv'
<1>1. Depth' = d /\ n \in Nat /\ d \in Nat /\ n <= d /\ n <= Depth /\ Depth \in Nat /\ prog' = prog
  BY PositionFacts DEF Moved
<1>2. ASSUME NEW i \in 1..n PROVE LoopsIn(i)' = LoopsIn(i)
  <2>1. Owner(i)' = Owner(i) /\ frames'[i] = frames[i] BY DEF Moved
  <2>2. QED BY <1>1, <2>1 DEF LoopsIn, Merge, Block
<1>3. \A i \in 1..d : ~(i <= n) => i = d /\ d > n /\ d - 1 = n BY <1>1
<1>4. ASSUME NEW i \in 1..d
      PROVE  /\ frames'[i].loops = IF i = 1 THEN <<>> ELSE LoopsIn(i - 1)'
             /\ \A j \in DOMAIN frames'[i].loops : \E k \in 1..(i - 1) :
                  /\ frames'[i].loops[j].merge = Merge(Owner(k)')
                  /\ prog[Owner(k)'].kind \in LoopKinds
  <2>1. CASE i <= n
    <3>1. i \in 1..n /\ i \in 1..Depth BY <1>1, <2>1
    <3>2. frames'[i] = frames[i] BY <3>1 DEF Moved
    <3>3. i # 1 => LoopsIn(i - 1)' = LoopsIn(i - 1)
      <4>1. i # 1 => i - 1 \in 1..n BY <1>1, <3>1
      <4>2. QED BY <1>2, <4>1
    <3>4. \A k \in 1..(i - 1) : Owner(k)' = Owner(k)
      <4>1. 1..(i - 1) \subseteq 1..n BY <1>1, <3>1
      <4>2. QED BY <4>1 DEF Moved
    <3>5. /\ frames[i].loops = IF i = 1 THEN <<>> ELSE LoopsIn(i - 1)
          /\ \A j \in DOMAIN frames[i].loops : \E k \in 1..(i - 1) :
                  /\ frames[i].loops[j].merge = Merge(Owner(k))
                  /\ prog[Owner(k)].kind \in LoopKinds
      BY <3>1 DEF LoopsInv
    <3>6. QED BY <3>2, <3>3, <3>4, <3>5
  <2>2. CASE ~(i <= n)
    <3>1. i = d /\ d > n /\ i - 1 = n BY <1>3, <2>2
    <3>2. i # 1 => LoopsIn(i - 1)' = LoopsIn(n)
      <4>1. i # 1 => n \in 1..n BY <1>1, <3>1
      <4>2. QED BY <1>2, <3>1, <4>1
    <3>3. \A k \in 1..n : Owner(k)' = Owner(k) BY DEF Moved
    <3>4. QED BY <3>1, <3>2, <3>3
  <2>3. QED BY <2>1, <2>2
<1>5. loops' = IF Depth' = 0 THEN <<>> ELSE LoopsIn(d)' BY <1>1
<1>6. \A i \in 1..d : \A k \in 1..(i - 1) : Merge(Owner(k))' = Merge(Owner(k)')
  BY DEF Merge, Block
<1>7. QED BY <1>1, <1>4, <1>5, <1>6 DEF LoopsInv

-----------------------------------------------------------------------------
(* The four ways emission goes on: behind a simple statement, into a       *)
(* compound one, behind that, or into its next part.                       *)

Emitting == prog' = prog /\ pc = "generate" /\ pc' = pc /\ took' = took

LEMMA EmitStep ==
  ASSUME IInv, Emitting, pos \in DOMAIN prog, pos # Top, pos' = After(pos),
         frames' = frames, loops' = loops, labels' \in Seq(DOMAIN prog),
         NEW d, d = Depth, NEW T, Carries(d, d, T),
         insert' \in DOMAIN blocks', Inserted(insert', pos')
  PROVE  IInv'
<1>1. DescentInv /\ BlocksInv /\ InsertInv /\ OpenInv /\ OrphanInv /\ LoopsInv
  BY DEF IInv
<1>2. d \in Nat /\ d > 0 /\ d \in 1..d BY <1>1, PositionFacts, VisitFacts
<1>3. Moved(d, d) BY <1>1, MoveAfter DEF Emitting
<1>4. \A i \in 1..d : ~(i > d) BY <1>2
<1>5. DescentInv'
  <2>1. frames' \in Seq(Frames) /\ pc' = "generate" /\ took' = took
    BY <1>1 DEF DescentInv, Emitting
  <2>2. QED BY <1>1, <1>3, <1>4, <2>1, DescentMoved
<1>6. BlocksInv' BY <1>1, <1>3, BlocksCarried
<1>7. InsertInv' BY <1>1, <1>2, <1>3, <1>4, InsertCarried
<1>8. OpenInv' BY <1>1, <1>3, <1>4, OpenCarried
<1>9. OrphanInv' BY <1>1, <1>3, OrphanCarried
<1>10. LoopsInv'
  <2>1. LoopsIn(d)' = LoopsIn(d)
    <3>1. Owner(d)' = Owner(d) /\ prog' = prog BY <1>2, <1>3 DEF Moved
    <3>2. QED BY <3>1 DEF LoopsIn, Merge, Block
  <2>2. loops' = IF d = 0 THEN <<>> ELSE LoopsIn(d)' BY <1>1, <2>1 DEF LoopsInv
  <2>3. d <= d + 1 /\ ~(d > d) BY <1>2
  <2>4. QED BY <1>1, <1>3, <2>2, <2>3, LoopsCarried
<1>11. QED BY <1>5, <1>6, <1>7, <1>8, <1>9, <1>10 DEF IInv

LEMMA EnterStep ==
  ASSUME IInv, Emitting, pos \in DOMAIN prog, 1 \in 1..Parts(prog[pos]), Enter(1, HereFrame),
         labels' \in Seq(DOMAIN prog),
         loops' = CASE prog[pos].kind \in LoopKinds ->
                         Append(loops, [merge |-> Merge(pos), name |-> prog[pos].name])
                    [] prog[pos].kind = "subp" -> <<>>
                    [] OTHER -> loops,
         NEW d \in Nat, d = Depth + 1, NEW T, Carries(Depth, d, T),
         insert' \in DOMAIN blocks', Inserted(insert', pos'),
         \A b \in Ahead(pos, 1) : b \in DOMAIN blocks' /\ ~Terminated(blocks', b),
         Needed(pos) \subseteq DOMAIN blocks'
  PROVE  IInv'
<1>1. DescentInv /\ BlocksInv /\ InsertInv /\ OpenInv /\ OrphanInv /\ LoopsInv
  BY DEF IInv
<1>2. PICK n \in Nat : n = Depth /\ d = n + 1 BY <1>1, PositionFacts
<1>3. HereFrame \in Frames
  <2>1. insert \in Names \union {NoBlock}
    BY <1>1 DEF InsertInv, BlocksInv, Sound
  <2>2. QED BY <1>1, <2>1, LoopsFacts DEF HereFrame, Frames, DescentInv
<1>4. /\ Moved(n, d) /\ Owner(d)' = pos /\ PartOf(d)' = 1
      /\ frames'[d] = HereFrame /\ frames' \in Seq(Frames)
  BY <1>1, <1>2, <1>3, MoveInto DEF Emitting
<1>5. \A i \in 1..d : i > n => i = d BY <1>2
<1>6. DescentInv'
  <2>1. pc' = "generate" /\ took' = took BY DEF Emitting
  <2>2. \A i \in 1..d : i > n =>
          Owner(i)' \in DOMAIN prog /\ PartOf(i)' \in 1..Parts(prog[Owner(i)'])
    BY <1>4, <1>5
  <2>3. QED BY <1>1, <1>4, <2>1, <2>2, DescentMoved
<1>7. Carries(n, d, T) BY <1>2
<1>8. BlocksInv' BY <1>1, <1>4, <1>7, BlocksCarried
<1>9. InsertInv'
  <2>1. HereFrame.block = insert BY DEF HereFrame
  <2>2. IF d = 1 THEN insert = NoBlock ELSE insert \in DOMAIN blocks' /\ Inserted(insert, pos)
    <3>1. insert \in DOMAIN blocks => insert \in DOMAIN blocks'
      <4>1. ~(n < Depth) BY <1>2
      <4>2. QED BY <1>7, <4>1 DEF Carries
    <3>2. d = 1 <=> Depth = 0 BY <1>2
    <3>3. QED BY <1>1, <3>1, <3>2 DEF InsertInv
  <2>3. d # 0 BY <1>2
  <2>4. \A i \in 1..d : i > n =>
           IF i = 1 THEN frames'[i].block = NoBlock
           ELSE frames'[i].block \in DOMAIN blocks' /\ Inserted(frames'[i].block, Owner(i)')
    BY <1>4, <1>5, <2>1, <2>2
  <2>5. QED BY <1>1, <1>4, <1>7, <2>3, <2>4, InsertCarried
<1>10. OpenInv'
  <2>1. \A i \in 1..d : i > n =>
           /\ \A b \in Ahead(Owner(i)', PartOf(i)') :
                b \in DOMAIN blocks' /\ ~Terminated(blocks', b)
           /\ Needed(Owner(i)') \subseteq DOMAIN blocks'
    BY <1>4, <1>5
  <2>2. QED BY <1>1, <1>4, <1>7, <2>1, OpenCarried
<1>11. OrphanInv' BY <1>1, <1>2, <1>4, <1>7, OrphanCarried
<1>12. LoopsInv'
  <2>1. d # 0 /\ d <= n + 1 /\ d - 1 = n /\ (d = 1 <=> Depth = 0) BY <1>2
  <2>2. frames'[d].loops = loops BY <1>4 DEF HereFrame
  <2>3. loops' = LoopsIn(d)'
    <3>1. prog' = prog BY DEF Emitting
    <3>2. QED BY <1>4, <2>2, <3>1 DEF LoopsIn, Merge, Block
  <2>4. loops = IF d = 1 THEN <<>> ELSE LoopsIn(n)
    BY <1>1, <1>2, <2>1 DEF LoopsInv
  <2>5. \A j \in DOMAIN loops : \E k \in 1..n :
          loops[j].merge = Merge(Owner(k)) /\ prog[Owner(k)].kind \in LoopKinds
    BY <1>1, <1>2, LoopsFacts
  <2>6. QED BY <1>1, <1>4, <2>1, <2>2, <2>3, <2>4, <2>5, LoopsCarried
<1>13. QED BY <1>6, <1>8, <1>9, <1>10, <1>11, <1>12 DEF IInv

LEMMA LeaveStep ==
  ASSUME IInv, Emitting, Depth > 0, LeaveTo(After(Outer(pos))),
         labels' \in Seq(DOMAIN prog), loops' = frames[Depth].loops,
         NEW d \in Nat, d = Depth - 1, NEW T, Carries(d, d, T),
         IF d = 0 THEN insert' = NoBlock
         ELSE insert' \in DOMAIN blocks' /\ Inserted(insert', pos')
  PROVE  IInv'
<1>1. DescentInv /\ BlocksInv /\ InsertInv /\ OpenInv /\ OrphanInv /\ LoopsInv
  BY DEF IInv
<1>2. Depth \in Nat /\ Depth = d + 1 /\ Depth \in 1..Depth
  BY <1>1, PositionFacts
<1>3. Moved(d, d) /\ frames' \in Seq(Frames) BY <1>1, MoveOut DEF Emitting
<1>4. \A i \in 1..d : ~(i > d)
  OBVIOUS
<1>5. DescentInv'
  <2>1. pc' = "generate" /\ took' = took BY DEF Emitting
  <2>2. QED BY <1>1, <1>3, <1>4, <2>1, DescentMoved
<1>6. BlocksInv' BY <1>1, <1>3, BlocksCarried
<1>7. InsertInv' BY <1>1, <1>3, <1>4, InsertCarried
<1>8. OpenInv' BY <1>1, <1>3, <1>4, OpenCarried
<1>9. OrphanInv'
  <2>1. d \in {Depth, Depth - 1} BY <1>2
  <2>2. QED BY <1>1, <1>3, <2>1, OrphanCarried
<1>10. LoopsInv'
  <2>1. d <= d + 1 /\ ~(d > d) /\ (Depth = 1 <=> d = 0) BY <1>2
  <2>2. loops' = IF d = 0 THEN <<>> ELSE LoopsIn(d)
    BY <1>1, <1>2, <2>1 DEF LoopsInv
  <2>3. d # 0 => LoopsIn(d)' = LoopsIn(d)
    <3>1. d # 0 => Owner(d)' = Owner(d) /\ frames'[d] = frames[d]
      <4>1. d # 0 => d \in 1..d BY <1>2
      <4>2. QED BY <1>3, <4>1 DEF Moved
    <3>2. prog' = prog BY DEF Emitting
    <3>3. QED BY <3>1, <3>2 DEF LoopsIn, Merge, Block
  <2>4. loops' = IF d = 0 THEN <<>> ELSE LoopsIn(d)' BY <2>2, <2>3
  <2>5. QED BY <1>1, <1>3, <2>1, <2>4, LoopsCarried
<1>11. QED BY <1>5, <1>6, <1>7, <1>8, <1>9, <1>10 DEF IInv

LEMMA PartStep ==
  ASSUME IInv, Emitting, Depth > 0, Part(pos) + 1 \in 1..Parts(prog[Outer(pos)]),
         prog[Outer(pos)].kind = "if", pos' = First(Outer(pos), Part(pos) + 1),
         frames' = frames, loops' = loops, labels' = labels,
         NEW d \in Nat, d = Depth - 1, NEW n, n = Depth, NEW T, Carries(d, n, T),
         DOMAIN blocks \subseteq DOMAIN blocks',
         insert' \in DOMAIN blocks', Inserted(insert', pos'),
         \A b \in Ahead(Outer(pos), Part(pos) + 1) :
           b \in DOMAIN blocks' /\ ~Terminated(blocks', b)
  PROVE  IInv'
<1>1. DescentInv /\ BlocksInv /\ InsertInv /\ OpenInv /\ OrphanInv /\ LoopsInv
  BY DEF IInv
<1>2. n \in Nat /\ n = Depth /\ n = d + 1 /\ n \in 1..n BY <1>1, PositionFacts
<1>3. /\ Outer(pos) = Owner(n) /\ Part(pos) = PartOf(n)
      /\ Owner(n) \in DOMAIN prog /\ PartOf(n) \in 1..Parts(prog[Owner(n)])
  BY <1>1, <1>2, PositionFacts DEF DescentInv
<1>4. /\ Moved(d, n) /\ Owner(n)' = Owner(n) /\ PartOf(n)' = PartOf(n) + 1
      /\ frames'[n] = frames[n]
  <2>1. /\ Moved(Depth - 1, Depth) /\ Owner(Depth)' = Owner(Depth)
        /\ PartOf(Depth)' = PartOf(Depth) + 1
    BY <1>1, MovePart DEF Emitting
  <2>2. Depth' = Depth BY DEF Depth
  <2>3. QED BY <1>2, <2>1, <2>2
<1>5. \A i \in 1..n : i > d => i = n BY <1>2
<1>6. DescentInv'
  <2>1. /\ pc' = "generate" /\ took' = took /\ frames' \in Seq(Frames)
        /\ labels' \in Seq(DOMAIN prog)
    BY <1>1 DEF Emitting, DescentInv
  <2>2. \A i \in 1..n : i > d =>
          Owner(i)' \in DOMAIN prog /\ PartOf(i)' \in 1..Parts(prog[Owner(i)'])
    BY <1>3, <1>4, <1>5
  <2>3. QED BY <1>1, <1>4, <2>1, <2>2, DescentMoved
<1>7. Carries(d, n, T)
  OBVIOUS
<1>8. BlocksInv' BY <1>1, <1>4, <1>7, BlocksCarried
<1>9. InsertInv'
  <2>1. IF n = 1 THEN frames[n].block = NoBlock
        ELSE frames[n].block \in DOMAIN blocks' /\ Inserted(frames[n].block, Owner(n))
    BY <1>1, <1>2 DEF InsertInv
  <2>2. \A i \in 1..n : i > d =>
           IF i = 1 THEN frames'[i].block = NoBlock
           ELSE frames'[i].block \in DOMAIN blocks' /\ Inserted(frames'[i].block, Owner(i)')
    BY <1>4, <1>5, <2>1
  <2>3. n # 0 BY <1>2
  <2>4. QED BY <1>1, <1>4, <1>7, <2>2, <2>3, InsertCarried
<1>10. OpenInv'
  <2>1. Needed(Owner(n)) \subseteq DOMAIN blocks' BY <1>1, <1>2 DEF OpenInv
  <2>2. \A i \in 1..n : i > d =>
           /\ \A b \in Ahead(Owner(i)', PartOf(i)') :
                b \in DOMAIN blocks' /\ ~Terminated(blocks', b)
           /\ Needed(Owner(i)') \subseteq DOMAIN blocks'
    BY <1>3, <1>4, <1>5, <2>1
  <2>3. QED BY <1>1, <1>4, <1>7, <2>2, OpenCarried
<1>11. OrphanInv'
  <2>1. d \in {Depth, Depth - 1} BY <1>2
  <2>2. QED BY <1>1, <1>4, <1>7, <2>1, OrphanCarried
<1>12. LoopsInv'
  <2>1. n # 0 /\ n <= d + 1 /\ (n = 1 <=> d = 0) /\ n - 1 = d /\ Depth # 0
    BY <1>2
  <2>2. LoopsIn(n)' = LoopsIn(n)
    <3>1. prog' = prog BY DEF Emitting
    <3>2. QED BY <1>4, <3>1 DEF LoopsIn, Merge, Block
  <2>3. loops' = IF n = 0 THEN <<>> ELSE LoopsIn(n)'
    BY <1>1, <1>2, <2>1, <2>2 DEF LoopsInv
  <2>4. frames[n].loops = IF n = 1 THEN <<>> ELSE LoopsIn(d)
    BY <1>1, <1>2, <2>1 DEF LoopsInv
  <2>5. \A j \in DOMAIN frames[n].loops : \E k \in 1..d :
          frames[n].loops[j].merge = Merge(Owner(k)) /\ prog[Owner(k)].kind \in LoopKinds
    BY <1>1, <1>2, <2>1 DEF LoopsInv
  <2>6. QED BY <1>1, <1>4, <2>1, <2>3, <2>4, <2>5, LoopsCarried
<1>13. QED BY <1>6, <1>8, <1>9, <1>10, <1>11, <1>12 DEF IInv

-----------------------------------------------------------------------------
(* Blocks a step makes and ends *)

LEMMA Unbegun ==
  ASSUME NEW t, IsPath(t), NEW q, IsPath(q), Len(q) <= Len(t), \A j \in 1..Len(q) : q[j] = t[j],
         NEW p \in Nat, Len(q) < Len(t) => p > t[Len(q) + 1]
  PROVE  ~Begun(Append(q, p), t)
<1>1. /\ q \in Seq(Nat) /\ Len(q) \in Nat /\ t \in Seq(Nat) /\ Len(t) \in Nat
      /\ \A j \in 1..Len(t) : t[j] \in Nat
  BY PathFacts
<1>2. PICK n \in Nat, r \in Seq(Nat) : r = Append(q, p) /\ n = Len(q)
  BY <1>1, AppendProperties
<1>3. Len(r) = n + 1 /\ r[n + 1] = p /\ \A j \in 1..n : r[j] = q[j]
  BY <1>1, <1>2, AppendProperties
<1>4. ~Precedes(r, t)
  <2> SUFFICES ASSUME NEW k \in 1..Len(r), k <= Len(t), r[k] < t[k] PROVE FALSE
    BY DEF Precedes
  <2>1. CASE k = n + 1
    <3>1. n < Len(t) /\ n + 1 \in 1..Len(t) BY <1>1, <1>2, <2>1
    <3>2. p > t[n + 1] /\ t[n + 1] \in Nat BY <1>1, <1>2, <3>1
    <3>3. QED BY <1>3, <2>1, <3>2
  <2>2. CASE k # n + 1
    <3>1. k \in 1..n /\ k \in 1..Len(t) BY <1>2, <1>3, <2>2
    <3>2. r[k] = t[k] /\ t[k] \in Nat BY <1>1, <1>2, <1>3, <3>1
    <3>3. QED BY <3>2
  <2>3. QED BY <2>1, <2>2
<1>5. ~Surrounds(r, t)
  <2> SUFFICES ASSUME Len(r) < Len(t), r[n + 1] = t[n + 1] PROVE FALSE
    BY <1>2, <1>3 DEF Surrounds
  <2>1. n + 1 \in 1..Len(t) /\ n < Len(t) BY <1>1, <1>2, <1>3
  <2>2. t[n + 1] \in Nat /\ p > t[n + 1] BY <1>1, <1>2, <2>1
  <2>3. QED BY <1>3, <2>2
<1>6. QED BY <1>2, <1>4, <1>5 DEF Begun

LEMMA FreshFacts ==
  ASSUME DescentInv, BlocksInv, pos \in DOMAIN prog, NEW b \in DOMAIN blocks, b[1] = pos
  PROVE  b[2] = "label" \/ (b[2] \in {"then", "false"} /\ b[3] # 1)
<1>1. IsPath(pos) /\ Len(pos) \in Nat BY PositionFacts, PathFacts
<1>2. ~Begun(pos, pos) BY <1>1, NotBegun
<1>3. ~Begun(Append(pos, 1), pos) BY <1>1, Unbegun
<1>4. b[2] = "label" \/ Begun(Mark(b), pos) BY DEF BlocksInv
<1>5. QED BY <1>2, <1>3, <1>4 DEF Mark

Coded(B, b, e) == [B EXCEPT ![b].code = Append(@, e)]

LEMMA CodeFacts ==
  ASSUME NEW B, Sound(B), NEW b \in DOMAIN B, NEW e \in Events
  PROVE  /\ Sound(Coded(B, b, e)) /\ DOMAIN Coded(B, b, e) = DOMAIN B
         /\ Branched(Coded(B, b, e)) = Branched(B)
         /\ \A c \in DOMAIN B : Coded(B, b, e)[c].end = B[c].end
<1> DEFINE C == Coded(B, b, e)
<1>1. /\ B \in [DOMAIN B -> Nodes] /\ B[b] = [code |-> B[b].code, end |-> B[b].end]
      /\ B[b].code \in Seq(Events) /\ B[b].end \in Ends
  BY NodeFacts DEF Sound
<1>2. C[b] = [code |-> Append(B[b].code, e), end |-> B[b].end]
  <2>1. C[b] = [B[b] EXCEPT !.code = Append(B[b].code, e)] BY DEF Coded
  <2>2. PICK k, x : B[b] = [code |-> k, end |-> x] /\ k = B[b].code /\ x = B[b].end
    BY <1>1
  <2>3. QED BY <2>1, <2>2
<1>3. /\ DOMAIN C = DOMAIN B /\ C = [c \in DOMAIN B |-> C[c]]
      /\ \A c \in DOMAIN B \ {b} : C[c] = B[c]
  BY <1>1 DEF Coded
<1>4. C[b] \in Nodes
  <2>1. Append(B[b].code, e) \in Seq(Events) BY <1>1, AppendProperties
  <2>2. QED BY <1>1, <1>2, <2>1 DEF Nodes
<1>5. C \in [DOMAIN C -> Nodes] BY <1>1, <1>3, <1>4
<1>6. \A c \in DOMAIN B : C[c].end = B[c].end BY <1>2, <1>3
<1>7. Branched(C) = Branched(B) BY <1>3, <1>6 DEF Branched
<1>8. QED BY <1>3, <1>5, <1>6, <1>7 DEF Sound

LEMMA BranchIfOpenFacts ==
  ASSUME NEW B, Sound(B), NEW b \in DOMAIN B, NEW e \in Ends, Range(e.to) \subseteq DOMAIN B,
         NEW C, C = BranchIfOpen(B, b, e)
  PROVE  /\ Sound(C) /\ DOMAIN C = DOMAIN B
         /\ Branched(B) \subseteq Branched(C) /\ Branched(C) \subseteq Branched(B) \union Range(e.to)
         /\ \A c \in DOMAIN B \ {b} : C[c] = B[c]
         /\ ~Terminated(B, b) => Range(e.to) \subseteq Branched(C)
<1>1. CASE Terminated(B, b)
  <2>1. C = B BY <1>1 DEF BranchIfOpen
  <2>2. QED BY <1>1, <2>1
<1>2. CASE ~Terminated(B, b)
  <2>1. C = Ended(B, b, e) BY <1>2 DEF BranchIfOpen
  <2>2. QED BY <1>2, <2>1, EndedFacts
<1>3. QED BY <1>1, <1>2

LEMMA MergeFacts ==
  ASSUME NEW B, Sound(B), NEW m \in DOMAIN B, ~Terminated(B, m), NEW t, MergeAt(B, m, t)
  PROVE  /\ Sound(blocks') /\ Branched(blocks') = Branched(B)
         /\ DOMAIN blocks' \subseteq DOMAIN B
         /\ \A b \in DOMAIN B \ {m} : b \in DOMAIN blocks' /\ blocks'[b] = B[b]
         /\ m \in DOMAIN blocks' => m \in Branched(blocks')
         /\ (insert' = m /\ m \in DOMAIN blocks') \/ insert' = t
<1>1. CASE HasPredecessors(B, m) BY <1>1, BranchedIs DEF MergeAt
<1>2. CASE ~HasPredecessors(B, m)
  <2>1. blocks' = Erased(B, m) /\ insert' = t /\ m \notin Branched(B)
    BY <1>2, BranchedIs DEF MergeAt
  <2>2. /\ Sound(Erased(B, m)) /\ DOMAIN Erased(B, m) = DOMAIN B \ {m}
        /\ Branched(Erased(B, m)) = Branched(B)
        /\ \A c \in DOMAIN B \ {m} : Erased(B, m)[c] = B[c]
    BY <2>1, ErasedFacts
  <2>3. QED BY <2>1, <2>2
<1>3. QED BY <1>1, <1>2

(* Steps that leave every end alone.                                       *)
LEMMA CarriesEnds ==
  ASSUME Sound(blocks), Sound(blocks'), DOMAIN blocks' = DOMAIN blocks,
         \A b \in DOMAIN blocks : blocks'[b].end = blocks[b].end,
         NEW n, NEW d, n < Depth => Droppable(Owner(Depth)) = {}
  PROVE  Carries(n, d, {})
<1>1. Branched(blocks') = Branched(blocks) BY DEF Branched
<1>2. QED BY <1>1 DEF Carries, Grown

(* Steps inside a statement: blocks are made, and the one inserted into is *)
(* ended, with a branch to those of them that are no labels.               *)
LEMMA CarriesEnded ==
  ASSUME BlocksInv, NEW d, d = Depth, Depth \in Nat, insert \in DOMAIN blocks,
         ~Terminated(blocks, insert), NEW S \in SUBSET Names, NEW C, Sound(C),
         DOMAIN C = DOMAIN blocks \union S, Branched(C) = Branched(blocks),
         \A b \in DOMAIN blocks : C[b] = blocks[b],
         NEW e \in Ends, Range(e.to) \subseteq DOMAIN blocks \union S,
         \A b \in Range(e.to) : b[2] # "step",
         \A b \in S : b[2] = "label" \/ (Begun(Mark(b), pos') /\ b \in Range(e.to)),
         blocks' = Ended(C, insert, e)
  PROVE  Carries(d, d, {insert}) /\ DOMAIN blocks' = DOMAIN blocks \union S
<1>1. insert \in DOMAIN C /\ ~Terminated(C, insert) /\ Range(e.to) \subseteq DOMAIN C
  BY DEF Terminated
<1>2. /\ Sound(blocks') /\ DOMAIN blocks' = DOMAIN blocks \union S
      /\ Branched(blocks') = Branched(blocks) \union Range(e.to)
      /\ \A b \in DOMAIN C \ {insert} : blocks'[b] = C[b]
  BY <1>1, EndedFacts
<1>3. Grown(blocks, blocks', {insert}) BY <1>2 DEF Grown
<1>4. ~(d < Depth) /\ ~(d > d)
  OBVIOUS
<1>5. QED BY <1>2, <1>3, <1>4 DEF Carries

(* Where a statement other than the outermost body is visited.             *)
LEMMA HereFacts ==
  ASSUME IInv, pos \in DOMAIN prog, pos # Top
  PROVE  /\ DescentInv /\ BlocksInv /\ Sound(blocks)
         /\ Depth \in Nat /\ Depth > 0 /\ IsPath(pos) /\ prog \in Programs
         /\ insert \in DOMAIN blocks /\ insert \in Names /\ Inserted(insert, pos)
         /\ Inserted(insert, After(pos)) /\ Inserted(insert, First(pos, 1))
         /\ labels \in Seq(DOMAIN prog)
         /\ \A n \in Nat : Event(pos, n) \in Events
<1>1. DescentInv /\ BlocksInv /\ InsertInv BY DEF IInv
<1>2. Depth \in Nat /\ Depth > 0 /\ IsPath(pos)
  BY <1>1, PositionFacts, VisitFacts
<1>3. insert \in DOMAIN blocks /\ Inserted(insert, pos)
  BY <1>1, <1>2 DEF InsertInv
<1>4. Sound(blocks) /\ insert \in Names BY <1>1, <1>3 DEF BlocksInv, Sound
<1>5. Onward(pos, After(pos)) /\ Onward(pos, First(pos, 1))
  <2>1. 1 \in Nat \ {0}
    OBVIOUS
  <2>2. QED BY <2>1 DEF Onward
<1>6. Inserted(insert, After(pos)) /\ Inserted(insert, First(pos, 1))
  BY <1>1, <1>2, <1>3, <1>4, <1>5, InsertedOn
<1>7. QED BY <1>1, <1>2, <1>3, <1>4, <1>6, EventFacts DEF DescentInv

-----------------------------------------------------------------------------
(* Simple statements *)

LEMMA StepEmits ==
  ASSUME pc = "generate", Outside
  PROVE  Emitting
BY DEF Outside, runVars, Emitting

LEMMA SkipStep ==
  ASSUME IInv, SkipUnreachable
  PROVE  IInv'
<1>1. /\ pos \in DOMAIN prog /\ pos # Top /\ pos' = After(pos) /\ Emitting
      /\ insert' = insert /\ blocks' = blocks /\ loops' = loops /\ frames' = frames
      /\ labels' = labels
  BY StepEmits DEF SkipUnreachable, Control
<1>2. /\ Sound(blocks) /\ labels \in Seq(DOMAIN prog)
      /\ insert \in DOMAIN blocks /\ Inserted(insert, After(pos)) /\ Depth \in Nat
  BY <1>1, HereFacts
<1>3. PICK d : d = Depth
  OBVIOUS
<1>4. Carries(d, d, {}) BY <1>1, <1>2, <1>3, CarriesEnds
<1>5. QED BY <1>1, <1>2, <1>3, <1>4, EmitStep

LEMMA VisitingFacts ==
  ASSUME IInv, NEW kind, kind # "subp", Visiting(kind)
  PROVE  /\ pos \in DOMAIN prog /\ pos # Top /\ prog[pos].kind = kind /\ pc = "generate"
         /\ ~Terminated(blocks, insert)
         /\ \A T : \A C :
              Ended(C, insert, T) = [C EXCEPT ![insert].end = T]
<1>1. /\ pos \in DOMAIN prog /\ prog[pos].kind = kind /\ pc = "generate"
      /\ ~Terminated(blocks, insert)
  BY DEF Visiting, Stmt
<1>2. prog[Top].kind = "subp" BY ProgramFacts DEF IInv, DescentInv
<1>3. QED BY <1>1, <1>2 DEF Ended

LEMMA ActStep ==
  ASSUME IInv, EmitAct
  PROVE  IInv'
<1>1. pos \in DOMAIN prog /\ pos # Top /\ pc = "generate"
  BY VisitingFacts DEF EmitAct
<1>2. /\ pos' = After(pos) /\ Emitting
      /\ insert' = insert /\ loops' = loops /\ frames' = frames
      /\ labels' = labels
      /\ blocks' = [blocks EXCEPT ![insert].code = Append(@, Event(pos, 1))]
  BY <1>1, StepEmits DEF EmitAct, Control
<1>3. /\ Sound(blocks) /\ labels \in Seq(DOMAIN prog) /\ Event(pos, 1) \in Events
      /\ insert \in DOMAIN blocks /\ Inserted(insert, After(pos)) /\ Depth \in Nat
  BY <1>1, HereFacts
<1>4. /\ Sound(blocks') /\ DOMAIN blocks' = DOMAIN blocks
      /\ \A c \in DOMAIN blocks : blocks'[c].end = blocks[c].end
  <2>1. blocks' = Coded(blocks, insert, Event(pos, 1)) BY <1>2 DEF Coded
  <2>2. QED BY <1>3, <2>1, CodeFacts
<1>5. PICK d : d = Depth
  OBVIOUS
<1>6. Carries(d, d, {}) BY <1>3, <1>4, <1>5, CarriesEnds
<1>7. QED BY <1>1, <1>2, <1>3, <1>4, <1>5, <1>6, EmitStep

LEMMA ReturnStep ==
  ASSUME IInv, EmitReturn
  PROVE  IInv'
<1>1. pos \in DOMAIN prog /\ pos # Top /\ pc = "generate" /\ ~Terminated(blocks, insert)
  BY VisitingFacts DEF EmitReturn
<1>2. /\ pos' = After(pos) /\ Emitting
      /\ insert' = insert /\ loops' = loops /\ frames' = frames
      /\ labels' = labels
      /\ blocks' = Ended(blocks, insert, Ret(Event(pos, 1)))
  BY <1>1, StepEmits DEF EmitReturn, Control
<1>3. /\ BlocksInv /\ Sound(blocks) /\ labels \in Seq(DOMAIN prog) /\ Event(pos, 1) \in Events
      /\ insert \in DOMAIN blocks /\ Inserted(insert, After(pos)) /\ Depth \in Nat
  BY <1>1, HereFacts
<1>4. PICK e \in Ends : e = Ret(Event(pos, 1)) /\ Range(e.to) = {}
  BY <1>3, EndFacts
<1>5. PICK d : d = Depth
  OBVIOUS
<1>6. Carries(d, d, {insert}) /\ DOMAIN blocks' = DOMAIN blocks \union {}
  BY <1>1, <1>2, <1>3, <1>4, <1>5, CarriesEnded
<1>7. QED BY <1>1, <1>2, <1>3, <1>5, <1>6, EmitStep

LEMMA LabelBlockFacts ==
  ASSUME NEW l \in DOMAIN prog, Sound(blocks)
  PROVE  /\ Block(l, "label") \in Names /\ Block(l, "label")[2] = "label"
         /\ Sound(WithLabel(l))
         /\ DOMAIN WithLabel(l) = DOMAIN blocks \union ({Block(l, "label")} \ DOMAIN blocks)
         /\ Block(l, "label") \in DOMAIN WithLabel(l)
         /\ Branched(WithLabel(l)) = Branched(blocks)
         /\ \A b \in DOMAIN blocks : WithLabel(l)[b] = blocks[b]
<1>1. Block(l, "label") \in Names /\ Block(l, "label")[2] = "label"
  BY DEF Block, Names, Roles
<1>2. QED BY <1>1, CreatedFacts DEF WithLabel

LEMMA NamedFacts ==
  ASSUME prog \in Programs, NEW q \in DOMAIN prog, prog[q].kind = "goto"
  PROVE  Named(prog, q) \in DOMAIN prog /\ prog[Named(prog, q)].kind = "label"
<1>1. Visible(prog, q) # {} /\ q # Top
  <2>1. q # Top BY ProgramFacts
  <2>2. WellFormed(prog) BY ProgramsWellFormed
  <2>3. QED BY <2>1, <2>2 DEF WellFormed
<1>2. IsPath(q) /\ q \in Seq(Nat) /\ Len(q) \in Nat BY ProgramFacts, PathFacts
<1>3. \A l \in Visible(prog, q) : Len(Region(prog, l)) \in 0..Len(q)
  <2> TAKE l \in Visible(prog, q)
  <2>1. Region(prog, l) \in Enclosing(q) BY DEF Visible
  <2>2. PICK n \in 1..(Len(q) - 2) : Region(prog, l) = SubSeq(q, 1, n)
    BY <2>1 DEF Enclosing
  <2>3. Len(SubSeq(q, 1, n)) = n /\ n \in 0..Len(q) BY <1>2
  <2>4. QED BY <2>2, <2>3
<1>4. PICK x \in {Len(Region(prog, l)) : l \in Visible(prog, q)} :
        \A y \in {Len(Region(prog, l)) : l \in Visible(prog, q)} : y <= x
  <2> DEFINE T == {Len(Region(prog, l)) : l \in Visible(prog, q)}
  <2>1. T \in SUBSET (0..Len(q)) /\ T # {} BY <1>1, <1>3
  <2>2. QED BY <1>2, <2>1, Greatest
<1>5. \E l \in Visible(prog, q) :
        \A m \in Visible(prog, q) : Len(Region(prog, m)) <= Len(Region(prog, l))
  BY <1>4
<1>6. Named(prog, q) \in Visible(prog, q) BY <1>5 DEF Named
<1>7. QED BY <1>6 DEF Visible, Labels

LEMMA GotoStep ==
  ASSUME IInv, EmitGoto
  PROVE  IInv'
<1>1. /\ pos \in DOMAIN prog /\ pos # Top /\ pc = "generate" /\ ~Terminated(blocks, insert)
      /\ prog[pos].kind = "goto"
  BY VisitingFacts DEF EmitGoto
<1>2. PICK l : l = Named(prog, pos)
  OBVIOUS
<1>3. /\ pos' = After(pos) /\ Emitting
      /\ insert' = insert /\ loops' = loops /\ frames' = frames
      /\ labels' = labels
      /\ blocks' = Ended(WithLabel(l), insert, Br(Event(pos, 1), Block(l, "label")))
  BY <1>1, <1>2, StepEmits DEF EmitGoto, Control
<1>4. /\ BlocksInv /\ Sound(blocks) /\ labels \in Seq(DOMAIN prog) /\ Event(pos, 1) \in Events
      /\ insert \in DOMAIN blocks /\ Inserted(insert, After(pos)) /\ Depth \in Nat
      /\ prog \in Programs
  BY <1>1, HereFacts
<1>5. l \in DOMAIN prog BY <1>1, <1>2, <1>4, NamedFacts
<1> DEFINE b == Block(l, "label")
           S == {b} \ DOMAIN blocks
           C == WithLabel(l)
<1>6. /\ b \in Names /\ b[2] = "label" /\ Sound(C) /\ DOMAIN C = DOMAIN blocks \union S
      /\ Branched(C) = Branched(blocks) /\ \A c \in DOMAIN blocks : C[c] = blocks[c]
  BY <1>4, <1>5, LabelBlockFacts
<1> HIDE DEF b, C
<1>7. PICK e \in Ends : e = Br(Event(pos, 1), b) /\ Range(e.to) = {b}
  BY <1>4, <1>6, EndFacts
<1>8. PICK d : d = Depth
  OBVIOUS
<1>9. S \in SUBSET Names /\ Range(e.to) \subseteq DOMAIN blocks \union S
      /\ (\A c \in S : c[2] = "label") /\ \A c \in Range(e.to) : c[2] # "step"
  BY <1>6, <1>7
<1>10. blocks' = Ended(C, insert, e) BY <1>3, <1>7 DEF b, C
<1> HIDE DEF S
<1>11. Carries(d, d, {insert}) /\ DOMAIN blocks' = DOMAIN blocks \union S
  BY <1>1, <1>4, <1>6, <1>8, <1>9, <1>10, CarriesEnded
<1>12. QED BY <1>1, <1>3, <1>4, <1>8, <1>11, EmitStep

LEMMA LabelStep ==
  ASSUME IInv, EmitLabel
  PROVE  IInv'
<1>1. pos \in DOMAIN prog /\ prog[pos].kind = "label" /\ pc = "generate" /\ prog \in Programs
  BY DEF EmitLabel, Labels, IInv, DescentInv
<1>2. pos # Top BY <1>1, ProgramFacts
<1> DEFINE b == Block(pos, "label")
           S == {b} \ DOMAIN blocks
           C == WithLabel(pos)
<1>3. /\ pos' = After(pos) /\ Emitting
      /\ insert' = b /\ loops' = loops /\ frames' = frames
      /\ labels' = Append(labels, pos)
      /\ blocks' = BranchIfOpen(C, insert, Br(Silent, b))
  BY <1>1, StepEmits DEF EmitLabel
<1>4. /\ BlocksInv /\ Sound(blocks) /\ labels \in Seq(DOMAIN prog)
      /\ insert \in DOMAIN blocks /\ Depth \in Nat
  BY <1>1, <1>2, HereFacts
<1>5. /\ b \in Names /\ b[2] = "label" /\ Sound(C) /\ DOMAIN C = DOMAIN blocks \union S
      /\ Branched(C) = Branched(blocks) /\ (\A c \in DOMAIN blocks : C[c] = blocks[c])
      /\ S \in SUBSET Names
  BY <1>1, <1>4, LabelBlockFacts
<1>6. labels' \in Seq(DOMAIN prog) /\ Inserted(b, pos')
  <2>1. Mark(b) = pos BY DEF Mark, Block
  <2>2. IsPath(pos) BY <1>1, <1>2, HereFacts
  <2>3. Precedes(pos, After(pos)) BY <2>2, LeftPrecedes
  <2>4. QED BY <1>1, <1>3, <1>4, <1>5, <2>1, <2>3 DEF Inserted
<1>7. PICK e \in Ends : e = Br(Silent, b) /\ Range(e.to) = {b}
  BY <1>5, EndFacts, EventFacts
<1> HIDE DEF b, C
<1>8. PICK d : d = Depth
  OBVIOUS
<1>9. Range(e.to) \subseteq DOMAIN blocks \union S /\ \A c \in Range(e.to) : c[2] # "step"
  BY <1>5, <1>7
<1>10. \A c \in S : c[2] = "label" BY <1>5
<1> HIDE DEF S
<1>11. b \in DOMAIN blocks \union S BY <1>7, <1>9
<1>12. Terminated(C, insert) <=> Terminated(blocks, insert)
  BY <1>4, <1>5 DEF Terminated
<1>13. CASE Terminated(blocks, insert)
  <2>1. blocks' = C BY <1>3, <1>12, <1>13 DEF BranchIfOpen
  <2>2. Grown(blocks, blocks', {}) BY <1>5, <2>1 DEF Grown
  <2>3. ~(d < Depth) /\ ~(d > d) BY <1>4, <1>8
  <2>4. Carries(d, d, {}) BY <1>5, <1>10, <2>1, <2>2, <2>3 DEF Carries
  <2>5. QED BY <1>1, <1>2, <1>3, <1>5, <1>6, <1>8, <1>11, <2>1, <2>4, EmitStep
<1>14. CASE ~Terminated(blocks, insert)
  <2>1. blocks' = Ended(C, insert, e)
    BY <1>3, <1>7, <1>12, <1>14 DEF BranchIfOpen
  <2>2. Carries(d, d, {insert}) /\ DOMAIN blocks' = DOMAIN blocks \union S
    BY <1>4, <1>5, <1>8, <1>9, <1>10, <1>14, <2>1, CarriesEnded
  <2>3. QED BY <1>1, <1>2, <1>3, <1>6, <1>8, <1>11, <2>2, EmitStep
<1>15. QED BY <1>13, <1>14

(* An exit leaves a loop of the loop stack, the merge of which is there.   *)
LEMMA TargetFacts ==
  ASSUME IInv, Targets # {}
  PROVE  ExitTarget \in DOMAIN blocks /\ ExitTarget[2] = "merge"
<1>1. DescentInv /\ LoopsInv /\ OpenInv BY DEF IInv
<1>2. loops \in Seq(LoopRecords) /\ Targets \subseteq DOMAIN loops
  BY <1>1, LoopsFacts DEF Targets
<1>3. Targets \in SUBSET (0..Len(loops)) /\ Len(loops) \in Nat BY <1>2
<1>4. \E i \in Targets : \A j \in Targets : j <= i BY <1>3, Greatest
<1>5. PICK i : i = CHOOSE j \in Targets : \A k \in Targets : k <= j
  OBVIOUS
<1>6. i \in Targets BY <1>4, <1>5
<1>7. ExitTarget = loops[i].merge BY <1>5 DEF ExitTarget
<1>8. PICK k \in 1..Depth :
        loops[i].merge = Merge(Owner(k)) /\ prog[Owner(k)].kind \in LoopKinds
  BY <1>1, <1>2, <1>6, LoopsFacts
<1>9. Merge(Owner(k)) \in Ahead(Owner(k), PartOf(k))
  BY <1>8 DEF Ahead, Closing, Droppable, LoopKinds
<1>10. QED BY <1>1, <1>7, <1>8, <1>9 DEF OpenInv, Merge, Block

LEMMA ExitStep ==
  ASSUME IInv, EmitExit
  PROVE  IInv'
<1>1. /\ pos \in DOMAIN prog /\ pos # Top /\ pc = "generate" /\ ~Terminated(blocks, insert)
  BY VisitingFacts DEF EmitExit
<1>2. PICK t : t = ExitTarget
  OBVIOUS
<1>3. /\ pos' = After(pos) /\ Emitting
      /\ loops' = loops /\ frames' = frames /\ labels' = labels
  BY <1>1, StepEmits DEF EmitExit, Control
<1>4. /\ BlocksInv /\ Sound(blocks) /\ labels \in Seq(DOMAIN prog) /\ Event(pos, 1) \in Events
      /\ insert \in DOMAIN blocks /\ Inserted(insert, After(pos)) /\ Depth \in Nat
      /\ IsPath(pos)
  BY <1>1, HereFacts
<1>5. t \in DOMAIN blocks /\ t[2] = "merge" /\ t \in Names
  BY <1>2, <1>4, TargetFacts DEF EmitExit, Sound
<1>6. PICK d : d = Depth
  OBVIOUS
<1>7. CASE Stmt.conditional
  <2> DEFINE b == Block(pos, "continue")
             C == Created(blocks, {b})
  <2>1. insert' = b /\ blocks' = Ended(C, insert, CondBr(Event(pos, 1), t, b))
    BY <1>2, <1>7 DEF EmitExit
  <2>2. b \in Names /\ b[2] = "continue" /\ Mark(b) = pos
    BY <1>1 DEF Block, Names, Roles, Mark
  <2>3. Begun(Mark(b), pos') BY <1>3, <1>4, <2>2, LeftPrecedes DEF Begun
  <2> HIDE DEF b
  <2>4. /\ Sound(C) /\ DOMAIN C = DOMAIN blocks \union {b} /\ Branched(C) = Branched(blocks)
        /\ \A c \in DOMAIN blocks : C[c] = blocks[c]
    BY <1>4, <2>2, CreatedFacts
  <2> HIDE DEF C
  <2>5. PICK e \in Ends : e = CondBr(Event(pos, 1), t, b) /\ Range(e.to) = {t, b}
    <3>1. PICK v \in Events : v = Event(pos, 1) BY <1>4
    <3>2. CondBr(v, t, b) \in Ends /\ Range(CondBr(v, t, b).to) = {t, b}
      BY <1>5, <2>2, EndFacts
    <3>3. QED BY <3>1, <3>2
  <2>6. {b} \in SUBSET Names /\ Range(e.to) \subseteq DOMAIN blocks \union {b}
        /\ (\A c \in Range(e.to) : c[2] # "step")
        /\ \A c \in {b} : Begun(Mark(c), pos') /\ c \in Range(e.to)
    BY <1>5, <2>2, <2>3, <2>5
  <2>7. Carries(d, d, {insert}) /\ DOMAIN blocks' = DOMAIN blocks \union {b}
    BY <1>1, <1>4, <1>6, <2>1, <2>4, <2>5, <2>6, CarriesEnded
  <2>8. Inserted(b, pos') BY <2>2, <2>3 DEF Inserted
  <2>9. QED BY <1>1, <1>3, <1>4, <1>6, <2>1, <2>7, <2>8, EmitStep
<1>8. CASE ~Stmt.conditional
  <2>1. insert' = insert /\ blocks' = Ended(blocks, insert, Br(Event(pos, 1), t))
    BY <1>2, <1>8 DEF EmitExit
  <2>2. PICK e \in Ends : e = Br(Event(pos, 1), t) /\ Range(e.to) = {t}
    BY <1>4, <1>5, EndFacts
  <2>3. Range(e.to) \subseteq DOMAIN blocks \union {} /\ \A c \in Range(e.to) : c[2] # "step"
    BY <1>5, <2>2
  <2>4. blocks' = Ended(blocks, insert, e) BY <2>1, <2>2
  <2>5. PICK S \in SUBSET Names : S = {}
    OBVIOUS
  <2>6. /\ DOMAIN blocks = DOMAIN blocks \union S /\ Range(e.to) \subseteq DOMAIN blocks \union S
        /\ \A c \in S : c[2] = "label"
    BY <2>3, <2>5
  <2>7. Carries(d, d, {insert}) /\ DOMAIN blocks' = DOMAIN blocks \union S
    BY <1>1, <1>4, <1>6, <2>3, <2>4, <2>6, CarriesEnded
  <2>8. QED BY <1>1, <1>3, <1>4, <1>6, <2>1, <2>6, <2>7, EmitStep
<1>9. QED BY <1>7, <1>8

-----------------------------------------------------------------------------
(* Into a compound statement *)

(* The blocks of the statement entered are new; but those lowering may yet *)
(* drop, each is branched to.                                              *)
LEMMA IntoStep ==
  ASSUME IInv, Emitting, pos \in DOMAIN prog, 1 \in 1..Parts(prog[pos]), Enter(1, HereFrame),
         labels' \in Seq(DOMAIN prog),
         loops' = CASE prog[pos].kind \in LoopKinds ->
                         Append(loops, [merge |-> Merge(pos), name |-> prog[pos].name])
                    [] prog[pos].kind = "subp" -> <<>>
                    [] OTHER -> loops,
         Sound(blocks'), NEW S, S \subseteq Names, DOMAIN blocks' = DOMAIN blocks \union S,
         NEW R, Branched(blocks') = Branched(blocks) \union R, \A b \in R : b[2] # "step",
         \A b \in DOMAIN blocks \ {insert} : blocks'[b].end = blocks[b].end,
         \A b \in S : /\ b[1] = pos /\ (b[2] \in {"then", "false"} => b[3] = 1)
                      /\ b[2] = "entry" \/ b \in R \/ b \in Droppable(pos),
         insert' \in S, insert'[2] \in {"entry", "then", "body"},
         \A b \in Ahead(pos, 1) : b \in S /\ ~Terminated(blocks', b),
         Needed(pos) \subseteq S
  PROVE  IInv'
<1>1. IsPath(pos) /\ Depth \in Nat /\ Len(pos) = 2 * Depth + 1
  BY PositionFacts DEF IInv, DescentInv
<1>2. PICK d \in Nat : d = Depth + 1 BY <1>1
<1>3. pos' = First(pos, 1) /\ 1 \in Nat \ {0} BY DEF Enter
<1>4. Owner(d)' = pos
  <2>1. 2 * d - 1 = Len(pos) BY <1>1, <1>2
  <2>2. SubSeq(pos', 1, Len(pos)) = pos BY <1>1, <1>3, FirstFacts
  <2>3. QED BY <2>1, <2>2 DEF Owner
<1>5. Begun(pos, pos') /\ Begun(Append(pos, 1), pos')
  BY <1>1, <1>3, LeftPrecedes
<1>6. \A b \in S : Begun(Mark(b), pos') BY <1>5 DEF Mark
<1>7. d > Depth /\ ~(Depth < Depth) BY <1>1, <1>2
<1>8. Carries(Depth, d, {insert})
  <2>1. Grown(blocks, blocks', {insert}) BY DEF Grown
  <2>2. QED BY <1>4, <1>6, <1>7, <2>1 DEF Carries
<1>9. Inserted(insert', pos') BY <1>6 DEF Inserted
<1>10. insert' \in DOMAIN blocks' /\ Needed(pos) \subseteq DOMAIN blocks'
       /\ \A b \in Ahead(pos, 1) : b \in DOMAIN blocks' /\ ~Terminated(blocks', b)
  OBVIOUS
<1>11. QED BY <1>2, <1>8, <1>9, <1>10, EnterStep

LEMMA IfStep ==
  ASSUME IInv, EnterIf
  PROVE  IInv'
<1>1. /\ pos \in DOMAIN prog /\ pos # Top /\ pc = "generate" /\ ~Terminated(blocks, insert)
      /\ prog[pos].kind = "if"
  BY VisitingFacts DEF EnterIf
<1>2. /\ Emitting /\ Enter(1, HereFrame) /\ loops' = loops /\ labels' = labels
      /\ insert' = Then(pos, 1)
      /\ blocks' = Tested(Created(blocks, {Merge(pos)}), pos, 1, insert)
  BY <1>1, StepEmits DEF EnterIf, Control
<1>3. /\ DescentInv /\ BlocksInv /\ Sound(blocks) /\ labels \in Seq(DOMAIN prog)
      /\ insert \in DOMAIN blocks /\ prog \in Programs
  BY <1>1, HereFacts
<1>4. prog[pos].guards \in Nat \ {0} /\ 1 \in 1..Parts(prog[pos]) /\ 1 <= prog[pos].guards
  <2>1. prog[pos].guards \in Nat \ {0} /\ prog[pos].hasElse \in BOOLEAN
    BY <1>1, <1>3, ProgramFacts
  <2>2. Parts(prog[pos]) = prog[pos].guards + (IF prog[pos].hasElse THEN 1 ELSE 0)
    BY <1>1 DEF Parts, LoopKinds
  <2>3. QED BY <2>1, <2>2
<1>5. PICK m, t, f : m = Merge(pos) /\ t = Then(pos, 1) /\ f = FalseBlock(pos, 1)
  OBVIOUS
<1>6. /\ m \in Names /\ t \in Names /\ f \in Names
      /\ m[1] = pos /\ t[1] = pos /\ f[1] = pos
      /\ m[2] = "merge" /\ t[2] = "then" /\ t[3] = 1
      /\ f = m \/ (f[2] = "false" /\ f[3] = 1)
  BY <1>1, <1>5 DEF Merge, Then, FalseBlock, Block, Names, Roles
<1>7. m \notin DOMAIN blocks /\ f \notin DOMAIN blocks
  BY <1>1, <1>3, <1>6, FreshFacts
<1> DEFINE B == Created(blocks, {m})
           C == Created(B, {t, f} \ {m})
<1>8. /\ Sound(B) /\ DOMAIN B = DOMAIN blocks \union {m} /\ Branched(B) = Branched(blocks)
      /\ \A b \in DOMAIN blocks : B[b] = blocks[b]
      /\ ~Terminated(B, m)
  BY <1>3, <1>6, <1>7, CreatedFacts
<1> HIDE DEF B
<1>9. /\ Sound(C) /\ DOMAIN C = DOMAIN blocks \union {m, t, f} /\ Branched(C) = Branched(blocks)
      /\ \A b \in DOMAIN blocks \union {m} : C[b] = B[b]
      /\ f # m => ~Terminated(C, f)
  <2>1. {t, f} \ {m} \in SUBSET Names BY <1>6
  <2>2. /\ Sound(C) /\ DOMAIN C = DOMAIN B \union ({t, f} \ {m}) /\ Branched(C) = Branched(B)
        /\ \A b \in DOMAIN B : C[b] = B[b]
        /\ \A b \in ({t, f} \ {m}) \ DOMAIN B : ~Terminated(C, b)
    BY <1>8, <2>1, CreatedFacts
  <2>3. f # m => f \in ({t, f} \ {m}) \ DOMAIN B BY <1>7, <1>8
  <2>4. QED BY <1>8, <2>2, <2>3
<1>10. ~Terminated(C, m) /\ ~Terminated(C, f) /\ ~Terminated(C, insert)
  BY <1>1, <1>3, <1>8, <1>9 DEF Terminated
<1>11. \A b \in DOMAIN blocks : C[b] = blocks[b] BY <1>8, <1>9
<1>12. PICK e \in Ends : e = CondBr(Event(pos, 1), t, f) /\ Range(e.to) = {t, f}
  <2>1. PICK v \in Events : v = Event(pos, 1) BY <1>1, HereFacts
  <2>2. CondBr(v, t, f) \in Ends /\ Range(CondBr(v, t, f).to) = {t, f}
    BY <1>6, EndFacts
  <2>3. QED BY <2>1, <2>2
<1>13. blocks' = Ended(C, insert, e) BY <1>2, <1>5, <1>12 DEF Tested, B
<1> HIDE DEF C
<1>14. /\ Sound(blocks') /\ DOMAIN blocks' = DOMAIN blocks \union {m, t, f}
       /\ Branched(blocks') = Branched(blocks) \union {t, f}
       /\ \A b \in DOMAIN C \ {insert} : blocks'[b] = C[b]
  <2>1. insert \in DOMAIN C /\ Range(e.to) \subseteq DOMAIN C
    BY <1>3, <1>9, <1>12
  <2>2. QED BY <1>9, <1>10, <1>12, <1>13, <2>1, EndedFacts
<1>15. ~Terminated(blocks', m) /\ ~Terminated(blocks', f)
  BY <1>3, <1>7, <1>9, <1>10, <1>14 DEF Terminated
<1>16. Droppable(pos) = {m} /\ Ahead(pos, 1) = {m, f} /\ Needed(pos) = {}
  BY <1>1, <1>4, <1>5 DEF Droppable, Ahead, Closing, Needed, LoopKinds
<1>17. loops' = CASE prog[pos].kind \in LoopKinds ->
                         Append(loops, [merge |-> Merge(pos), name |-> prog[pos].name])
                    [] prog[pos].kind = "subp" -> <<>>
                    [] OTHER -> loops
  BY <1>1, <1>2 DEF LoopKinds
<1> DEFINE S == {m, t, f}
           R == {t, f}
<1>18. /\ S \subseteq Names /\ (\A b \in R : b[2] # "step")
       /\ \A b \in S : /\ b[1] = pos /\ (b[2] \in {"then", "false"} => b[3] = 1)
                       /\ b \in R \/ b \in Droppable(pos)
  BY <1>6, <1>16
<1>19. /\ \A b \in Ahead(pos, 1) : b \in S /\ ~Terminated(blocks', b)
       /\ Needed(pos) \subseteq S /\ insert' \in S /\ insert'[2] = "then"
  BY <1>2, <1>5, <1>6, <1>15, <1>16
<1>20. DOMAIN blocks' = DOMAIN blocks \union S /\ Branched(blocks') = Branched(blocks) \union R
       /\ \A b \in DOMAIN blocks \ {insert} : blocks'[b].end = blocks[b].end
  BY <1>9, <1>11, <1>14
<1> HIDE DEF S, R
<1>21. labels' \in Seq(DOMAIN prog) /\ insert'[2] \in {"entry", "then", "body"}
  BY <1>2, <1>3, <1>19
<1>22. QED
  BY <1>1, <1>2, <1>4, <1>14, <1>17, <1>18, <1>19, <1>20, <1>21, IntoStep

(* What a loop statement adds to the loop stack.                           *)
LEMMA PushFacts ==
  ASSUME PushLoop, prog[pos].kind \in LoopKinds
  PROVE  /\ loops' = CASE prog[pos].kind \in LoopKinds ->
                         Append(loops, [merge |-> Merge(pos), name |-> prog[pos].name])
                    [] prog[pos].kind = "subp" -> <<>>
                    [] OTHER -> loops
         /\ 1 \in 1..Parts(prog[pos])
<1>1. 1 \in 1..Parts(prog[pos]) BY DEF Parts, LoopKinds
<1>2. QED BY <1>1 DEF PushLoop, Stmt, LoopKinds

LEMMA LoopStep ==
  ASSUME IInv, EnterLoop
  PROVE  IInv'
<1>1. /\ pos \in DOMAIN prog /\ pos # Top /\ pc = "generate" /\ ~Terminated(blocks, insert)
      /\ prog[pos].kind \in {"loop", "while"}
  BY VisitingFacts DEF EnterLoop
<1>2. PICK m, y, h : m = Merge(pos) /\ y = Body(pos) /\ h = Header(pos)
  OBVIOUS
<1> DEFINE S == {m, y, h}
           C == Created(blocks, S)
           D == Ended(C, insert, Br(Silent, h))
<1>3. /\ Emitting /\ Enter(1, HereFrame) /\ PushLoop /\ labels' = labels
      /\ insert' = y
      /\ blocks' = IF prog[pos].kind = "while"
                     THEN Ended(D, h, CondBr(Event(pos, 1), y, m)) ELSE D
  BY <1>1, <1>2, StepEmits DEF EnterLoop, Control, Stmt
<1>4. /\ DescentInv /\ BlocksInv /\ Sound(blocks) /\ labels \in Seq(DOMAIN prog)
      /\ insert \in DOMAIN blocks /\ prog \in Programs
  BY <1>1, HereFacts
<1>5. /\ m \in Names /\ y \in Names /\ h \in Names
      /\ m[1] = pos /\ y[1] = pos /\ h[1] = pos
      /\ m[2] = "merge" /\ y[2] = "body"
      /\ IF prog[pos].kind = "while" THEN h[2] = "header" ELSE h = y
  BY <1>1, <1>2 DEF Merge, Body, Header, Block, Names, Roles
<1>6. m \notin DOMAIN blocks /\ y \notin DOMAIN blocks /\ h \notin DOMAIN blocks
  <2>1. h[2] \in {"header", "body"} BY <1>5
  <2>2. QED BY <1>1, <1>4, <1>5, <2>1, FreshFacts
<1>7. S \subseteq Names /\ S \in SUBSET Names BY <1>5
<1>8. /\ Sound(C) /\ DOMAIN C = DOMAIN blocks \union S /\ Branched(C) = Branched(blocks)
      /\ \A b \in DOMAIN blocks : C[b] = blocks[b]
      /\ \A b \in S : ~Terminated(C, b)
  BY <1>4, <1>6, <1>7, CreatedFacts
<1> HIDE DEF C
<1>9. PICK e \in Ends : e = Br(Silent, h) /\ Range(e.to) = {h}
  BY <1>5, EventFacts, EndFacts
<1>10. /\ Sound(D) /\ DOMAIN D = DOMAIN blocks \union S
       /\ Branched(D) = Branched(blocks) \union {h}
       /\ \A b \in DOMAIN C \ {insert} : D[b] = C[b]
  <2>1. insert \in DOMAIN C /\ Range(e.to) \subseteq DOMAIN C
    BY <1>4, <1>8, <1>9
  <2>2. ~Terminated(C, insert) BY <1>1, <1>4, <1>8 DEF Terminated
  <2>3. QED BY <1>8, <1>9, <2>1, <2>2, EndedFacts
<1> HIDE DEF D
<1>11. \A b \in S : ~Terminated(D, b) BY <1>4, <1>6, <1>8, <1>10 DEF Terminated
<1> DEFINE R == {y, h} \union (IF prog[pos].kind = "while" THEN {m} ELSE {})
<1>12. /\ Sound(blocks') /\ DOMAIN blocks' = DOMAIN blocks \union S
       /\ Branched(blocks') = Branched(blocks) \union R
       /\ \A b \in DOMAIN blocks \ {insert} : blocks'[b].end = blocks[b].end
       /\ ~Terminated(blocks', m)
  <2>1. \A b \in DOMAIN blocks \ {insert} : D[b] = blocks[b] /\ b # h
    BY <1>6, <1>8, <1>10
  <2>2. CASE prog[pos].kind = "while"
    <3>1. PICK c \in Ends : c = CondBr(Event(pos, 1), y, m) /\ Range(c.to) = {y, m}
      <4>1. PICK v \in Events : v = Event(pos, 1) BY <1>1, HereFacts
      <4>2. CondBr(v, y, m) \in Ends /\ Range(CondBr(v, y, m).to) = {y, m}
        BY <1>5, EndFacts
      <4>3. QED BY <4>1, <4>2
    <3>2. blocks' = Ended(D, h, c) BY <1>3, <2>2, <3>1
    <3>3. h \in DOMAIN D /\ ~Terminated(D, h) /\ Range(c.to) \subseteq DOMAIN D
      BY <1>10, <1>11, <3>1
    <3>4. /\ Sound(blocks') /\ DOMAIN blocks' = DOMAIN D
          /\ Branched(blocks') = Branched(D) \union Range(c.to)
          /\ \A b \in DOMAIN D \ {h} : blocks'[b] = D[b]
      BY <1>10, <3>2, <3>3, EndedFacts
    <3>5. h # m BY <1>5, <2>2
    <3>6. Branched(blocks') = Branched(blocks) \union R
      BY <1>10, <2>2, <3>1, <3>4
    <3>7. ~Terminated(blocks', m) BY <1>10, <1>11, <3>4, <3>5 DEF Terminated
    <3>8. QED BY <1>10, <2>1, <3>4, <3>6, <3>7
  <2>3. CASE prog[pos].kind # "while"
    <3>1. blocks' = D BY <1>3, <2>3
    <3>2. Branched(blocks') = Branched(blocks) \union R
      BY <1>5, <1>10, <2>3, <3>1
    <3>3. QED BY <1>10, <1>11, <2>1, <3>1, <3>2
  <2>4. QED BY <2>2, <2>3
<1>13. Droppable(pos) = {m} /\ Ahead(pos, 1) = {m} /\ Needed(pos) = {y, h}
  BY <1>1, <1>2 DEF Droppable, Ahead, Closing, Needed, LoopKinds
<1>14. prog[pos].kind \in LoopKinds BY <1>1 DEF LoopKinds
<1>15. /\ \A b \in R : b[2] # "step"
       /\ \A b \in S : /\ b[1] = pos /\ b[2] \notin {"then", "false"}
                       /\ b \in R \/ b \in Droppable(pos)
  BY <1>5, <1>13
<1>16. /\ \A b \in Ahead(pos, 1) : b \in S /\ ~Terminated(blocks', b)
       /\ Needed(pos) \subseteq S /\ insert' \in S /\ insert'[2] \in {"entry", "then", "body"}
       /\ labels' \in Seq(DOMAIN prog)
  BY <1>3, <1>4, <1>5, <1>12, <1>13
<1> HIDE DEF S, R
<1>17. QED BY <1>1, <1>3, <1>7, <1>12, <1>14, <1>15, <1>16, PushFacts, IntoStep

LEMMA ForStep ==
  ASSUME IInv, EnterFor
  PROVE  IInv'
<1>1. /\ pos \in DOMAIN prog /\ pos # Top /\ pc = "generate" /\ ~Terminated(blocks, insert)
      /\ prog[pos].kind = "for"
  BY VisitingFacts DEF EnterFor
<1>2. PICK m, s, y, i : m = Merge(pos) /\ s = StepBlock(pos) /\ y = Body(pos) /\ i = InitBlock(pos)
  OBVIOUS
<1> DEFINE S == {m, s, y, i}
           C == Created(blocks, S)
           D == Ended(C, insert, CondBr(Event(pos, 1), i, m))
<1>3. /\ Emitting /\ Enter(1, HereFrame) /\ PushLoop /\ labels' = labels
      /\ insert' = y /\ blocks' = Ended(D, i, Br(Silent, y))
  BY <1>1, <1>2, StepEmits DEF EnterFor, Control
<1>4. /\ DescentInv /\ BlocksInv /\ Sound(blocks) /\ labels \in Seq(DOMAIN prog)
      /\ insert \in DOMAIN blocks /\ prog \in Programs
  BY <1>1, HereFacts
<1>5. /\ m \in Names /\ s \in Names /\ y \in Names /\ i \in Names
      /\ m[1] = pos /\ s[1] = pos /\ y[1] = pos /\ i[1] = pos
      /\ m[2] = "merge" /\ s[2] = "step" /\ y[2] = "body" /\ i[2] = "init"
  BY <1>1, <1>2 DEF Merge, StepBlock, Body, InitBlock, Block, Names, Roles
<1>6. \A b \in S : b \notin DOMAIN blocks
  <2>1. \A b \in S : b[1] = pos /\ b[2] \in {"merge", "step", "body", "init"}
    BY <1>5
  <2>2. QED BY <1>1, <1>4, <2>1, FreshFacts
<1>7. S \subseteq Names /\ S \in SUBSET Names BY <1>5
<1>8. /\ Sound(C) /\ DOMAIN C = DOMAIN blocks \union S /\ Branched(C) = Branched(blocks)
      /\ \A b \in DOMAIN blocks : C[b] = blocks[b]
      /\ \A b \in S : ~Terminated(C, b)
  BY <1>4, <1>6, <1>7, CreatedFacts
<1> HIDE DEF C
<1>9. PICK e \in Ends : e = CondBr(Event(pos, 1), i, m) /\ Range(e.to) = {i, m}
  <2>1. PICK v \in Events : v = Event(pos, 1) BY <1>1, HereFacts
  <2>2. CondBr(v, i, m) \in Ends /\ Range(CondBr(v, i, m).to) = {i, m}
    BY <1>5, EndFacts
  <2>3. QED BY <2>1, <2>2
<1>10. /\ Sound(D) /\ DOMAIN D = DOMAIN blocks \union S
       /\ Branched(D) = Branched(blocks) \union {i, m}
       /\ \A b \in DOMAIN C \ {insert} : D[b] = C[b]
  <2>1. insert \in DOMAIN C /\ Range(e.to) \subseteq DOMAIN C
    BY <1>4, <1>8, <1>9
  <2>2. ~Terminated(C, insert) BY <1>1, <1>4, <1>8 DEF Terminated
  <2>3. QED BY <1>8, <1>9, <2>1, <2>2, EndedFacts
<1> HIDE DEF D
<1>11. \A b \in S : ~Terminated(D, b) BY <1>4, <1>6, <1>8, <1>10 DEF Terminated
<1>12. PICK c \in Ends : c = Br(Silent, y) /\ Range(c.to) = {y}
  BY <1>5, EventFacts, EndFacts
<1> DEFINE R == {i, m, y}
<1>13. /\ Sound(blocks') /\ DOMAIN blocks' = DOMAIN D
       /\ Branched(blocks') = Branched(D) \union {y}
       /\ \A b \in DOMAIN D \ {i} : blocks'[b] = D[b]
  <2>1. i \in DOMAIN D /\ ~Terminated(D, i) /\ Range(c.to) \subseteq DOMAIN D
    BY <1>10, <1>11, <1>12
  <2>2. PICK E : E = Ended(D, i, c)
    OBVIOUS
  <2>3. /\ Sound(E) /\ DOMAIN E = DOMAIN D /\ Branched(E) = Branched(D) \union Range(c.to)
        /\ \A b \in DOMAIN D \ {i} : E[b] = D[b]
    BY <1>10, <2>1, <2>2, EndedFacts
  <2>4. blocks' = E BY <1>3, <1>12, <2>2
  <2>5. QED BY <1>12, <2>3, <2>4
<1>14. /\ DOMAIN blocks' = DOMAIN blocks \union S
       /\ Branched(blocks') = Branched(blocks) \union R
       /\ \A b \in DOMAIN blocks \ {insert} : blocks'[b].end = blocks[b].end
       /\ ~Terminated(blocks', m) /\ ~Terminated(blocks', s)
  <2>1. \A b \in DOMAIN blocks \ {insert} : D[b] = blocks[b] /\ b # i
    BY <1>6, <1>8, <1>10
  <2>2. m # i /\ s # i BY <1>5
  <2>3. QED BY <1>10, <1>11, <1>13, <2>1, <2>2 DEF Terminated
<1>15. Droppable(pos) = {s} /\ Ahead(pos, 1) = {s, m} /\ Needed(pos) = {y}
  BY <1>1, <1>2 DEF Droppable, Ahead, Closing, Needed, LoopKinds, Header
<1>16. prog[pos].kind \in LoopKinds BY <1>1 DEF LoopKinds
<1>17. /\ \A b \in R : b[2] # "step"
       /\ \A b \in S : /\ b[1] = pos /\ b[2] \notin {"then", "false"}
                       /\ b \in R \/ b \in Droppable(pos)
  BY <1>5, <1>15
<1>18. /\ \A b \in Ahead(pos, 1) : b \in S /\ ~Terminated(blocks', b)
       /\ Needed(pos) \subseteq S /\ insert' \in S /\ insert'[2] \in {"entry", "then", "body"}
       /\ labels' \in Seq(DOMAIN prog)
  BY <1>3, <1>4, <1>5, <1>14, <1>15
<1> HIDE DEF S, R
<1>19. QED
  BY <1>1, <1>3, <1>7, <1>13, <1>14, <1>16, <1>17, <1>18, PushFacts, IntoStep

LEMMA BlockStep ==
  ASSUME IInv, EnterBlock
  PROVE  IInv'
<1>1. /\ pos \in DOMAIN prog /\ pos # Top /\ pc = "generate" /\ prog[pos].kind = "block"
  BY VisitingFacts DEF EnterBlock
<1>2. /\ Emitting /\ Enter(1, HereFrame) /\ labels' = labels
      /\ insert' = insert /\ blocks' = blocks /\ loops' = loops
  BY <1>1, StepEmits DEF EnterBlock, Control
<1>3. /\ Sound(blocks) /\ labels \in Seq(DOMAIN prog) /\ Depth \in Nat
      /\ insert \in DOMAIN blocks /\ Inserted(insert, First(pos, 1))
  BY <1>1, HereFacts
<1>4. PICK d \in Nat : d = Depth + 1 BY <1>3
<1>5. ~(Depth < Depth) BY <1>3
<1>6. Carries(Depth, d, {}) BY <1>2, <1>3, <1>5, CarriesEnds
<1>7. Ahead(pos, 1) = {} /\ Needed(pos) = {}
  BY <1>1 DEF Droppable, Ahead, Closing, Needed, LoopKinds
<1>8. 1 \in 1..Parts(prog[pos]) BY <1>1 DEF Parts, LoopKinds
<1>9. loops' = CASE prog[pos].kind \in LoopKinds ->
                         Append(loops, [merge |-> Merge(pos), name |-> prog[pos].name])
                    [] prog[pos].kind = "subp" -> <<>>
                    [] OTHER -> loops
  BY <1>1, <1>2 DEF LoopKinds
<1>10. labels' \in Seq(DOMAIN prog) /\ insert' \in DOMAIN blocks' /\ Inserted(insert', pos')
  BY <1>2, <1>3 DEF Enter
<1>11. QED BY <1>1, <1>2, <1>4, <1>6, <1>7, <1>8, <1>9, <1>10, EnterStep

LEMMA SubpStep ==
  ASSUME IInv, EnterSubp
  PROVE  IInv'
<1>1. /\ pos \in DOMAIN prog /\ pc = "generate" /\ prog[pos].kind = "subp"
  BY DEF EnterSubp, Subps
<1>2. PICK y : y = Entry(pos)
  OBVIOUS
<1>3. /\ Emitting /\ Enter(1, HereFrame) /\ labels' = <<>> /\ loops' = <<>>
      /\ insert' = y /\ blocks' = Created(WithDecls, {y})
  BY <1>1, <1>2, StepEmits DEF EnterSubp, OwnLoops
<1>4. DescentInv /\ BlocksInv /\ Sound(blocks) BY DEF IInv, BlocksInv
<1>5. /\ Sound(WithDecls) /\ DOMAIN WithDecls = DOMAIN blocks
      /\ Branched(WithDecls) = Branched(blocks)
      /\ \A b \in DOMAIN blocks : WithDecls[b].end = blocks[b].end
  <2>1. CASE pos # Top /\ pos[Len(pos)] = 1
    <3>1. insert \in DOMAIN blocks BY <1>1, <2>1, HereFacts
    <3>2. WithDecls = Coded(blocks, insert, Silent)
      BY <2>1 DEF WithDecls, Coded
    <3>3. QED BY <1>4, <3>1, <3>2, EventFacts, CodeFacts
  <2>2. CASE ~(pos # Top /\ pos[Len(pos)] = 1)
    <3>1. WithDecls = blocks BY <2>2 DEF WithDecls
    <3>2. QED BY <1>4, <3>1
  <2>3. QED BY <2>1, <2>2
<1>6. y \in Names /\ y[1] = pos /\ y[2] = "entry"
  BY <1>1, <1>2 DEF Entry, Block, Names, Roles
<1>7. /\ Sound(blocks') /\ DOMAIN blocks' = DOMAIN blocks \union {y}
      /\ Branched(blocks') = Branched(blocks) \union {}
      /\ \A b \in DOMAIN blocks \ {insert} : blocks'[b].end = blocks[b].end
  <2>1. {y} \in SUBSET Names BY <1>6
  <2>2. PICK C : C = Created(WithDecls, {y})
    OBVIOUS
  <2>3. /\ Sound(C) /\ DOMAIN C = DOMAIN WithDecls \union {y} /\ Branched(C) = Branched(WithDecls)
        /\ \A b \in DOMAIN WithDecls : C[b] = WithDecls[b]
    BY <1>5, <2>1, <2>2, CreatedFacts
  <2>4. blocks' = C BY <1>3, <2>2
  <2>5. QED BY <1>5, <2>3, <2>4
<1>8. Ahead(pos, 1) = {} /\ Needed(pos) = {}
  BY <1>1 DEF Droppable, Ahead, Closing, Needed, LoopKinds
<1>9. 1 \in 1..Parts(prog[pos]) BY <1>1 DEF Parts, LoopKinds
<1>10. loops' = CASE prog[pos].kind \in LoopKinds ->
                         Append(loops, [merge |-> Merge(pos), name |-> prog[pos].name])
                    [] prog[pos].kind = "subp" -> <<>>
                    [] OTHER -> loops
  BY <1>1, <1>3 DEF LoopKinds
<1>11. labels' \in Seq(DOMAIN prog) BY <1>3
<1>12. PICK S, R : S = {y} /\ R = {}
  OBVIOUS
<1>13. /\ S \subseteq Names /\ DOMAIN blocks' = DOMAIN blocks \union S
       /\ Branched(blocks') = Branched(blocks) \union R /\ (\A b \in R : b[2] # "step")
       /\ \A b \in S : b[1] = pos /\ b[2] = "entry"
       /\ insert' \in S /\ insert'[2] \in {"entry", "then", "body"}
  BY <1>3, <1>6, <1>7, <1>12
<1>14. \A b \in S : /\ b[1] = pos /\ (b[2] \in {"then", "false"} => b[3] = 1)
                    /\ b[2] = "entry" \/ b \in R \/ b \in Droppable(pos)
  BY <1>13
<1>15. Needed(pos) \subseteq S /\ \A b \in Ahead(pos, 1) : b \in S /\ ~Terminated(blocks', b)
  BY <1>8
<1>16. QED
  BY <1>1, <1>3, <1>7, <1>9, <1>10, <1>11, <1>13, <1>14, <1>15, IntoStep

-----------------------------------------------------------------------------
(* Behind a compound statement *)

LEMMA AtEndFacts ==
  ASSUME IInv, NEW kind, AtEndOf(kind)
  PROVE  /\ pc = "generate" /\ prog[Outer(pos)].kind = kind
         /\ Depth \in Nat /\ Depth > 0 /\ Outer(pos) \in DOMAIN prog
         /\ Outer(pos) = Owner(Depth) /\ Part(pos) = PartOf(Depth)
         /\ DescentInv /\ BlocksInv /\ Sound(blocks) /\ IsPath(pos) /\ IsPath(Outer(pos))
         /\ Part(pos) \in 1..Parts(prog[Outer(pos)])
         /\ prog \in Programs /\ labels \in Seq(DOMAIN prog)
         /\ insert \in DOMAIN blocks /\ insert \in Names /\ Inserted(insert, pos)
         /\ \A b \in Ahead(Outer(pos), Part(pos)) :
              b \in DOMAIN blocks /\ ~Terminated(blocks, b) /\ b # insert
         /\ Needed(Outer(pos)) \subseteq DOMAIN blocks
         /\ \A n \in Nat : Event(Outer(pos), n) \in Events
         /\ Frame = frames[Depth] /\ Frame \in Frames
         /\ kind # "subp" =>
              /\ Depth # 1 /\ Frame.block \in DOMAIN blocks /\ Inserted(Frame.block, Outer(pos))
              /\ \A b \in Ahead(Outer(pos), Part(pos)) : b[2] # "false" => b # Frame.block
<1>1. /\ pc = "generate" /\ pos \notin DOMAIN prog /\ pos # After(Top)
      /\ prog[Outer(pos)].kind = kind
  BY DEF AtEndOf
<1>2. DescentInv /\ BlocksInv /\ InsertInv /\ OpenInv /\ Sound(blocks)
  BY DEF IInv, BlocksInv
<1>3. /\ Depth \in Nat /\ Depth > 0 /\ Depth \in 1..Depth /\ IsPath(pos)
      /\ Outer(pos) = Owner(Depth) /\ Part(pos) = PartOf(Depth)
  BY <1>1, <1>2, VisitFacts, PositionFacts
<1>4. Owner(Depth) \in DOMAIN prog /\ IsPath(Owner(Depth)) /\ Len(Owner(Depth)) = 2 * Depth - 1
  BY <1>2, <1>3, PositionFacts
<1>5. PartOf(Depth) \in 1..Parts(prog[Owner(Depth)]) /\ prog \in Programs
      /\ labels \in Seq(DOMAIN prog)
  BY <1>2, <1>3 DEF DescentInv
<1>6. insert \in DOMAIN blocks /\ insert \in Names /\ Inserted(insert, pos)
  BY <1>2, <1>3 DEF InsertInv, Sound
<1>7. \A b \in Ahead(Owner(Depth), PartOf(Depth)) :
        b \in DOMAIN blocks /\ ~Terminated(blocks, b) /\ ~Inserted(b, pos)
        /\ (b[2] # "false" => ~Inserted(b, Owner(Depth)))
  <2>1. Depth <= Depth BY <1>3
  <2>2. QED BY <1>2, <1>3, <2>1, AheadApart DEF OpenInv
<1>8. Needed(Owner(Depth)) \subseteq DOMAIN blocks BY <1>2, <1>3 DEF OpenInv
<1>9. Frame = frames[Depth] /\ Frame \in Frames
  BY <1>2, <1>3 DEF Frame, DescentInv, Depth
<1>10. ASSUME kind # "subp"
       PROVE  Depth # 1 /\ Frame.block \in DOMAIN blocks /\ Inserted(Frame.block, Owner(Depth))
  <2>1. Depth # 1
    <3> SUFFICES ASSUME Depth = 1 PROVE FALSE
      OBVIOUS
    <3>1. Len(Owner(Depth)) = 1 BY <1>4
    <3>2. Owner(Depth) = Top /\ prog[Top].kind = "subp"
      BY <1>4, <1>5, <3>1, ProgramFacts
    <3>3. QED BY <1>1, <1>3, <1>10, <3>2
  <2>2. QED BY <1>2, <1>3, <1>9, <2>1 DEF InsertInv
<1>11. QED
  BY <1>1, <1>2, <1>3, <1>4, <1>5, <1>6, <1>7, <1>8, <1>9, <1>10, EventFacts

LEMMA LeaveBlockStep ==
  ASSUME IInv, LeaveBlock
  PROVE  IInv'
<1>1. /\ pc = "generate" /\ prog[Outer(pos)].kind = "block" /\ Depth \in Nat /\ Depth > 0
      /\ Outer(pos) = Owner(Depth) /\ DescentInv /\ Sound(blocks) /\ IsPath(pos)
      /\ labels \in Seq(DOMAIN prog) /\ insert \in DOMAIN blocks /\ insert \in Names
      /\ Inserted(insert, pos) /\ Depth # 1
  BY AtEndFacts DEF LeaveBlock
<1>2. /\ Emitting /\ LeaveTo(After(Outer(pos))) /\ labels' = labels
      /\ insert' = insert /\ blocks' = blocks /\ loops' = loops
  BY <1>1, StepEmits DEF LeaveBlock, Control
<1>3. PICK d \in Nat : d = Depth - 1 /\ d # 0 BY <1>1
<1>4. Droppable(Owner(Depth)) = {} BY <1>1 DEF Droppable
<1>5. Carries(d, d, {}) BY <1>1, <1>2, <1>4, CarriesEnds
<1>6. loops' = frames[Depth].loops
  BY <1>1, <1>2 DEF IInv, LoopsInv, LoopsIn, LoopKinds
<1>7. Inserted(insert, pos')
  <2>1. Onward(pos, pos') BY <1>1, <1>2, PositionFacts DEF Onward, LeaveTo
  <2>2. QED BY <1>1, <2>1, InsertedOn
<1>8. QED BY <1>1, <1>2, <1>3, <1>5, <1>6, <1>7, LeaveStep

(* The merge block is erased unless something branches to it.              *)
LEMMA MergeStep ==
  ASSUME IInv, NEW kind \in {"if", "loop", "while"}, AtEndOf(kind), Outside,
         NEW q, q = Outer(pos), LeaveTo(After(q)), labels' = labels, loops' = frames[Depth].loops,
         NEW e \in Ends, Range(e.to) \subseteq DOMAIN blocks, \A b \in Range(e.to) : b[2] # "step",
         NEW t \in DOMAIN blocks, t # Merge(q), Inserted(t, After(q)),
         MergeAt(BranchIfOpen(blocks, insert, e), Merge(q), t)
  PROVE  IInv'
<1>1. /\ pc = "generate" /\ prog[q].kind = kind /\ Depth \in Nat /\ Depth > 0 /\ Depth # 1
      /\ q = Owner(Depth) /\ DescentInv /\ BlocksInv /\ Sound(blocks) /\ IsPath(q)
      /\ labels \in Seq(DOMAIN prog) /\ insert \in DOMAIN blocks
      /\ \A b \in Ahead(q, Part(pos)) :
           b \in DOMAIN blocks /\ ~Terminated(blocks, b) /\ b # insert
  BY AtEndFacts
<1>2. Emitting /\ LeaveTo(After(Outer(pos))) /\ pos' = After(q)
  BY <1>1, StepEmits DEF LeaveTo
<1>3. PICK m : m = Merge(q)
  OBVIOUS
<1>4. m[1] = q /\ m[2] = "merge" /\ Mark(m) = q BY <1>3 DEF Merge, Block, Mark
<1>5. m \in DOMAIN blocks /\ ~Terminated(blocks, m) /\ m # insert /\ Droppable(q) = {m}
  BY <1>1, <1>3 DEF Droppable, Ahead, Closing
<1>6. PICK B : B = BranchIfOpen(blocks, insert, e)
  OBVIOUS
<1>7. /\ Sound(B) /\ DOMAIN B = DOMAIN blocks
      /\ Branched(blocks) \subseteq Branched(B)
      /\ Branched(B) \subseteq Branched(blocks) \union Range(e.to)
      /\ \A c \in DOMAIN blocks \ {insert} : B[c] = blocks[c]
  BY <1>1, <1>6, BranchIfOpenFacts
<1>8. m \in DOMAIN B /\ ~Terminated(B, m) /\ MergeAt(B, m, t)
  BY <1>3, <1>5, <1>6, <1>7 DEF Terminated
<1>9. /\ Sound(blocks') /\ Branched(blocks') = Branched(B)
      /\ DOMAIN blocks' \subseteq DOMAIN B
      /\ \A b \in DOMAIN B \ {m} : b \in DOMAIN blocks' /\ blocks'[b] = B[b]
      /\ m \in DOMAIN blocks' => m \in Branched(blocks')
      /\ (insert' = m /\ m \in DOMAIN blocks') \/ insert' = t
  BY <1>7, <1>8, MergeFacts
<1>10. PICK d \in Nat : d = Depth - 1 /\ d # 0 /\ d < Depth BY <1>1
<1>11. PICK T : T = {insert, m}
  OBVIOUS
<1>12. Grown(blocks, blocks', T) BY <1>7, <1>9, <1>11 DEF Grown
<1>13. /\ \A b \in T : b = insert \/ b[1] = q
       /\ \A b \in DOMAIN blocks \ DOMAIN blocks' : b = m
       /\ DOMAIN blocks' \subseteq DOMAIN blocks
       /\ \A c \in Branched(blocks') \ Branched(blocks) : c[2] # "step"
       /\ \A b \in DOMAIN blocks' : b \in Branched(blocks') \/ b \notin Droppable(q)
  BY <1>4, <1>5, <1>7, <1>9, <1>11
<1>14. Carries(d, d, T) BY <1>1, <1>4, <1>10, <1>12, <1>13 DEF Carries
<1>15. insert' \in DOMAIN blocks' /\ Inserted(insert', pos')
  <2>1. CASE insert' = m /\ m \in DOMAIN blocks'
    <3>1. Precedes(q, After(q)) BY <1>1, LeftPrecedes
    <3>2. QED BY <1>2, <1>4, <2>1, <3>1 DEF Inserted
  <2>2. CASE insert' = t BY <1>2, <1>3, <1>7, <1>9, <2>2
  <2>3. QED BY <1>9, <2>1, <2>2
<1>16. labels' \in Seq(DOMAIN prog) BY <1>1
<1>17. QED BY <1>1, <1>2, <1>10, <1>14, <1>15, <1>16, LeaveStep

LEMMA LeaveLoopStep ==
  ASSUME IInv, LeaveLoop
  PROVE  IInv'
<1>1. PICK kind \in {"loop", "while"} : AtEndOf(kind) BY DEF LeaveLoop
<1>2. PICK q : q = Outer(pos)
  OBVIOUS
<1>3. /\ prog[q].kind = kind /\ Depth \in Nat /\ Depth > 0 /\ Depth # 1 /\ q = Owner(Depth)
      /\ q \in DOMAIN prog /\ IsPath(q) /\ DescentInv /\ Sound(blocks)
      /\ Needed(q) \subseteq DOMAIN blocks /\ Event(q, 1) \in Events
      /\ Frame = frames[Depth] /\ Frame \in Frames
  BY <1>1, <1>2, AtEndFacts
<1>4. PICK v \in Events : v = IF prog[q].kind = "loop" THEN Event(q, 1) ELSE Silent
  BY <1>3, EventFacts
<1>5. PICK h : h = Header(q)
  OBVIOUS
<1>6. /\ h \in DOMAIN blocks /\ h \in Names /\ h[2] # "step" /\ Body(q) \in DOMAIN blocks
  <2>1. h \in DOMAIN blocks /\ Body(q) \in DOMAIN blocks
    BY <1>3, <1>5 DEF Needed, LoopKinds
  <2>2. h[2] # "step" BY <1>5 DEF Header, Body, Block
  <2>3. QED BY <1>3, <2>1, <2>2 DEF Sound
<1>7. PICK e \in Ends : e = Br(v, h) /\ Range(e.to) = {h} BY <1>6, EndFacts
<1>8. MergeAt(BranchIfOpen(blocks, insert, e), Merge(q), Body(q)) /\ LeaveTo(After(q))
  BY <1>2, <1>4, <1>5, <1>7 DEF LeaveLoop
<1>9. Outside /\ labels' = labels BY DEF LeaveLoop, Control
<1>10. Body(q) # Merge(q) /\ Inserted(Body(q), After(q))
  <2>1. Precedes(q, After(q)) BY <1>3, LeftPrecedes
  <2>2. QED BY <2>1 DEF Body, Merge, Block, Inserted, Begun, Mark
<1>11. loops' = frames[Depth].loops
  <2>1. loops = Append(frames[Depth].loops, [merge |-> Merge(q), name |-> prog[q].name])
    BY <1>3 DEF IInv, LoopsInv, LoopsIn, LoopKinds
  <2>2. loops' = SubSeq(loops, 1, Len(loops) - 1) BY DEF LeaveLoop, PopLoop
  <2>3. frames[Depth].loops \in Seq(LoopRecords) BY <1>3 DEF Frames
  <2>4. QED BY <2>1, <2>2, <2>3, Popped
<1>12. QED BY <1>1, <1>2, <1>6, <1>7, <1>8, <1>9, <1>10, <1>11, MergeStep

LEMMA LeaveForStep ==
  ASSUME IInv, LeaveFor
  PROVE  IInv'
<1>1. AtEndOf("for") BY DEF LeaveFor
<1>2. PICK q : q = Outer(pos)
  OBVIOUS
<1>3. /\ prog[q].kind = "for" /\ Depth \in Nat /\ Depth > 0 /\ Depth # 1 /\ q = Owner(Depth)
      /\ q \in DOMAIN prog /\ IsPath(q) /\ DescentInv /\ BlocksInv /\ Sound(blocks) /\ IsPath(pos)
      /\ Needed(q) \subseteq DOMAIN blocks /\ \A n \in Nat : Event(q, n) \in Events
      /\ Frame = frames[Depth] /\ Frame \in Frames /\ labels \in Seq(DOMAIN prog)
      /\ insert \in DOMAIN blocks /\ pc = "generate"
      /\ \A b \in Ahead(q, Part(pos)) :
           b \in DOMAIN blocks /\ ~Terminated(blocks, b) /\ b # insert
  BY <1>1, <1>2, AtEndFacts
<1>4. PICK m, s, y : m = Merge(q) /\ s = StepBlock(q) /\ y = Body(q)
  OBVIOUS
<1>5. /\ m[1] = q /\ m[2] = "merge" /\ s[1] = q /\ s[2] = "step" /\ y[2] = "body"
      /\ Mark(m) = q /\ Mark(s) = q
  BY <1>4 DEF Merge, StepBlock, Body, Block, Mark
<1>6. /\ m \in DOMAIN blocks /\ m # insert /\ Droppable(q) = {s}
      /\ s \in DOMAIN blocks /\ ~Terminated(blocks, s) /\ s # insert
      /\ y \in DOMAIN blocks /\ m \in Names /\ s \in Names /\ y \in Names
  BY <1>3, <1>4 DEF Droppable, Ahead, Closing, Needed, LoopKinds, Sound
<1>7. /\ Emitting /\ LeaveTo(After(Outer(pos))) /\ pos' = After(q) /\ labels' = labels
      /\ insert' = m
  BY <1>2, <1>3, <1>4, StepEmits DEF LeaveFor, Control, LeaveTo
<1>8. loops' = frames[Depth].loops
  <2>1. loops = Append(frames[Depth].loops, [merge |-> Merge(q), name |-> prog[q].name])
    BY <1>3 DEF IInv, LoopsInv, LoopsIn, LoopKinds
  <2>2. loops' = SubSeq(loops, 1, Len(loops) - 1) BY DEF LeaveFor, PopLoop
  <2>3. frames[Depth].loops \in Seq(LoopRecords) BY <1>3 DEF Frames
  <2>4. QED BY <2>1, <2>2, <2>3, Popped
<1>9. Precedes(q, After(q)) BY <1>3, LeftPrecedes
<1>10. Inserted(m, pos') BY <1>5, <1>7, <1>9 DEF Inserted
<1>11. PICK d \in Nat : d = Depth - 1 /\ d # 0 /\ d < Depth BY <1>3
<1>12. PICK T : T = {insert, s}
  OBVIOUS
<1>13. (\A b \in T : b = insert \/ b[1] = q) BY <1>5, <1>12
<1>14. CASE Terminated(blocks, insert)
  <2>1. blocks' = Erased(blocks, s) BY <1>2, <1>4, <1>14 DEF LeaveFor
  <2>2. s \notin Branched(blocks)
    <3> SUFFICES ASSUME s \in Branched(blocks) PROVE FALSE
      OBVIOUS
    <3>1. Precedes(q, pos) BY <1>3, <1>5 DEF BlocksInv
    <3>2. q = SubSeq(pos, 1, 2 * Depth - 1) /\ 2 * Depth - 1 \in 1..Len(pos)
      <4>1. Depth \in 1..Depth BY <1>3
      <4>2. 2 * Depth - 1 \in 1..Len(pos) BY <1>3, <4>1, PositionFacts
      <4>3. QED BY <1>3, <4>2 DEF Owner
    <3>3. QED BY <1>3, <3>1, <3>2, NotBegun
  <2>3. /\ Sound(Erased(blocks, s)) /\ DOMAIN Erased(blocks, s) = DOMAIN blocks \ {s}
        /\ Branched(Erased(blocks, s)) = Branched(blocks)
        /\ \A c \in DOMAIN blocks \ {s} : Erased(blocks, s)[c] = blocks[c]
    BY <1>3, <1>6, <2>2, ErasedFacts
  <2>4. Grown(blocks, blocks', T) BY <1>12, <2>1, <2>3 DEF Grown
  <2>5. Carries(d, d, T)
    BY <1>3, <1>5, <1>6, <1>11, <1>13, <2>1, <2>3, <2>4 DEF Carries
  <2>6. m \in DOMAIN blocks' BY <1>5, <1>6, <2>1, <2>3
  <2>7. QED BY <1>3, <1>7, <1>8, <1>10, <1>11, <2>5, <2>6, LeaveStep
<1>15. CASE ~Terminated(blocks, insert)
  <2>1. PICK e \in Ends : e = CondBr(Event(q, 2), m, s) /\ Range(e.to) = {m, s}
    <3>1. PICK v \in Events : v = Event(q, 2) BY <1>3
    <3>2. CondBr(v, m, s) \in Ends /\ Range(CondBr(v, m, s).to) = {m, s}
      BY <1>6, EndFacts
    <3>3. QED BY <3>1, <3>2
  <2>2. PICK f \in Ends : f = Br(Silent, y) /\ Range(f.to) = {y} /\ f # Open
    BY <1>6, EventFacts, EndFacts
  <2>3. PICK D : D = Ended(blocks, insert, e)
    OBVIOUS
  <2>4. /\ Sound(D) /\ DOMAIN D = DOMAIN blocks /\ Branched(D) = Branched(blocks) \union {m, s}
        /\ \A c \in DOMAIN blocks \ {insert} : D[c] = blocks[c]
    <3>1. Range(e.to) \subseteq DOMAIN blocks BY <1>6, <2>1
    <3>2. QED BY <1>3, <1>15, <2>1, <2>3, <3>1, EndedFacts
  <2>5. PICK node : node = [code |-> <<Event(q, 3)>>, end |-> f]
    OBVIOUS
  <2>6. node \in Nodes /\ node.end = f
    <3>1. Event(q, 3) \in Events BY <1>3
    <3>2. <<Event(q, 3)>> \in Seq(Events) BY <3>1
    <3>3. QED BY <2>5, <3>2 DEF Nodes
  <2>7. blocks' = [D EXCEPT ![s] = node]
    <3>1. blocks' = [blocks EXCEPT ![insert].end = e, ![s] = node]
      BY <1>2, <1>4, <1>15, <2>1, <2>2, <2>5 DEF LeaveFor
    <3>2. QED BY <2>3, <3>1 DEF Ended
  <2>8. /\ DOMAIN blocks' = DOMAIN blocks /\ blocks'[s] = node
        /\ \A c \in DOMAIN blocks \ {s} : blocks'[c] = D[c]
        /\ blocks' \in [DOMAIN blocks -> Nodes]
    <3>1. D \in [DOMAIN blocks -> Nodes] BY <2>4 DEF Sound
    <3>2. QED BY <1>6, <2>6, <2>7, <3>1
  <2>9. ~Terminated(D, s) BY <1>6, <2>4 DEF Terminated
  <2>10. Branched(blocks') = Branched(blocks) \union {m, s, y}
    <3>1. ASSUME NEW c \in Branched(blocks') PROVE c \in Branched(D) \union {y}
      <4>1. PICK a \in DOMAIN blocks : c \in Range(blocks'[a].end.to)
        BY <2>8, <3>1 DEF Branched
      <4>2. CASE a = s BY <2>2, <2>6, <2>8, <4>1, <4>2
      <4>3. CASE a # s BY <2>4, <2>8, <4>1, <4>3 DEF Branched
      <4>4. QED BY <4>2, <4>3
    <3>2. ASSUME NEW c \in Branched(D) PROVE c \in Branched(blocks')
      <4>1. PICK a \in DOMAIN D : c \in Range(D[a].end.to) BY <3>2 DEF Branched
      <4>2. a # s BY <2>4, <2>9, <4>1, NodeFacts
      <4>3. QED BY <2>4, <2>8, <4>1, <4>2 DEF Branched
    <3>3. y \in Branched(blocks')
      <4>1. y \in Range(blocks'[s].end.to) BY <2>2, <2>6, <2>8
      <4>2. QED BY <1>6, <2>8, <4>1 DEF Branched
    <3>4. QED BY <2>4, <3>1, <3>2, <3>3
  <2>11. Sound(blocks')
    <3>1. DOMAIN blocks \subseteq Names /\ Branched(blocks) \subseteq DOMAIN blocks
      BY <1>3 DEF Sound
    <3>2. QED BY <1>6, <2>8, <2>10, <3>1 DEF Sound
  <2>12. Grown(blocks, blocks', T) BY <1>12, <2>4, <2>8, <2>10, <2>11 DEF Grown
  <2>13. \A c \in Branched(blocks') \ Branched(blocks) : c[2] = "step" => Precedes(c[1], pos')
    BY <1>5, <1>7, <1>9, <2>10
  <2>14. \A b \in DOMAIN blocks' : b \in Branched(blocks') \/ b \notin Droppable(q)
    BY <1>6, <2>10
  <2>15. Carries(d, d, T)
    BY <1>3, <1>11, <1>13, <2>8, <2>12, <2>13, <2>14 DEF Carries
  <2>16. m \in DOMAIN blocks' BY <1>6, <2>8
  <2>17. QED BY <1>3, <1>7, <1>8, <1>10, <1>11, <2>15, <2>16, LeaveStep
<1>16. QED BY <1>14, <1>15

LEMMA LeaveSubpStep ==
  ASSUME IInv, LeaveSubp
  PROVE  IInv'
<1>1. AtEndOf("subp") BY DEF LeaveSubp
<1>2. PICK q : q = Outer(pos)
  OBVIOUS
<1>3. /\ prog[q].kind = "subp" /\ Depth \in Nat /\ Depth > 0 /\ q = Owner(Depth)
      /\ IsPath(q) /\ DescentInv /\ BlocksInv /\ Sound(blocks)
      /\ Event(q, 1) \in Events /\ insert \in DOMAIN blocks /\ pc = "generate"
      /\ Frame = frames[Depth] /\ Frame \in Frames
  BY <1>1, <1>2, AtEndFacts
<1>4. /\ Emitting /\ LeaveTo(After(Outer(pos))) /\ pos' = After(q)
      /\ insert' = Frame.block /\ labels' = Frame.labels /\ loops' = frames[Depth].loops
      /\ blocks' = IF prog[q].isFunction THEN blocks
                   ELSE BranchIfOpen(blocks, insert, Ret(Event(q, 1)))
  BY <1>2, <1>3, StepEmits DEF LeaveSubp, LeaveTo
<1>5. PICK e \in Ends : e = Ret(Event(q, 1)) /\ Range(e.to) = {}
  BY <1>3, EndFacts
<1>6. /\ Sound(blocks') /\ DOMAIN blocks' = DOMAIN blocks
      /\ Branched(blocks') = Branched(blocks)
      /\ \A b \in DOMAIN blocks \ {insert} : blocks'[b].end = blocks[b].end
  <2>1. CASE prog[q].isFunction BY <1>3, <1>4, <2>1
  <2>2. CASE ~prog[q].isFunction
    <3>1. PICK C : C = BranchIfOpen(blocks, insert, e)
      OBVIOUS
    <3>2. /\ Sound(C) /\ DOMAIN C = DOMAIN blocks
          /\ Branched(blocks) \subseteq Branched(C)
          /\ Branched(C) \subseteq Branched(blocks) \union Range(e.to)
          /\ \A c \in DOMAIN blocks \ {insert} : C[c] = blocks[c]
      <4>1. Range(e.to) \subseteq DOMAIN blocks BY <1>5
      <4>2. QED BY <1>3, <3>1, <4>1, BranchIfOpenFacts
    <3>3. blocks' = C BY <1>4, <1>5, <2>2, <3>1
    <3>4. QED BY <1>5, <3>2, <3>3
  <2>3. QED BY <2>1, <2>2
<1>7. PICK d \in Nat : d = Depth - 1 /\ d < Depth BY <1>3
<1>8. Droppable(q) = {} BY <1>3 DEF Droppable
<1>9. Carries(d, d, {insert})
  <2>1. Grown(blocks, blocks', {insert}) BY <1>6 DEF Grown
  <2>2. QED BY <1>3, <1>6, <1>7, <1>8, <2>1 DEF Carries
<1>10. IF d = 0 THEN insert' = NoBlock
       ELSE insert' \in DOMAIN blocks' /\ Inserted(insert', pos')
  <2>1. Depth \in 1..Depth /\ (Depth = 1 <=> d = 0) BY <1>3, <1>7
  <2>2. IF d = 0 THEN Frame.block = NoBlock
        ELSE Frame.block \in DOMAIN blocks /\ Inserted(Frame.block, q)
    BY <1>3, <2>1 DEF IInv, InsertInv
  <2>3. CASE d = 0 BY <1>4, <2>2, <2>3
  <2>4. CASE d # 0
    <3>1. Frame.block \in Names /\ Onward(q, After(q))
      BY <1>3, <2>2, <2>4 DEF Sound, Onward
    <3>2. Inserted(Frame.block, After(q)) BY <1>3, <2>2, <2>4, <3>1, InsertedOn
    <3>3. QED BY <1>4, <1>6, <2>2, <2>4, <3>2
  <2>5. QED BY <2>3, <2>4
<1>11. labels' \in Seq(DOMAIN prog) BY <1>3, <1>4 DEF Frames
<1>12. QED BY <1>3, <1>4, <1>7, <1>9, <1>10, <1>11, LeaveStep

(* The part of an if just emitted falls into the merge.                    *)
LEMMA PartEnd ==
  ASSUME IInv, AtEndOf("if"), NEW q, q = Outer(pos), NEW m, m = Merge(q),
         NEW B, B = BranchIfOpen(blocks, insert, Br(Silent, m))
  PROVE  /\ m \in DOMAIN blocks /\ m # insert /\ ~Terminated(B, m) /\ Droppable(q) = {m}
         /\ m[1] = q /\ m[2] = "merge"
         /\ Sound(B) /\ DOMAIN B = DOMAIN blocks /\ insert \in DOMAIN blocks
         /\ Branched(blocks) \subseteq Branched(B) /\ Branched(B) \subseteq Branched(blocks) \union {m}
         /\ \A c \in DOMAIN blocks \ {insert} : B[c] = blocks[c]
<1>1. /\ prog[q].kind = "if" /\ Sound(blocks) /\ insert \in DOMAIN blocks
      /\ \A b \in Ahead(q, Part(pos)) :
           b \in DOMAIN blocks /\ ~Terminated(blocks, b) /\ b # insert
  BY AtEndFacts
<1>2. Droppable(q) = {m} /\ m[1] = q /\ m[2] = "merge"
  BY <1>1 DEF Droppable, Merge, Block
<1>3. m \in DOMAIN blocks /\ ~Terminated(blocks, m) /\ m # insert
  BY <1>1, <1>2 DEF Ahead, Closing
<1>4. PICK e \in Ends : e = Br(Silent, m) /\ Range(e.to) = {m}
  <2>1. m \in Names BY <1>1, <1>3 DEF Sound
  <2>2. QED BY <2>1, EventFacts, EndFacts
<1>5. B = BranchIfOpen(blocks, insert, e) /\ Range(e.to) \subseteq DOMAIN blocks
  BY <1>3, <1>4
<1>6. /\ Sound(B) /\ DOMAIN B = DOMAIN blocks
      /\ Branched(blocks) \subseteq Branched(B)
      /\ Branched(B) \subseteq Branched(blocks) \union Range(e.to)
      /\ \A c \in DOMAIN blocks \ {insert} : B[c] = blocks[c]
  BY <1>1, <1>5, BranchIfOpenFacts
<1>7. ~Terminated(B, m) BY <1>3, <1>6 DEF Terminated
<1>8. QED BY <1>1, <1>2, <1>3, <1>4, <1>6, <1>7

LEMMA IfShape ==
  ASSUME IInv, AtEndOf("if"), NEW q, q = Outer(pos)
  PROVE  /\ prog[q].guards \in Nat \ {0} /\ prog[q].hasElse \in BOOLEAN
         /\ Parts(prog[q]) = prog[q].guards + (IF prog[q].hasElse THEN 1 ELSE 0)
         /\ Part(pos) \in Nat \ {0}
<1>1. prog \in Programs /\ q \in DOMAIN prog /\ prog[q].kind = "if" /\ Part(pos) \in 1..Parts(prog[q])
  BY AtEndFacts
<1>2. prog[q].guards \in Nat \ {0} /\ prog[q].hasElse \in BOOLEAN
  BY <1>1, ProgramFacts
<1>3. Parts(prog[q]) = prog[q].guards + (IF prog[q].hasElse THEN 1 ELSE 0)
  BY <1>1 DEF Parts, LoopKinds
<1>4. QED BY <1>1, <1>2, <1>3

(* The else part comes next, in the false block of the last guard.         *)
LEMMA ElseStep ==
  ASSUME IInv, AtEndOf("if"), Outside, NEW q, q = Outer(pos), NEW i, i = Part(pos),
         i = prog[q].guards, prog[q].hasElse,
         blocks' = BranchIfOpen(blocks, insert, Br(Silent, Merge(q))),
         insert' = FalseBlock(q, i), pos' = First(q, i + 1), frames' = frames,
         loops' = loops, labels' = labels
  PROVE  IInv'
<1>1. /\ pc = "generate" /\ prog[q].kind = "if" /\ Depth \in Nat /\ Depth > 0
      /\ q = Owner(Depth) /\ IsPath(q)
      /\ \A b \in Ahead(q, i) : b \in DOMAIN blocks
  BY AtEndFacts
<1>2. PICK m : m = Merge(q)
  OBVIOUS
<1>3. PICK B : B = BranchIfOpen(blocks, insert, Br(Silent, m))
  OBVIOUS
<1>4. /\ m \in DOMAIN blocks /\ m # insert /\ ~Terminated(B, m) /\ Droppable(q) = {m}
      /\ m[1] = q /\ m[2] = "merge"
      /\ Sound(B) /\ DOMAIN B = DOMAIN blocks
      /\ Branched(blocks) \subseteq Branched(B) /\ Branched(B) \subseteq Branched(blocks) \union {m}
      /\ \A c \in DOMAIN blocks \ {insert} : B[c] = blocks[c]
  BY <1>2, <1>3, PartEnd
<1>5. /\ i \in Nat \ {0} /\ i + 1 \in 1..Parts(prog[q]) /\ i <= prog[q].guards
      /\ ~(i + 1 <= prog[q].guards)
  BY IfShape
<1>6. blocks' = B BY <1>2, <1>3
<1>7. PICK d \in Nat, n \in Nat : d = Depth - 1 /\ n = Depth /\ d < n BY <1>1
<1>8. Owner(n)' = q
  <2>1. DescentInv /\ prog' = prog BY DEF IInv, Outside
  <2>2. Owner(Depth)' = Owner(Depth) /\ Depth' = Depth
    <3>1. Owner(Depth)' = Owner(Depth) BY <1>1, <1>5, <2>1, MovePart
    <3>2. QED BY <3>1 DEF Depth
  <2>3. QED BY <1>1, <1>7, <2>2
<1>9. Carries(d, n, {insert})
  <2>1. Grown(blocks, blocks', {insert}) BY <1>4, <1>6 DEF Grown
  <2>2. QED BY <1>1, <1>4, <1>6, <1>7, <1>8, <2>1 DEF Carries
<1>10. insert' \in DOMAIN blocks' /\ Inserted(insert', pos')
  <2>1. FalseBlock(q, i) = <<q, "false", i>> BY DEF FalseBlock
  <2>2. FalseBlock(q, i) \in Ahead(q, i) BY <1>1, <1>5 DEF Ahead
  <2>3. Precedes(Append(q, i), pos') BY <1>1, <1>5, LeftPrecedes
  <2>4. QED BY <1>1, <1>4, <1>6, <2>1, <2>2, <2>3 DEF Inserted, Mark
<1>11. \A b \in Ahead(q, i + 1) : b \in DOMAIN blocks' /\ ~Terminated(blocks', b)
  <2>1. Ahead(q, i + 1) = {m} BY <1>1, <1>4, <1>5 DEF Ahead, Closing
  <2>2. QED BY <1>4, <1>6, <2>1
<1>12. Emitting BY <1>1, StepEmits
<1>13. QED BY <1>1, <1>4, <1>5, <1>6, <1>7, <1>9, <1>10, <1>11, <1>12, PartStep

(* The next guard is tested in the false block of the last one.            *)
LEMMA GuardStep ==
  ASSUME IInv, AtEndOf("if"), Outside, NEW q, q = Outer(pos), NEW i, i = Part(pos),
         i < prog[q].guards,
         blocks' = Tested(BranchIfOpen(blocks, insert, Br(Silent, Merge(q))), q, i + 1,
                          FalseBlock(q, i)),
         insert' = Then(q, i + 1), pos' = First(q, i + 1), frames' = frames,
         loops' = loops, labels' = labels
  PROVE  IInv'
<1>1. /\ pc = "generate" /\ prog[q].kind = "if" /\ Depth \in Nat /\ Depth > 0
      /\ q = Owner(Depth) /\ IsPath(q) /\ IsPath(pos) /\ q \in DOMAIN prog
      /\ DescentInv /\ BlocksInv /\ Sound(blocks)
      /\ \A b \in Ahead(q, i) :
           b \in DOMAIN blocks /\ ~Terminated(blocks, b) /\ b # insert
      /\ \A n \in Nat : Event(q, n) \in Events
  BY AtEndFacts
<1>2. PICK m, B : m = Merge(q) /\ B = BranchIfOpen(blocks, insert, Br(Silent, m))
  OBVIOUS
<1>3. /\ m \in DOMAIN blocks /\ m # insert /\ ~Terminated(B, m) /\ Droppable(q) = {m}
      /\ m[1] = q /\ m[2] = "merge"
      /\ Sound(B) /\ DOMAIN B = DOMAIN blocks
      /\ Branched(blocks) \subseteq Branched(B) /\ Branched(B) \subseteq Branched(blocks) \union {m}
      /\ \A c \in DOMAIN blocks \ {insert} : B[c] = blocks[c]
  BY <1>2, PartEnd
<1>4. /\ i \in Nat \ {0} /\ prog[q].guards \in Nat
      /\ Parts(prog[q]) = prog[q].guards + (IF prog[q].hasElse THEN 1 ELSE 0)
  BY IfShape
<1>5. i \in Nat /\ i + 1 \in Nat \ {0} /\ i + 1 \in 1..Parts(prog[q]) /\ i + 1 <= prog[q].guards
  BY <1>4
<1>6. PICK p \in Nat : p = i + 1 BY <1>5
<1>7. PICK f, t, g : f = FalseBlock(q, i) /\ t = Then(q, p) /\ g = FalseBlock(q, p)
  OBVIOUS
<1>8. /\ f = <<q, "false", i>> /\ f \in Ahead(q, i) /\ f # m
      /\ t \in Names /\ t[1] = q /\ t[2] = "then" /\ t[3] = p
      /\ g \in Names /\ g[1] = q
      /\ g = m \/ (g[2] = "false" /\ g[3] = p)
  <2>1. m \in Names BY <1>1, <1>3 DEF Sound
  <2>2. f = <<q, "false", i>> BY <1>7 DEF FalseBlock
  <2>3. f \in Ahead(q, i) BY <1>1, <1>4, <1>7 DEF Ahead
  <2>4. g = m \/ g = <<q, "false", p>> BY <1>2, <1>7 DEF FalseBlock
  <2>5. t = <<q, "then", p>> BY <1>7 DEF Then
  <2>6. QED BY <1>1, <1>3, <2>1, <2>2, <2>3, <2>4, <2>5 DEF Names, Roles
<1>9. f \in DOMAIN blocks /\ ~Terminated(B, f) /\ f # insert
  BY <1>1, <1>3, <1>8 DEF Terminated
<1>10. g = m \/ g \notin DOMAIN blocks
  <2>1. /\ Len(q) < Len(pos) /\ p > pos[Len(q) + 1] /\ Len(q) <= Len(pos)
        /\ \A j \in 1..Len(q) : q[j] = pos[j]
    <3>1. Len(pos) = 2 * Depth + 1 /\ Len(pos) \in Nat /\ Len(pos) > 1
      BY <1>1 DEF DescentInv
    <3>2. Len(q) = Len(pos) - 2 /\ \A j \in 1..(Len(pos) - 2) : q[j] = pos[j]
      BY <1>1, <3>1, OuterFacts
    <3>3. i = pos[Len(pos) - 1] BY DEF Part
    <3>4. PICK l \in Nat, k \in Nat : l = Len(pos) /\ k = Len(q) /\ k = l - 2 /\ k + 1 = l - 1
      BY <3>1, <3>2
    <3>5. pos[k + 1] = i BY <3>3, <3>4
    <3>6. QED BY <1>4, <1>6, <3>2, <3>4, <3>5
  <2>2. ~Begun(Append(q, p), pos) BY <1>1, <2>1, Unbegun
  <2>3. QED BY <1>1, <1>8, <2>2 DEF BlocksInv, Mark
<1> DEFINE C == Created(B, {t, g} \ {m})
<1>11. /\ Sound(C) /\ DOMAIN C = DOMAIN blocks \union {t, g} /\ Branched(C) = Branched(B)
       /\ \A b \in DOMAIN blocks : C[b] = B[b]
       /\ g # m => ~Terminated(C, g)
  <2>1. {t, g} \ {m} \in SUBSET Names BY <1>8
  <2>2. /\ Sound(C) /\ DOMAIN C = DOMAIN B \union ({t, g} \ {m}) /\ Branched(C) = Branched(B)
        /\ \A b \in DOMAIN B : C[b] = B[b]
        /\ \A b \in ({t, g} \ {m}) \ DOMAIN B : ~Terminated(C, b)
    BY <1>3, <2>1, CreatedFacts
  <2>3. g # m => g \in ({t, g} \ {m}) \ DOMAIN B BY <1>3, <1>10
  <2>4. QED BY <1>3, <2>2, <2>3
<1>12. PICK e \in Ends : e = CondBr(Event(q, p), t, g) /\ Range(e.to) = {t, g}
  <2>1. PICK v \in Events : v = Event(q, p) BY <1>1
  <2>2. CondBr(v, t, g) \in Ends /\ Range(CondBr(v, t, g).to) = {t, g}
    BY <1>8, EndFacts
  <2>3. QED BY <2>1, <2>2
<1>13. blocks' = Ended(C, f, e) BY <1>2, <1>6, <1>7, <1>12 DEF Tested
<1> HIDE DEF C
<1>14. /\ Sound(blocks') /\ DOMAIN blocks' = DOMAIN blocks \union {t, g}
       /\ Branched(blocks') = Branched(B) \union {t, g}
       /\ \A b \in DOMAIN C \ {f} : blocks'[b] = C[b]
  <2>1. f \in DOMAIN C /\ Range(e.to) \subseteq DOMAIN C /\ ~Terminated(C, f)
    BY <1>9, <1>11, <1>12 DEF Terminated
  <2>2. QED BY <1>11, <1>12, <1>13, <2>1, EndedFacts
<1>15. PICK d \in Nat, n \in Nat : d = Depth - 1 /\ n = Depth /\ d < n BY <1>1
<1>16. Owner(n)' = q
  <2>1. prog' = prog BY DEF Outside
  <2>2. Owner(Depth)' = Owner(Depth) /\ Depth' = Depth
    <3>1. Owner(Depth)' = Owner(Depth) BY <1>1, <1>5, <2>1, MovePart
    <3>2. QED BY <3>1 DEF Depth
  <2>3. QED BY <1>1, <1>15, <2>2
<1>17. \A b \in {t, g} \ {m} : Begun(Mark(b), pos')
  <2>1. Begun(Append(q, p), First(q, p)) BY <1>1, <1>5, <1>6, LeftPrecedes
  <2>2. QED BY <1>6, <1>8, <2>1 DEF Mark
<1>18. PICK T : T = {insert, f}
  OBVIOUS
<1>19. Grown(blocks, blocks', T) BY <1>3, <1>11, <1>14, <1>18 DEF Grown
<1>20. /\ \A b \in T : b = insert \/ b[1] = q
       /\ DOMAIN blocks \subseteq DOMAIN blocks'
       /\ \A b \in DOMAIN blocks' \ DOMAIN blocks : Begun(Mark(b), pos')
       /\ \A c \in Branched(blocks') \ Branched(blocks) : c[2] # "step"
       /\ \A b \in DOMAIN blocks' :
            b \in Branched(blocks') \/ b \in DOMAIN blocks
  BY <1>3, <1>8, <1>14, <1>17, <1>18
<1>21. Carries(d, n, T) BY <1>1, <1>3, <1>15, <1>16, <1>19, <1>20 DEF Carries
<1>22. insert' \in DOMAIN blocks' /\ Inserted(insert', pos')
  <2>1. insert' = t /\ t # m BY <1>3, <1>6, <1>7, <1>8
  <2>2. QED BY <1>8, <1>14, <1>17, <2>1 DEF Inserted
<1>23. \A b \in Ahead(q, i + 1) : b \in DOMAIN blocks' /\ ~Terminated(blocks', b)
  <2>1. Ahead(q, i + 1) = {m, g}
    BY <1>1, <1>3, <1>5, <1>6, <1>7 DEF Ahead, Closing
  <2>2. f # g BY <1>3, <1>8, <1>9, <1>10
  <2>3. m \in DOMAIN C \ {f} /\ g \in DOMAIN C \ {f} /\ ~Terminated(C, m)
    BY <1>3, <1>8, <1>11, <2>2 DEF Terminated
  <2>4. QED BY <1>3, <1>11, <1>14, <2>1, <2>3 DEF Terminated
<1>24. Emitting BY <1>1, StepEmits
<1>25. QED BY <1>1, <1>5, <1>15, <1>20, <1>21, <1>22, <1>23, <1>24, PartStep

LEMMA LeaveIfPartStep ==
  ASSUME IInv, LeaveIfPart
  PROVE  IInv'
<1>1. /\ AtEndOf("if") /\ Outside /\ loops' = loops /\ labels' = labels
  BY DEF LeaveIfPart, Control
<1>2. PICK q, i : q = Outer(pos) /\ i = Part(pos)
  OBVIOUS
<1>3. CASE /\ i < prog[q].guards
           /\ blocks' = Tested(BranchIfOpen(blocks, insert, Br(Silent, Merge(q))), q, i + 1,
                               FalseBlock(q, i))
           /\ insert' = Then(q, i + 1)
           /\ pos' = First(q, i + 1)
           /\ UNCHANGED frames
  BY <1>1, <1>2, <1>3, GuardStep
<1>4. CASE /\ i = prog[q].guards /\ prog[q].hasElse
           /\ blocks' = BranchIfOpen(blocks, insert, Br(Silent, Merge(q)))
           /\ insert' = FalseBlock(q, i)
           /\ pos' = First(q, i + 1)
           /\ UNCHANGED frames
  BY <1>1, <1>2, <1>4, ElseStep
<1>5. CASE /\ i = Parts(prog[q])
           /\ MergeAt(BranchIfOpen(blocks, insert, Br(Silent, Merge(q))), Merge(q), Frame.block)
           /\ LeaveTo(After(q))
  <2>1. /\ prog[q].kind = "if" /\ Depth \in Nat /\ Depth > 0 /\ q = Owner(Depth) /\ IsPath(q)
        /\ DescentInv /\ Sound(blocks) /\ Frame = frames[Depth]
        /\ Frame.block \in DOMAIN blocks /\ Inserted(Frame.block, q)
        /\ \A b \in Ahead(q, i) : b \in DOMAIN blocks
        /\ \A b \in Ahead(q, i) : b[2] # "false" => b # Frame.block
    BY <1>1, <1>2, AtEndFacts
  <2>2. PICK m : m = Merge(q) /\ m[2] = "merge"
    <3>1. Merge(q)[2] = "merge" BY DEF Merge, Block
    <3>2. QED BY <3>1
  <2>3. m \in Ahead(q, i) BY <2>1, <2>2 DEF Ahead, Closing, Droppable
  <2>4. PICK e \in Ends : e = Br(Silent, m) /\ Range(e.to) = {m}
    <3>1. m \in Names BY <2>1, <2>3 DEF Sound
    <3>2. QED BY <3>1, EventFacts, EndFacts
  <2>5. PICK t \in DOMAIN blocks : t = Frame.block /\ t # m /\ Inserted(t, After(q))
    <3>1. Onward(q, After(q)) BY DEF Onward
    <3>2. Frame.block \in Names BY <2>1 DEF Sound
    <3>3. Inserted(Frame.block, After(q)) BY <2>1, <3>1, <3>2, InsertedOn
    <3>4. Frame.block # m BY <2>1, <2>2, <2>3
    <3>5. QED BY <2>1, <3>3, <3>4
  <2>6. loops' = frames[Depth].loops
    BY <1>1, <2>1 DEF IInv, LoopsInv, LoopsIn, LoopKinds
  <2>7. MergeAt(BranchIfOpen(blocks, insert, e), m, t)
    BY <1>5, <2>2, <2>4, <2>5
  <2>8. Range(e.to) \subseteq DOMAIN blocks /\ \A b \in Range(e.to) : b[2] # "step"
    BY <2>1, <2>2, <2>3, <2>4
  <2>9. LeaveTo(After(q)) /\ "if" \in {"if", "loop", "while"} /\ t # Merge(q)
    BY <1>5, <2>2, <2>5
  <2>10. MergeAt(BranchIfOpen(blocks, insert, e), Merge(q), t) BY <2>2, <2>7
  <2>11. QED BY <1>1, <1>2, <2>5, <2>6, <2>8, <2>9, <2>10, MergeStep
<1>6. \/ /\ i < prog[q].guards
         /\ blocks' = Tested(BranchIfOpen(blocks, insert, Br(Silent, Merge(q))), q, i + 1,
                             FalseBlock(q, i))
         /\ insert' = Then(q, i + 1)
         /\ pos' = First(q, i + 1)
         /\ UNCHANGED frames
      \/ /\ i = prog[q].guards /\ prog[q].hasElse
         /\ blocks' = BranchIfOpen(blocks, insert, Br(Silent, Merge(q)))
         /\ insert' = FalseBlock(q, i)
         /\ pos' = First(q, i + 1)
         /\ UNCHANGED frames
      \/ /\ i = Parts(prog[q])
         /\ MergeAt(BranchIfOpen(blocks, insert, Br(Silent, Merge(q))), Merge(q), Frame.block)
         /\ LeaveTo(After(q))
  BY <1>2 DEF LeaveIfPart
<1>7. QED BY <1>3, <1>4, <1>5, <1>6

-----------------------------------------------------------------------------
(* Steps that emit nothing *)

LEMMA StillStep ==
  ASSUME IInv, UNCHANGED <<prog, genVars>>, took' \in BOOLEAN,
         pc' \in {"generate", "failed", "verified", "described", "running", "stopped"},
         pc' \notin {"generate", "failed"} => pos = After(Top)
  PROVE  IInv'
<1>1. /\ prog' = prog /\ pos' = pos /\ insert' = insert /\ blocks' = blocks
      /\ loops' = loops /\ labels' = labels /\ frames' = frames
  BY DEF genVars
<1>2. Depth' = Depth BY <1>1 DEF Depth
<1>3. PICK n : n = Depth
  OBVIOUS
<1>4. /\ \A i : Owner(i)' = Owner(i) /\ PartOf(i)' = PartOf(i)
      /\ \A b, q : Inserted(b, q)' = Inserted(b, q)
  BY <1>1 DEF Owner, PartOf, Inserted, Mark, Begun, Precedes, Surrounds
<1>5. DescentInv'
  <2>1. Frames' = Frames BY <1>1 DEF Frames, LoopRecords, Names
  <2>2. Ada!Positions' = Ada!Positions BY <1>1 DEF Ada!Positions, Ada!After
  <2>3. DescentInv BY DEF IInv
  <2>4. pos' \in Ada!Positions' /\ frames' \in Seq(Frames') /\ labels' \in Seq(DOMAIN prog')
    BY <1>1, <2>1, <2>2, <2>3 DEF DescentInv
  <2>5. QED BY <1>1, <1>2, <1>4, <2>3, <2>4 DEF DescentInv
<1>6. BlocksInv'
  <2>1. Nodes' = Nodes /\ Names' = Names /\ Branched(blocks)' = Branched(blocks)
    BY <1>1, EndsKept DEF Nodes, Events, Names, Branched
  <2>2. Sound(blocks)' BY <1>1, <2>1 DEF IInv, BlocksInv, Sound
  <2>3. \A b : Begun(Mark(b), pos)' = Begun(Mark(b), pos)
               /\ Precedes(b[1], pos)' = Precedes(b[1], pos)
    BY <1>1 DEF Mark, Begun, Precedes, Surrounds
  <2>4. QED BY <1>1, <2>1, <2>2, <2>3 DEF IInv, BlocksInv
<1>7. InsertInv' BY <1>1, <1>2, <1>4 DEF IInv, InsertInv
<1>8. OpenInv' /\ OrphanInv'
  <2>1. \A q, i : Ahead(q, i)' = Ahead(q, i) /\ Droppable(q)' = Droppable(q)
                  /\ Needed(q)' = Needed(q)
    BY <1>1 DEF Ahead, Closing, Droppable, Needed, Merge, StepBlock, FalseBlock, Body,
      Header, Block
  <2>2. QED
    BY <1>1, <1>2, <1>4, <2>1 DEF IInv, OpenInv, OrphanInv, Terminated, Branched
<1>9. LoopsInv'
  <2>1. \A i : LoopsIn(i)' = LoopsIn(i) BY <1>1, <1>4 DEF LoopsIn, Merge, Block
  <2>2. QED BY <1>1, <1>2, <1>4, <2>1 DEF IInv, LoopsInv, Merge, Block
<1>10. QED BY <1>5, <1>6, <1>7, <1>8, <1>9 DEF IInv

LEMMA SilentStep ==
  ASSUME IInv, Refuse \/ Verify \/ DescribeLabels \/ Run \/ UNCHANGED vars
  PROVE  IInv'
<1>1. /\ pc \in {"generate", "failed", "verified", "described", "running", "stopped"}
      /\ pc \notin {"generate", "failed"} => pos = After(Top)
      /\ took \in BOOLEAN
  BY DEF IInv, DescentInv
<1>2. CASE Refuse BY <1>1, <1>2, StillStep DEF Refuse, runVars
<1>3. CASE Verify BY <1>1, <1>3, StillStep DEF Verify, runVars
<1>4. CASE DescribeLabels
  <2>1. /\ UNCHANGED <<prog, genVars>> /\ took' \in BOOLEAN
        /\ pc = "verified" /\ pc' = "described"
    BY <1>1, <1>4 DEF DescribeLabels, genVars, runVars
  <2>2. QED BY <1>1, <2>1, StillStep
<1>5. CASE Run
  <2>1. /\ UNCHANGED <<prog, genVars>> /\ took' \in BOOLEAN
        /\ pc \in {"described", "running"} /\ pc' \in {"running", "stopped"}
    <3>1. CASE Begin BY <1>1, <3>1 DEF Begin, Emitted
    <3>2. CASE Execute BY <1>1, <3>2 DEF Execute, Emitted
    <3>3. CASE Branch BY <1>1, <3>3 DEF Branch, Emitted, AtEnd
    <3>4. CASE CondBranch BY <1>1, <3>4 DEF CondBranch, Emitted, AtEnd
    <3>5. CASE ReturnOp BY <1>1, <3>5 DEF ReturnOp, Emitted, AtEnd
    <3>6. QED BY <1>5, <3>1, <3>2, <3>3, <3>4, <3>5 DEF Run
  <2>2. QED BY <1>1, <2>1, StillStep
<1>6. CASE UNCHANGED vars BY <1>1, <1>6, StillStep DEF vars, runVars
<1>7. QED BY <1>2, <1>3, <1>4, <1>5, <1>6

-----------------------------------------------------------------------------
(* The invariant *)

LEMMA InitIInv == Init => IInv
<1> SUFFICES ASSUME Init PROVE IInv
  OBVIOUS
<1>1. /\ prog \in Programs /\ pc = "generate" /\ pos = Top /\ insert = NoBlock
      /\ blocks = <<>> /\ loops = <<>> /\ labels = <<>> /\ frames = <<>> /\ took = TRUE
  BY DEF Init
<1>2. Depth = 0 /\ DOMAIN blocks = {} /\ 1..Depth = {} BY <1>1 DEF Depth
<1>3. DescentInv
  <2>1. Top \in Ada!Positions BY <1>1, PositionsAre, ProgramFacts
  <2>2. Len(pos) = 2 * Depth + 1 BY <1>1, <1>2 DEF Top
  <2>3. frames \in Seq(Frames) /\ labels \in Seq(DOMAIN prog) BY <1>1
  <2>4. QED BY <1>1, <1>2, <2>1, <2>2, <2>3 DEF DescentInv
<1>4. BlocksInv BY <1>2 DEF BlocksInv, Sound, Branched
<1>5. InsertInv /\ OpenInv /\ OrphanInv /\ LoopsInv
  BY <1>1, <1>2 DEF InsertInv, OpenInv, OrphanInv, LoopsInv
<1>6. QED BY <1>3, <1>4, <1>5 DEF IInv

LEMMA NextIInv == IInv /\ [Next]_vars => IInv'
<1> SUFFICES ASSUME IInv, [Next]_vars PROVE IInv'
  OBVIOUS
<1>1. CASE SkipUnreachable BY <1>1, SkipStep
<1>2. CASE EmitAct BY <1>2, ActStep
<1>3. CASE EmitReturn BY <1>3, ReturnStep
<1>4. CASE EmitGoto BY <1>4, GotoStep
<1>5. CASE EmitLabel BY <1>5, LabelStep
<1>6. CASE EmitExit BY <1>6, ExitStep
<1>7. CASE EnterIf BY <1>7, IfStep
<1>8. CASE LeaveIfPart BY <1>8, LeaveIfPartStep
<1>9. CASE EnterLoop BY <1>9, LoopStep
<1>10. CASE LeaveLoop BY <1>10, LeaveLoopStep
<1>11. CASE EnterFor BY <1>11, ForStep
<1>12. CASE LeaveFor BY <1>12, LeaveForStep
<1>13. CASE EnterBlock BY <1>13, BlockStep
<1>14. CASE LeaveBlock BY <1>14, LeaveBlockStep
<1>15. CASE EnterSubp BY <1>15, SubpStep
<1>16. CASE LeaveSubp BY <1>16, LeaveSubpStep
<1>17. CASE Refuse \/ Verify \/ DescribeLabels \/ Run \/ UNCHANGED vars
  BY <1>17, SilentStep
<1>18. QED
  BY <1>1, <1>2, <1>3, <1>4, <1>5, <1>6, <1>7, <1>8, <1>9, <1>10, <1>11, <1>12, <1>13,
     <1>14, <1>15, <1>16, <1>17 DEF Next, Emit

LEMMA Invariance == Spec => []IInv
BY InitIInv, NextIInv, PTL DEF Spec

LEMMA IInvTyped == IInv => TypeOK
<1> SUFFICES ASSUME IInv PROVE TypeOK
  OBVIOUS
<1>1. DescentInv /\ InsertInv /\ Sound(blocks) BY DEF IInv, BlocksInv
<1>2. ASSUME NEW b \in DOMAIN blocks
      PROVE  /\ b[1] \in DOMAIN prog /\ b[2] \in Roles
             /\ blocks[b].end.op \in {"none", "br", "cond_br", "return"}
             /\ \A i \in DOMAIN blocks[b].code :
                  blocks[b].code[i] = Silent \/ blocks[b].code[i].stmt \in DOMAIN prog
  <2>1. b \in Names /\ blocks[b].code \in Seq(Events) /\ blocks[b].end \in Ends
    BY <1>1, NodeFacts
  <2>2. b[1] \in DOMAIN prog /\ b[2] \in Roles BY <2>1 DEF Names
  <2>3. blocks[b].end.op \in {"none", "br", "cond_br", "return"}
    BY <2>1 DEF Ends
  <2>4. ASSUME NEW i \in DOMAIN blocks[b].code
        PROVE  blocks[b].code[i] = Silent \/ blocks[b].code[i].stmt \in DOMAIN prog
    <3>1. blocks[b].code[i] \in Events BY <2>1, <2>4
    <3>2. QED BY <3>1 DEF Events
  <2>5. QED BY <2>2, <2>3, <2>4
<1>3. insert \in DOMAIN blocks \union {NoBlock} BY <1>1 DEF InsertInv
<1>4. \A i \in DOMAIN frames : frames[i].block \in DOMAIN blocks \union {NoBlock}
  <2>1. DOMAIN frames = 1..Depth BY <1>1 DEF DescentInv, Depth
  <2>2. QED BY <1>1, <2>1 DEF InsertInv
<1>5. QED BY <1>1, <1>2, <1>3, <1>4 DEF TypeOK, DescentInv

LEMMA IInvKeepsTargets == IInv => NothingDangles
<1> SUFFICES ASSUME IInv PROVE NothingDangles
  OBVIOUS
<1>1. DescentInv /\ LoopsInv /\ OpenInv /\ Sound(blocks) BY DEF IInv, BlocksInv
<1>2. \A b \in DOMAIN blocks : Range(blocks[b].end.to) \subseteq DOMAIN blocks
  BY <1>1 DEF Sound, Branched
<1>3. ASSUME NEW j \in DOMAIN loops PROVE loops[j].merge \in DOMAIN blocks
  <2>1. PICK k \in 1..Depth :
          loops[j].merge = Merge(Owner(k)) /\ prog[Owner(k)].kind \in LoopKinds
    BY <1>1, LoopsFacts
  <2>2. Merge(Owner(k)) \in Ahead(Owner(k), PartOf(k))
    BY <2>1 DEF Ahead, Closing, Droppable, LoopKinds
  <2>3. QED BY <1>1, <2>1, <2>2 DEF OpenInv
<1>4. QED BY <1>2, <1>3 DEF NothingDangles

LEMMA IInvDropsOrphans == IInv => OrphansErased
<1> SUFFICES ASSUME IInv, pc = "verified", NEW b \in DOMAIN blocks
             PROVE  b[2] \in {"entry", "label"} \/ HasPredecessors(blocks, b)
  BY DEF OrphansErased
<1>1. DescentInv /\ OrphanInv /\ pos = After(Top) BY DEF IInv, DescentInv
<1>2. 1..Depth = {}
  <2>1. Depth = 0 BY <1>1, PositionFacts
  <2>2. QED BY <2>1
<1>3. b[2] \in {"entry", "label"} \/ b \in Branched(blocks)
  BY <1>1, <1>2 DEF OrphanInv
<1>4. QED BY <1>3, BranchedIs

(* For every program, in every state of its lowering and of a run of what  *)
(* was emitted: mlirGen stands at a position of the program, each block is *)
(* one of a statement of it, with a terminator MLIRGen emits and steps of  *)
(* statements of the program, and the builder's insertion block, and those *)
(* it is to return to after the bodies being emitted, still exist.         *)
THEOREM TypeCorrect == Spec => []TypeOK
BY Invariance, IInvTyped, PTL

(* For every program: no branch names a block that mlirGenIf, mlirGenLoop, *)
(* mlirGenForLoop or the loop stack has erased, at any time.               *)
THEOREM BranchesLand == Spec => []NothingDangles
BY Invariance, IInvKeepsTargets, PTL

(* For every program accepted: each block of lowering's own making, but    *)
(* the entries of bodies, has a branch to it; a merge that has none, and   *)
(* the step of a loop whose body never ends, have been erased.             *)
THEOREM NoOrphans == Spec => []OrphansErased
BY Invariance, IInvDropsOrphans, PTL

-----------------------------------------------------------------------------
(* What Ada's rules are written in *)

LEMMA AdaTerms ==
  /\ Ada!Top = Top
  /\ \A q : Ada!After(q) = After(q) /\ Ada!Outer(q) = Outer(q)
  /\ \A q, i : Ada!First(q, i) = First(q, i) /\ Ada!Event(q, i) = Event(q, i)
BY DEF Ada!Top, Top, Ada!After, After, Ada!Outer, Outer, Ada!First, First, Event

LEMMA InsideAre ==
  Ada!Inside = (DOMAIN prog \union {After(q) : q \in DOMAIN prog}) \ {Top, After(Top)}
BY PositionsAre, AdaTerms DEF Ada!Inside

LEMMA InsideFacts ==
  ASSUME prog \in Programs
  PROVE  /\ \A q \in Ada!Inside : IsPath(q) /\ Len(q) > 1 /\ Outer(q) \in DOMAIN prog
         /\ \A q \in DOMAIN prog \ {Top} : q \in Ada!Inside /\ After(q) \in Ada!Inside
         /\ \A q \in DOMAIN prog : \A i \in 1..Parts(prog[q]) : First(q, i) \in Ada!Inside
<1>1. /\ Len(Top) = 1 /\ Len(After(Top)) = 1 /\ prog[Top].kind = "subp" /\ Top \in DOMAIN prog
      /\ After(Top) \notin DOMAIN prog
  BY TopFacts, ProgramFacts
<1>2. \A q \in DOMAIN prog :
        /\ IsPath(q)
        /\ q # Top => Len(q) > 1 /\ Outer(q) \in DOMAIN prog
        /\ \A i \in 1..Parts(prog[q]) : First(q, i) \in DOMAIN prog
  BY ProgramFacts
<1>3. ASSUME NEW r \in DOMAIN prog \ {Top}
      PROVE  /\ r \in Ada!Inside /\ After(r) \in Ada!Inside
             /\ IsPath(After(r)) /\ Len(After(r)) > 1 /\ Outer(After(r)) = Outer(r)
  <2>1. IsPath(r) /\ Len(r) > 1 BY <1>2
  <2>2. IsPath(After(r)) /\ Len(After(r)) = Len(r)
        /\ \A m \in 0..(Len(r) - 1) : SubSeq(After(r), 1, m) = SubSeq(r, 1, m)
    BY <2>1, AfterFacts
  <2>3. Len(r) - 2 \in 0..(Len(r) - 1) BY <2>1, PathFacts
  <2>4. Outer(After(r)) = Outer(r) BY <2>2, <2>3 DEF Outer
  <2>5. r \notin {Top, After(Top)} /\ After(r) \notin {Top, After(Top)}
    <3>1. \A t \in {Top, After(Top)} : ~(Len(t) > 1)
      <4>1. \A t \in {Top, After(Top)} : Len(t) = 1 BY <1>1
      <4>2. ~(1 > 1)
        OBVIOUS
      <4>3. QED BY <4>1, <4>2
    <3>2. Len(After(r)) > 1 BY <2>1, <2>2
    <3>3. QED BY <2>1, <3>1, <3>2
  <2>6. QED BY <2>1, <2>2, <2>4, <2>5, InsideAre
<1>4. ASSUME NEW q \in Ada!Inside PROVE IsPath(q) /\ Len(q) > 1 /\ Outer(q) \in DOMAIN prog
  <2>1. CASE q \in DOMAIN prog BY <1>2, <2>1, InsideAre
  <2>2. CASE q \notin DOMAIN prog
    <3>1. PICK r \in DOMAIN prog : q = After(r) BY <2>2, InsideAre
    <3>2. r # Top BY <3>1, InsideAre
    <3>3. QED BY <1>2, <1>3, <3>1, <3>2
  <2>3. QED BY <2>1, <2>2
<1>5. ASSUME NEW q \in DOMAIN prog, NEW i \in 1..Parts(prog[q]) PROVE First(q, i) \in Ada!Inside
  <2>1. i \in Nat \ {0} /\ IsPath(q) /\ First(q, i) \in DOMAIN prog
    <3>1. i \in Nat \ {0}
      OBVIOUS
    <3>2. QED BY <1>2, <3>1
  <2>2. Len(First(q, i)) = Len(q) + 2 BY <2>1, FirstFacts
  <2>3. First(q, i) # Top
    <3>1. Len(q) \in Nat BY <2>1, PathFacts
    <3>2. Len(First(q, i)) # 1
      <4>1. \A n \in Nat : n + 2 # 1
        OBVIOUS
      <4>2. QED BY <2>2, <3>1, <4>1
    <3>3. QED BY <1>1, <3>2
  <2>4. QED BY <1>3, <2>1, <2>3
<1>6. QED BY <1>3, <1>4, <1>5

Lands(q) == Ada!Lands[q]

(* What happens first from a position on, by what stands there: the        *)
(* definition has a solution, whether or not every way on it takes ends.   *)
LEMMA LandsIs ==
  ASSUME prog \in Programs, NEW q \in Ada!Inside
  PROVE  Lands(q) =
           IF q \in DOMAIN prog
             THEN CASE prog[q].kind \in {"label", "subp"} -> Lands(After(q))
                    [] prog[q].kind \in {"block", "loop"} -> Lands(First(q, 1))
                    [] OTHER -> Event(q, 1)
             ELSE CASE prog[Outer(q)].kind \in {"if", "block"} -> Lands(After(Outer(q)))
                    [] prog[Outer(q)].kind = "for" -> Event(Outer(q), 2)
                    [] OTHER -> Event(Outer(q), 1)
<1> DEFINE P == Ada!Inside
           within(r) == r \in DOMAIN prog
           stop == {r \in P : IF within(r) THEN prog[r].kind \notin {"label", "subp", "block", "loop"}
                              ELSE prog[Outer(r)].kind \notin {"if", "block"}}
           next == [r \in P \ stop |->
                      IF within(r) THEN IF prog[r].kind \in {"label", "subp"} THEN After(r) ELSE First(r, 1)
                      ELSE After(Outer(r))]
           val == [r \in stop |->
                     IF within(r) THEN Event(r, 1)
                     ELSE Event(Outer(r), IF prog[Outer(r)].kind = "for" THEN 2 ELSE 1)]
<1>1. next \in [P \ stop -> P]
  <2> SUFFICES ASSUME NEW r \in P \ stop PROVE next[r] \in P
    OBVIOUS
  <2>1. CASE within(r) /\ prog[r].kind \in {"label", "subp"}
    <3>1. r # Top BY InsideAre
    <3>2. After(r) \in P BY <2>1, <3>1, InsideFacts
    <3>3. QED BY <2>1, <3>2
  <2>2. CASE within(r) /\ prog[r].kind \notin {"label", "subp"}
    <3>1. prog[r].kind \in {"block", "loop"} BY <2>2
    <3>2. 1 \in 1..Parts(prog[r]) BY <3>1 DEF Parts, LoopKinds
    <3>3. First(r, 1) \in P BY <2>2, <3>2, InsideFacts
    <3>4. QED BY <2>2, <3>3
  <2>3. CASE ~within(r)
    <3>1. prog[Outer(r)].kind \in {"if", "block"} /\ Outer(r) \in DOMAIN prog
      BY <2>3, InsideFacts
    <3>2. Outer(r) # Top BY <3>1, ProgramFacts
    <3>3. After(Outer(r)) \in P BY <3>1, <3>2, InsideFacts
    <3>4. QED BY <2>3, <3>3
  <2>4. QED BY <2>1, <2>2, <2>3
<1>2. val \in [stop -> Events]
  <2> SUFFICES ASSUME NEW r \in stop PROVE val[r] \in Events
    OBVIOUS
  <2>1. Outer(r) \in DOMAIN prog BY InsideFacts
  <2>2. QED BY <2>1, EventFacts
<1>3. stop \in SUBSET P
  OBVIOUS
<1>4. PICK f \in [P -> Events] :
        \A r \in P : f[r] = IF r \in stop THEN val[r] ELSE f[next[r]]
  <2> HIDE DEF P, stop, next, val
  <2>1. QED BY <1>1, <1>2, <1>3, EventFacts, WalkExists DEF PassedOn
<1> DEFINE G(g) == [r \in P |->
             IF r \in DOMAIN prog
               THEN CASE prog[r].kind \in {"label", "subp"} -> g[After(r)]
                      [] prog[r].kind \in {"block", "loop"} -> g[First(r, 1)]
                      [] OTHER -> Event(r, 1)
               ELSE CASE prog[Outer(r)].kind \in {"if", "block"} -> g[After(Outer(r))]
                      [] prog[Outer(r)].kind = "for" -> Event(Outer(r), 2)
                      [] OTHER -> Event(Outer(r), 1)]
<1>5. f = G(f)
  <2>1. ASSUME NEW r \in P PROVE (IF r \in stop THEN val[r] ELSE f[next[r]]) = G(f)[r]
    <3>1. CASE within(r) BY <3>1
    <3>2. CASE ~within(r) BY <3>2
    <3>3. QED BY <3>1, <3>2
  <2>2. QED BY <1>4, <2>1
<1>6. Ada!Lands = CHOOSE g : g = G(g) BY AdaTerms DEF Ada!Lands
<1> HIDE DEF G, P, stop, next, val
<1>7. Ada!Lands = G(Ada!Lands) BY <1>5, <1>6
<1>8. QED BY <1>7 DEF G, P, Lands

-----------------------------------------------------------------------------
(* What a block does, and what is due *)

(* What is due when control reaches a block.                               *)
Starts(b) ==
  LET q == b[1]
  IN  CASE b[2] \in {"entry", "body", "init"} -> Lands(First(q, 1))
        [] b[2] = "then" -> Lands(First(q, b[3]))
        [] b[2] = "false" -> IF b[3] < prog[q].guards THEN Event(q, b[3] + 1)
                             ELSE Lands(First(q, b[3] + 1))
        [] b[2] = "header" -> Event(q, 1)
        [] b[2] = "step" -> Event(q, 3)
        [] OTHER -> Lands(After(q))

Follows(e, outcome) == Ada!Successor(e, outcome)

(* Steps that are only ever emitted where Ada allows them, and those of    *)
(* them that have one outcome and something after it.                      *)
Allowed(e) == e # Silent /\ ~Illegal(prog, e.stmt) /\ ~Ada!MissingReturn(e)
Plain(e) == Allowed(e) /\ ~Ada!IsTest(e) /\ ~Ada!IsFinal(e)

(* Operations that start with s due, each of them due when its turn comes: *)
(* d is due next.                                                          *)
Leads(s, code, due) ==
  /\ due[0] = s
  /\ \A i \in 1..Len(code) :
       IF code[i] = Silent THEN due[i] = due[i - 1]
       ELSE /\ code[i] = due[i - 1] /\ Plain(code[i])
            /\ due[i] = Follows(code[i], TRUE)
Due(s, code, d) == \E due : Leads(s, code, due) /\ due[Len(code)] = d

EndFlows(end, d) ==
  CASE end.op = "br" ->
         IF end.event = Silent THEN Starts(end.to[1]) = d
         ELSE end.event = d /\ Plain(d) /\ Starts(end.to[1]) = Follows(d, TRUE)
    [] end.op = "cond_br" ->
         /\ end.event = d /\ Allowed(d) /\ Ada!IsTest(d) /\ ~Ada!IsFinal(d)
         /\ Starts(end.to[1]) = Follows(d, TRUE)
         /\ Starts(end.to[2]) = Follows(d, FALSE)
    [] end.op = "return" ->
         end.event = d /\ Allowed(d) /\ Ada!IsFinal(d) /\ ~Ada!IsTest(d)
    [] OTHER -> TRUE

Flows(b, node) == \E d : Due(Starts(b), node.code, d) /\ EndFlows(node.end, d)

LEMMA LandsKept ==
  ASSUME prog' = prog
  PROVE  Ada!Lands' = Ada!Lands
BY DEF Ada!Lands, Ada!Inside, Ada!Positions, Ada!After, Ada!Top, Ada!First, Ada!Outer, Ada!Event

LEMMA FollowsKept ==
  ASSUME prog' = prog
  PROVE  /\ \A q : Lands(q)' = Lands(q)
         /\ \A e, o : Follows(e, o)' = Follows(e, o)
         /\ \A e : Allowed(e)' = Allowed(e) /\ Plain(e)' = Plain(e)
                  /\ Ada!IsTest(e)' = Ada!IsTest(e) /\ Ada!IsFinal(e)' = Ada!IsFinal(e)
<1>1. \A q : Lands(q)' = Lands(q) BY LandsKept DEF Lands
<1>2. \A e, o : Follows(e, o)' = Follows(e, o)
  BY LandsKept DEF Follows, Ada!Successor
<1>3. \A e : Allowed(e)' = Allowed(e)
  BY DEF Allowed, Ada!MissingReturn, Silent, Ada!Idle, Ada!Event
<1>4. \A e : Ada!IsTest(e)' = Ada!IsTest(e) /\ Ada!IsFinal(e)' = Ada!IsFinal(e)
  BY DEF Ada!IsTest, Ada!IsFinal
<1>5. \A e : Plain(e)' = Plain(e) BY <1>3, <1>4 DEF Plain
<1>6. QED BY <1>1, <1>2, <1>3, <1>4, <1>5

LEMMA FlowsKept ==
  ASSUME prog' = prog
  PROVE  /\ \A b : Starts(b)' = Starts(b)
         /\ \A s, code, d : Due(s, code, d)' = Due(s, code, d)
         /\ \A b, node : Flows(b, node)' = Flows(b, node)
<1>1. \A b : Starts(b)' = Starts(b) BY FollowsKept DEF Starts, Event, Ada!Event
<1>2. \A s, code, due : Leads(s, code, due)' = Leads(s, code, due)
  BY FollowsKept DEF Leads, Silent, Ada!Idle, Ada!Event
<1>3. \A s, code, d : Due(s, code, d)' = Due(s, code, d) BY <1>2 DEF Due
<1>4. \A end, d : EndFlows(end, d)' = EndFlows(end, d)
  BY <1>1, FollowsKept DEF EndFlows, Silent, Ada!Idle, Ada!Event
<1>5. \A b, node : Flows(b, node)' = Flows(b, node)
  BY <1>1, <1>3, <1>4 DEF Flows
<1>6. QED BY <1>1, <1>3, <1>5

LEMMA StepFacts ==
  ASSUME prog \in Programs, NEW q \in DOMAIN prog, NEW n, NEW e, e = Event(q, n)
  PROVE  /\ e.stmt = q /\ e.step = n /\ e # Silent
         /\ prog[q].kind \notin {"exit", "goto", "subp"} => Allowed(e)
         /\ prog[q].kind \in {"return", "subp"} <=> Ada!IsFinal(e)
         /\ prog[q].kind \in {"act", "goto", "loop", "return", "subp"} => ~Ada!IsTest(e)
         /\ prog[q].kind \in {"if", "while"} => Ada!IsTest(e)
<1>1. e.stmt = q /\ e.step = n BY DEF Event, Ada!Event
<1>2. e # Silent
  <2>1. IsPath(q) BY ProgramFacts
  <2>2. q # <<>>
    <3>1. Len(q) # 0 BY <2>1, PathFacts
    <3>2. QED BY <3>1
  <2>3. Silent.stmt = <<>> BY DEF Silent, Ada!Idle, Ada!Event
  <2>4. QED BY <1>1, <2>2, <2>3
<1>3. prog[q].kind \notin {"exit", "goto", "subp"} => Allowed(e)
  BY <1>1, <1>2 DEF Allowed, Illegal, Ada!MissingReturn
<1>4. prog[q].kind \in {"return", "subp"} <=> Ada!IsFinal(e)
  BY <1>1 DEF Ada!IsFinal
<1>5. prog[q].kind \in {"act", "goto", "loop", "return", "subp"} => ~Ada!IsTest(e)
  BY <1>1 DEF Ada!IsTest
<1>6. prog[q].kind \in {"if", "while"} => Ada!IsTest(e) BY <1>1 DEF Ada!IsTest
<1>7. QED BY <1>1, <1>2, <1>3, <1>4, <1>5, <1>6

LEMMA AdaNames ==
  /\ \A q : Ada!Named(prog, q) = Named(prog, q)
  /\ \A S : Ada!Innermost(S) = Innermost(S)
  /\ \A q : Ada!ExitableLoops(prog, q) = ExitableLoops(prog, q)
<1>1. \A S : Ada!Innermost(S) = Innermost(S) BY DEF Ada!Innermost, Innermost
<1>2. \A q : Ada!Enclosing(q) = Enclosing(q) BY DEF Ada!Enclosing, Enclosing
<1>3. Ada!Subps(prog) = Subps(prog) /\ Ada!Labels(prog) = Labels(prog)
      /\ Ada!LoopKinds = LoopKinds /\ Ada!Unnamed = Unnamed
  BY DEF Ada!Subps, Subps, Ada!Labels, Labels, Ada!LoopKinds, LoopKinds, Ada!Unnamed, Unnamed
<1>4. \A q : Ada!EnclosingSubpBody(prog, q) = EnclosingSubpBody(prog, q)
  BY <1>1, <1>2, <1>3 DEF Ada!EnclosingSubpBody, EnclosingSubpBody
<1>5. \A q : Ada!ExitableLoops(prog, q) = ExitableLoops(prog, q)
  BY <1>2, <1>3, <1>4 DEF Ada!ExitableLoops, ExitableLoops
<1>6. \A l : Ada!Region(prog, l) = Region(prog, l)
  BY <1>1, <1>2 DEF Ada!Region, Region
<1>7. \A q : Ada!Visible(prog, q) = Visible(prog, q)
  BY <1>2, <1>3, <1>6 DEF Ada!Visible, Visible
<1>8. \A q : Ada!Named(prog, q) = Named(prog, q)
  BY <1>6, <1>7 DEF Ada!Named, Named
<1>9. QED BY <1>1, <1>5, <1>8

LEMMA FollowsIs ==
  ASSUME prog \in Programs, NEW q \in DOMAIN prog
  PROVE  /\ prog[q].kind = "act" =>
              Plain(Event(q, 1)) /\ Follows(Event(q, 1), TRUE) = Lands(After(q))
         /\ prog[q].kind = "goto" =>
              Follows(Event(q, 1), TRUE) = Lands(Named(prog, q))
         /\ prog[q].kind = "exit" =>
              /\ Follows(Event(q, 1), TRUE) = Lands(After(Innermost(ExitableLoops(prog, q))))
              /\ Follows(Event(q, 1), FALSE) = Lands(After(q))
         /\ prog[q].kind = "if" =>
              \A i \in 1..prog[q].guards :
                /\ Follows(Event(q, i), TRUE) = Starts(Then(q, i))
                /\ Follows(Event(q, i), FALSE) = Starts(FalseBlock(q, i))
         /\ prog[q].kind = "loop" =>
              Plain(Event(q, 1)) /\ Follows(Event(q, 1), TRUE) = Starts(Body(q))
         /\ prog[q].kind = "while" =>
              /\ Follows(Event(q, 1), TRUE) = Starts(Body(q))
              /\ Follows(Event(q, 1), FALSE) = Starts(Merge(q))
         /\ prog[q].kind = "for" =>
              /\ Allowed(Event(q, 1)) /\ Ada!IsTest(Event(q, 1)) /\ ~Ada!IsFinal(Event(q, 1))
              /\ Allowed(Event(q, 2)) /\ Ada!IsTest(Event(q, 2)) /\ ~Ada!IsFinal(Event(q, 2))
              /\ Follows(Event(q, 1), TRUE) = Starts(InitBlock(q))
              /\ Follows(Event(q, 1), FALSE) = Starts(Merge(q))
              /\ Follows(Event(q, 2), TRUE) = Starts(Merge(q))
              /\ Follows(Event(q, 2), FALSE) = Event(q, 3)
              /\ Plain(Event(q, 3)) /\ Follows(Event(q, 3), TRUE) = Starts(Body(q))
<1>1. \A n : Event(q, n).stmt = q /\ Event(q, n).step = n
  BY DEF Event, Ada!Event
<1>2. Starts(Body(q)) = Lands(First(q, 1)) /\ Starts(InitBlock(q)) = Lands(First(q, 1))
      /\ Starts(Merge(q)) = Lands(After(q))
  BY DEF Starts, Body, InitBlock, Merge, Block
<1>3. \A n, o : Follows(Event(q, n), o) =
        LET s == prog[q]
            onward == Lands(After(q))
            inside == Lands(First(q, 1))
        IN  CASE s.kind = "act" -> onward
              [] s.kind = "goto" -> Lands(Named(prog, q))
              [] s.kind = "exit" ->
                   IF o THEN Lands(After(Innermost(ExitableLoops(prog, q)))) ELSE onward
              [] s.kind = "if" ->
                   IF o THEN Lands(First(q, n))
                   ELSE IF n < s.guards THEN Event(q, n + 1)
                   ELSE IF s.hasElse THEN Lands(First(q, n + 1))
                   ELSE onward
              [] s.kind = "loop" -> inside
              [] s.kind = "while" -> IF o THEN inside ELSE onward
              [] s.kind = "for" ->
                   CASE n = 1 -> IF o THEN inside ELSE onward
                     [] n = 2 -> IF o THEN onward ELSE Event(q, 3)
                     [] n = 3 -> inside
  BY <1>1, AdaTerms, AdaNames DEF Follows, Ada!Successor, Lands
<1>4. CASE prog[q].kind = "act"
  <2>1. PICK e : e = Event(q, 1)
    OBVIOUS
  <2>2. Allowed(e) /\ ~Ada!IsTest(e) /\ ~Ada!IsFinal(e)
    BY <1>4, <2>1, StepFacts
  <2>3. Plain(Event(q, 1)) BY <2>1, <2>2 DEF Plain
  <2>4. QED BY <1>3, <1>4, <2>3
<1>5. CASE prog[q].kind = "goto" BY <1>3, <1>5
<1>6. CASE prog[q].kind = "exit" BY <1>3, <1>6
<1>7. CASE prog[q].kind = "if"
  <2> SUFFICES ASSUME NEW i \in 1..prog[q].guards
               PROVE  /\ Follows(Event(q, i), TRUE) = Starts(Then(q, i))
                      /\ Follows(Event(q, i), FALSE) = Starts(FalseBlock(q, i))
    BY <1>7
  <2>1. prog[q].guards \in Nat \ {0} /\ prog[q].hasElse \in BOOLEAN
    BY <1>7, ProgramFacts
  <2>2. Starts(Then(q, i)) = Lands(First(q, i)) BY DEF Starts, Then
  <2>3. Starts(<<q, "false", i>>) = IF i < prog[q].guards THEN Event(q, i + 1)
                                    ELSE Lands(First(q, i + 1))
    BY DEF Starts
  <2>4. QED BY <1>2, <1>3, <1>7, <2>1, <2>2, <2>3 DEF FalseBlock
<1>8. CASE prog[q].kind = "loop"
  <2>1. PICK e : e = Event(q, 1)
    OBVIOUS
  <2>2. Allowed(e) /\ ~Ada!IsTest(e) /\ ~Ada!IsFinal(e)
    BY <1>8, <2>1, StepFacts
  <2>3. Plain(Event(q, 1)) BY <2>1, <2>2 DEF Plain
  <2>4. QED BY <1>2, <1>3, <1>8, <2>3
<1>9. CASE prog[q].kind = "while" BY <1>2, <1>3, <1>9
<1>10. CASE prog[q].kind = "for"
  <2>1. \A n : Allowed(Event(q, n)) /\ ~Ada!IsFinal(Event(q, n))
    BY <1>10, StepFacts
  <2>2. Ada!IsTest(Event(q, 1)) /\ Ada!IsTest(Event(q, 2)) /\ ~Ada!IsTest(Event(q, 3))
    BY <1>1, <1>10 DEF Ada!IsTest
  <2>3. Plain(Event(q, 3)) BY <2>1, <2>2 DEF Plain
  <2>4. QED BY <1>2, <1>3, <1>10, <2>1, <2>2, <2>3
<1>11. QED BY <1>4, <1>5, <1>6, <1>7, <1>8, <1>9, <1>10

LEMMA DueAtStart ==
  ASSUME NEW s
  PROVE  Due(s, <<>>, s)
<1>1. Leads(s, <<>>, [i \in {0} |-> s]) BY DEF Leads
<1>2. QED BY <1>1 DEF Due

(* One more operation: silent, or the step due.                            *)
LEMMA DueOn ==
  ASSUME NEW s, NEW code \in Seq(Events), NEW d, Due(s, code, d), NEW e \in Events
  PROVE  /\ e = Silent => Due(s, Append(code, e), d)
         /\ e = d /\ Plain(d) => Due(s, Append(code, e), Follows(d, TRUE))
<1>1. PICK n \in Nat : n = Len(code)
  OBVIOUS
<1>2. PICK due : Leads(s, code, due) /\ due[n] = d BY <1>1 DEF Due
<1>3. PICK c : c = Append(code, e)
  OBVIOUS
<1>4. /\ Len(c) = n + 1 /\ c[n + 1] = e
      /\ \A i \in 1..n : c[i] = code[i]
  BY <1>1, <1>3, AppendProperties
<1>5. ASSUME NEW x, IF e = Silent THEN x = d ELSE e = d /\ Plain(e) /\ x = Follows(e, TRUE)
      PROVE  Due(s, c, x)
  <2> DEFINE more == [i \in 0..(n + 1) |-> IF i = n + 1 THEN x ELSE due[i]]
  <2>1. /\ more[n + 1] = x
        /\ \A i \in 0..n : more[i] = due[i]
    <3>1. n + 1 \in 0..(n + 1) /\ \A i \in 0..n : i \in 0..(n + 1) /\ i # n + 1
      OBVIOUS
    <3>2. QED BY <3>1
  <2> HIDE DEF more
  <2>2. more[0] = s
    <3>1. 0 \in 0..n
      OBVIOUS
    <3>2. QED BY <1>2, <2>1, <3>1 DEF Leads
  <2>3. ASSUME NEW i \in 1..(n + 1)
        PROVE  IF c[i] = Silent THEN more[i] = more[i - 1]
               ELSE c[i] = more[i - 1] /\ Plain(c[i]) /\ more[i] = Follows(c[i], TRUE)
    <3>1. CASE i = n + 1
      <4>1. i - 1 = n /\ n \in 0..n BY <3>1
      <4>2. c[i] = e /\ more[i] = x /\ more[i - 1] = d
        BY <1>2, <1>4, <2>1, <3>1, <4>1
      <4>3. QED BY <1>5, <4>2
    <3>2. CASE i # n + 1
      <4>1. i \in 1..n /\ i \in 0..n /\ i - 1 \in 0..n BY <3>2
      <4>2. c[i] = code[i] /\ more[i] = due[i] /\ more[i - 1] = due[i - 1]
        BY <1>4, <2>1, <4>1
      <4>3. IF code[i] = Silent THEN due[i] = due[i - 1]
            ELSE code[i] = due[i - 1] /\ Plain(code[i]) /\ due[i] = Follows(code[i], TRUE)
        BY <1>1, <1>2, <4>1 DEF Leads
      <4>4. QED BY <4>2, <4>3
    <3>3. QED BY <3>1, <3>2
  <2>4. Leads(s, c, more) BY <1>4, <2>2, <2>3 DEF Leads
  <2>5. QED BY <1>4, <2>1, <2>4 DEF Due
<1>6. e = Silent => Due(s, c, d) BY <1>5
<1>7. e = d /\ Plain(d) => Due(s, c, Follows(d, TRUE))
  BY <1>5 DEF Plain, Allowed
<1>8. QED BY <1>3, <1>6, <1>7

-----------------------------------------------------------------------------
(* The loops around the position, by the loop stack and by the program *)

LEMMA EnclosingAre ==
  ASSUME DescentInv
  PROVE  /\ Enclosing(pos) = {Owner(i) : i \in 1..Depth}
         /\ \A k \in 1..Depth : Enclosing(Owner(k)) = {Owner(i) : i \in 1..(k - 1)}
<1>1. Depth \in Nat /\ Len(pos) = 2 * Depth + 1 BY PositionFacts DEF DescentInv
<1>2. Enclosing(pos) = {Owner(i) : i \in 1..Depth}
  <2>1. Len(pos) - 2 = 2 * Depth - 1 BY <1>1
  <2>2. {k \in 1..(Len(pos) - 2) : k % 2 = 1} = {2 * i - 1 : i \in 1..Depth}
    BY <1>1, <2>1, OddHeads
  <2>3. Enclosing(pos) = {SubSeq(pos, 1, n) : n \in {2 * i - 1 : i \in 1..Depth}}
    BY <2>2 DEF Enclosing
  <2>4. QED BY <2>3 DEF Owner
<1>3. ASSUME NEW k \in 1..Depth PROVE Enclosing(Owner(k)) = {Owner(i) : i \in 1..(k - 1)}
  <2>1. PICK d \in Nat : d = k - 1 BY <1>1
  <2>2. PICK q : q = Owner(k)
    OBVIOUS
  <2>3. Len(q) - 2 = 2 * d - 1
    <3>1. Len(q) = 2 * k - 1 BY <2>2, PositionFacts
    <3>2. QED BY <2>1, <3>1
  <2>4. {m \in 1..(Len(q) - 2) : m % 2 = 1} = {2 * i - 1 : i \in 1..d}
    BY <2>3, OddHeads
  <2>5. Enclosing(q) = {SubSeq(q, 1, n) : n \in {2 * i - 1 : i \in 1..d}}
    BY <2>4 DEF Enclosing
  <2>6. \A i \in 1..d : SubSeq(q, 1, 2 * i - 1) = Owner(i)
    <3> TAKE i \in 1..d
    <3>1. i \in 1..k BY <2>1
    <3>2. QED BY <2>2, <3>1, OwnerWithin
  <2>7. Enclosing(q) = {SubSeq(q, 1, 2 * i - 1) : i \in 1..d} BY <2>5
  <2>8. QED BY <2>1, <2>2, <2>6, <2>7
<1>4. QED BY <1>2, <1>3

(* Of some of the statements around, the innermost is the last.            *)
LEMMA InnermostOwner ==
  ASSUME DescentInv, NEW S, S \subseteq {Owner(i) : i \in 1..Depth},
         NEW b \in 1..Depth, Owner(b) \in S,
         \A i \in 1..Depth : Owner(i) \in S => i <= b
  PROVE  Innermost(S) = Owner(b)
<1>1. \A i \in 1..Depth : Len(Owner(i)) = 2 * i - 1 BY PositionFacts
<1>2. \A r \in S : Len(r) <= Len(Owner(b))
  <2> TAKE r \in S
  <2>1. PICK i \in 1..Depth : r = Owner(i)
    OBVIOUS
  <2>2. i <= b /\ Len(r) = 2 * i - 1 /\ Len(Owner(b)) = 2 * b - 1 BY <1>1, <2>1
  <2>3. 2 * i - 1 <= 2 * b - 1 BY <2>2
  <2>4. QED BY <2>2, <2>3
<1>3. ASSUME NEW q \in S, \A r \in S : Len(r) <= Len(q)
      PROVE  q = Owner(b)
  <2>1. PICK i \in 1..Depth : q = Owner(i)
    OBVIOUS
  <2>2. Len(Owner(b)) <= Len(q) BY <1>3
  <2>3. 2 * b - 1 <= 2 * i - 1 /\ i <= b BY <1>1, <2>1, <2>2
  <2>4. i = b BY <2>3
  <2>5. QED BY <2>1, <2>4
<1>4. QED BY <1>2, <1>3 DEF Innermost

(* The body around the k outermost statements' inside.                     *)
BodyAt(b, k) ==
  /\ b \in 1..k /\ prog[Owner(b)].kind = "subp"
  /\ \A i \in 1..k : prog[Owner(i)].kind = "subp" => i <= b

LEMMA BodyExists ==
  ASSUME DescentInv, NEW k \in 1..Depth
  PROVE  /\ \E b : BodyAt(b, k)
         /\ \A b : BodyAt(b, k) =>
              Innermost({Owner(i) : i \in 1..k} \intersect Subps(prog)) = Owner(b)
<1>1. Depth \in Nat /\ prog \in Programs /\ k \in Nat /\ 1 \in 1..k /\ 1 \in 1..Depth
  BY PositionFacts DEF DescentInv
<1>2. prog[Owner(1)].kind = "subp"
  <2>1. Owner(1) \in DOMAIN prog /\ Len(Owner(1)) = 2 * 1 - 1
    BY <1>1, PositionFacts
  <2>2. 2 * 1 - 1 = 1
    OBVIOUS
  <2>3. QED BY <1>1, <2>1, <2>2, ProgramFacts
<1> DEFINE T == {i \in 1..k : prog[Owner(i)].kind = "subp"}
<1>3. T \in SUBSET (0..k) /\ 1 \in T BY <1>1, <1>2
<1>4. PICK b \in T : \A i \in T : i <= b BY <1>1, <1>3, Greatest
<1>5. BodyAt(b, k) BY <1>4 DEF BodyAt
<1>6. ASSUME NEW c, BodyAt(c, k)
      PROVE  Innermost({Owner(i) : i \in 1..k} \intersect Subps(prog)) = Owner(c)
  <2>1. PICK S : S = {Owner(i) : i \in 1..k} \intersect Subps(prog)
    OBVIOUS
  <2>2. c \in 1..k /\ 1..k \subseteq 1..Depth BY <1>1, <1>6 DEF BodyAt
  <2>3. \A i \in 1..Depth : Owner(i) \in DOMAIN prog BY PositionFacts
  <2>4. S \subseteq {Owner(i) : i \in 1..Depth} BY <2>1, <2>2
  <2>5. Owner(c) \in S BY <1>6, <2>1, <2>2, <2>3 DEF BodyAt, Subps
  <2>6. ASSUME NEW i \in 1..Depth, Owner(i) \in S PROVE i <= c
    <3>1. PICK j \in 1..k : Owner(i) = Owner(j) /\ prog[Owner(j)].kind = "subp"
      BY <2>1, <2>6 DEF Subps
    <3>2. i = j BY <2>2, <3>1, OwnersDiffer
    <3>3. QED BY <1>6, <3>1, <3>2 DEF BodyAt
  <2>7. QED BY <2>1, <2>2, <2>4, <2>5, <2>6, InnermostOwner
<1>7. QED BY <1>5, <1>6

(* The loops of the k outermost statements around an exit may leave, for   *)
(* being in the same body.                                                 *)
InBody(k, i) ==
  /\ k \in 1..i /\ prog[Owner(k)].kind \in LoopKinds
  /\ \A m \in k..i : prog[Owner(m)].kind # "subp"
LoopRecord(q) == [merge |-> Merge(q), name |-> prog[q].name]
Stack(i) == IF i = 0 THEN <<>> ELSE LoopsIn(i)

(* A loop stack that holds just those, outermost first: f has their places. *)
ListedBy(f, s, i) ==
  /\ \A j \in 1..Len(s) : InBody(f[j], i) /\ s[j] = LoopRecord(Owner(f[j]))
  /\ \A j, k \in 1..Len(s) : j < k => f[j] < f[k]
  /\ \A k : InBody(k, i) => \E j \in 1..Len(s) : f[j] = k
Lists(s, i) == \E f : ListedBy(f, s, i)

LEMMA ListsOn ==
  ASSUME DescentInv, LoopsInv, NEW h \in Nat, NEW i \in 1..Depth, i = h + 1, Lists(Stack(h), h)
  PROVE  Lists(Stack(i), i)
<1>1. frames[i].loops = Stack(h) /\ i \in Nat /\ Depth \in Nat
  <2>1. frames[i].loops = IF i = 1 THEN <<>> ELSE LoopsIn(i - 1)
    BY DEF LoopsInv
  <2>2. (i = 1 <=> h = 0) /\ i - 1 = h
    OBVIOUS
  <2>3. QED BY <2>1, <2>2, PositionFacts DEF Stack
<1>2. PICK s \in Seq(LoopRecords) : s = Stack(h)
  <2>1. frames[i] \in Frames BY DEF DescentInv, Depth
  <2>2. QED BY <1>1, <2>1 DEF Frames
<1>3. Stack(i) = CASE prog[Owner(i)].kind \in LoopKinds -> Append(s, LoopRecord(Owner(i)))
                   [] prog[Owner(i)].kind = "subp" -> <<>>
                   [] OTHER -> s
  BY <1>1, <1>2 DEF Stack, LoopsIn, LoopRecord
<1>4. PICK f : ListedBy(f, s, h) BY <1>2 DEF Lists
<1>5. PICK n \in Nat : n = Len(s) BY <1>2
<1>6. ASSUME prog[Owner(i)].kind # "subp"
      PROVE  \A k : InBody(k, i) <=> InBody(k, h) \/ (k = i /\ prog[Owner(i)].kind \in LoopKinds)
  <2>1. ASSUME NEW k, InBody(k, i), k # i PROVE InBody(k, h)
    <3>1. k \in 1..h /\ k..h \subseteq k..i BY <2>1 DEF InBody
    <3>2. QED BY <2>1, <3>1 DEF InBody
  <2>2. ASSUME NEW k, InBody(k, h) PROVE InBody(k, i)
    <3>1. k \in 1..i /\ \A m \in k..i : m \in k..h \/ m = i BY <2>2 DEF InBody
    <3>2. QED BY <1>6, <2>2, <3>1 DEF InBody
  <2>3. prog[Owner(i)].kind \in LoopKinds => InBody(i, i)
    <3>1. i \in 1..i /\ \A m \in i..i : m = i BY <1>1
    <3>2. QED BY <1>6, <3>1 DEF InBody
  <2>4. \A k : InBody(k, i) /\ k = i => prog[Owner(i)].kind \in LoopKinds
    BY DEF InBody
  <2>5. QED BY <2>1, <2>2, <2>3, <2>4
<1>7. CASE prog[Owner(i)].kind \in LoopKinds
  <2>0. prog[Owner(i)].kind # "subp" BY <1>7 DEF LoopKinds
  <2>1. PICK r : r = LoopRecord(Owner(i))
    OBVIOUS
  <2>2. PICK t : t = Append(s, r)
    OBVIOUS
  <2>3. /\ t = Stack(i) /\ Len(t) = n + 1 /\ t[n + 1] = r /\ \A j \in 1..n : t[j] = s[j]
    <3>1. r \in LoopRecords
      <4>1. Owner(i) \in DOMAIN prog BY PositionFacts
      <4>2. QED
        BY <1>7, <2>1, <4>1 DEF LoopRecord, LoopRecords, Names, Merge, Block, Roles
    <3>2. Len(t) = n + 1 /\ t[n + 1] = r /\ \A j \in 1..n : t[j] = s[j]
      BY <1>5, <2>2, <3>1, AppendProperties
    <3>3. t = Stack(i) BY <1>3, <1>7, <2>0, <2>1, <2>2
    <3>4. QED BY <3>2, <3>3
  <2> DEFINE g == [j \in 1..(n + 1) |-> IF j = n + 1 THEN i ELSE f[j]]
  <2>4. g[n + 1] = i /\ \A j \in 1..n : g[j] = f[j]
    <3>1. n + 1 \in 1..(n + 1) /\ \A j \in 1..n : j \in 1..(n + 1) /\ j # n + 1
      OBVIOUS
    <3>2. QED BY <3>1
  <2> HIDE DEF g
  <2>5. \A j \in 1..(n + 1) : j = n + 1 \/ j \in 1..n
    OBVIOUS
  <2>6. \A j \in 1..(n + 1) : InBody(g[j], i) /\ t[j] = LoopRecord(Owner(g[j]))
    <3> TAKE j \in 1..(n + 1)
    <3>1. CASE j = n + 1 BY <1>6, <1>7, <2>0, <2>1, <2>3, <2>4, <3>1
    <3>2. CASE j \in 1..n
      <4>1. InBody(f[j], h) /\ s[j] = LoopRecord(Owner(f[j]))
        BY <1>4, <1>5, <3>2 DEF ListedBy
      <4>2. QED BY <1>6, <2>0, <2>3, <2>4, <3>2, <4>1
    <3>3. QED BY <2>5, <3>1, <3>2
  <2>7. \A j, k \in 1..(n + 1) : j < k => g[j] < g[k]
    <3> SUFFICES ASSUME NEW j \in 1..(n + 1), NEW k \in 1..(n + 1), j < k PROVE g[j] < g[k]
      OBVIOUS
    <3>1. j \in 1..n
      OBVIOUS
    <3>2. CASE k = n + 1
      <4>1. f[j] \in 1..h BY <1>4, <1>5, <3>1 DEF ListedBy, InBody
      <4>2. f[j] < i BY <4>1
      <4>3. QED BY <2>4, <3>1, <3>2, <4>2
    <3>3. CASE k \in 1..n
      <4>1. f[j] < f[k] BY <1>4, <1>5, <3>1, <3>3 DEF ListedBy
      <4>2. QED BY <2>4, <3>1, <3>3, <4>1
    <3>4. QED BY <2>5, <3>2, <3>3
  <2>8. \A k : InBody(k, i) => \E j \in 1..(n + 1) : g[j] = k
    <3> SUFFICES ASSUME NEW k, InBody(k, i) PROVE \E j \in 1..(n + 1) : g[j] = k
      OBVIOUS
    <3>1. n + 1 \in 1..(n + 1) /\ 1..n \subseteq 1..(n + 1)
      OBVIOUS
    <3>2. CASE k = i BY <2>4, <3>1, <3>2
    <3>3. CASE InBody(k, h)
      <4>1. PICK j \in 1..n : f[j] = k BY <1>4, <1>5, <3>3 DEF ListedBy
      <4>2. QED BY <2>4, <3>1, <4>1
    <3>4. QED BY <1>6, <2>0, <3>2, <3>3
  <2>9. ListedBy(g, t, i) BY <2>3, <2>6, <2>7, <2>8 DEF ListedBy
  <2>10. QED BY <2>3, <2>9 DEF Lists
<1>8. CASE prog[Owner(i)].kind = "subp"
  <2>1. Stack(i) = <<>> BY <1>3, <1>8 DEF LoopKinds
  <2>2. \A k : ~InBody(k, i)
    <3> SUFFICES ASSUME NEW k, InBody(k, i) PROVE FALSE
      OBVIOUS
    <3>1. i \in k..i BY <1>1 DEF InBody
    <3>2. QED BY <1>8, <3>1 DEF InBody
  <2>3. PICK t : t = Stack(i)
    OBVIOUS
  <2>4. 1..Len(t) = {} BY <2>1, <2>3
  <2>5. ListedBy(f, t, i) BY <2>2, <2>4 DEF ListedBy
  <2>6. QED BY <2>3, <2>5 DEF Lists
<1>9. CASE prog[Owner(i)].kind \notin LoopKinds \union {"subp"}
  <2>1. Stack(i) = s BY <1>3, <1>9
  <2>2. \A k : InBody(k, i) <=> InBody(k, h) BY <1>6, <1>9
  <2>3. ListedBy(f, s, i) BY <1>4, <2>2 DEF ListedBy
  <2>4. QED BY <2>1, <2>3 DEF Lists
<1>10. QED BY <1>7, <1>8, <1>9

(* What mlirGenExit looks through is what Ada lets an exit leave.          *)
LEMMA LoopsListed ==
  ASSUME DescentInv, LoopsInv
  PROVE  Lists(loops, Depth)
<1>1. Depth \in Nat BY PositionFacts
<1>2. Lists(Stack(0), 0)
  <2>1. Stack(0) = <<>> BY DEF Stack
  <2>2. \A k : ~InBody(k, 0) BY DEF InBody
  <2>3. PICK t : t = Stack(0)
    OBVIOUS
  <2>4. 1..Len(t) = {} BY <2>1, <2>3
  <2>5. ListedBy(t, t, 0) BY <2>2, <2>4 DEF ListedBy
  <2>6. QED BY <2>3, <2>5 DEF Lists
<1> DEFINE T == {i \in 0..Depth : ~Lists(Stack(i), i)}
<1>3. T = {}
  <2> SUFFICES ASSUME T # {} PROVE FALSE
    OBVIOUS
  <2>1. T \in SUBSET Nat BY <1>1
  <2>2. PICK i \in T : \A j \in T : i <= j BY <2>1, LeastNat
  <2>3. i # 0 /\ i \in 0..Depth /\ ~Lists(Stack(i), i) BY <1>2, <2>2
  <2>4. PICK h \in Nat : i = h + 1
    <3>1. i - 1 \in Nat /\ i = (i - 1) + 1 BY <1>1, <2>3
    <3>2. QED BY <3>1
  <2>5. h \in 0..Depth /\ i \in 1..Depth /\ ~(i <= h) BY <1>1, <2>3, <2>4
  <2>6. Lists(Stack(h), h) BY <2>2, <2>5
  <2>7. Lists(Stack(i), i) BY <2>4, <2>5, <2>6, ListsOn
  <2>8. QED BY <2>3, <2>7
<1>4. Lists(Stack(Depth), Depth)
  <2>1. Depth \in 0..Depth BY <1>1
  <2>2. QED BY <1>3, <2>1
<1>5. loops = Stack(Depth) BY DEF LoopsInv, Stack
<1>6. QED BY <1>4, <1>5

(* The loops around the position an exit there may leave.                  *)
LEMMA ExitableAre ==
  ASSUME DescentInv, Depth > 0, NEW k \in 1..Depth
  PROVE  Owner(k) \in ExitableLoops(prog, pos)
           <=> InBody(k, Depth) /\ prog[pos].name \in {Unnamed, prog[Owner(k)].name}
<1>1. Depth \in Nat /\ Depth \in 1..Depth /\ prog \in Programs
  BY PositionFacts DEF DescentInv
<1>2. PICK b : BodyAt(b, Depth) BY <1>1, BodyExists
<1>3. b \in 1..Depth /\ prog[Owner(b)].kind = "subp"
      /\ \A i \in 1..Depth : prog[Owner(i)].kind = "subp" => i <= b
  BY <1>2 DEF BodyAt
<1>4. EnclosingSubpBody(prog, pos) = Owner(b)
  <2>1. Enclosing(pos) = {Owner(i) : i \in 1..Depth} BY EnclosingAre
  <2>2. QED BY <1>1, <1>2, <2>1, BodyExists DEF EnclosingSubpBody
<1>5. Owner(k) \in Enclosing(pos) BY EnclosingAre
<1>6. ASSUME prog[Owner(k)].kind \in LoopKinds
      PROVE  EnclosingSubpBody(prog, Owner(k)) = EnclosingSubpBody(prog, pos)
               <=> \A m \in k..Depth : prog[Owner(m)].kind # "subp"
  <2>1. k # 1
    <3> SUFFICES ASSUME k = 1 PROVE FALSE
      OBVIOUS
    <3>1. Owner(k) \in DOMAIN prog /\ Len(Owner(k)) = 2 * k - 1
      BY PositionFacts
    <3>2. 2 * 1 - 1 = 1
      OBVIOUS
    <3>3. Owner(k) = Top BY <1>1, <3>1, <3>2, ProgramFacts
    <3>4. QED BY <1>1, <1>6, <3>3, ProgramFacts DEF LoopKinds
  <2>2. PICK h \in 1..Depth : h = k - 1
    <3>1. k - 1 \in 1..Depth BY <1>1, <2>1
    <3>2. QED BY <3>1
  <2>3. PICK c : BodyAt(c, h) BY BodyExists
  <2>4. c \in 1..h /\ c \in 1..Depth /\ prog[Owner(c)].kind = "subp"
        /\ \A i \in 1..h : prog[Owner(i)].kind = "subp" => i <= c
    BY <1>1, <2>3 DEF BodyAt
  <2>5. EnclosingSubpBody(prog, Owner(k)) = Owner(c)
    <3>1. Enclosing(Owner(k)) = {Owner(i) : i \in 1..h} BY <2>2, EnclosingAre
    <3>2. QED BY <2>3, <3>1, BodyExists DEF EnclosingSubpBody
  <2>6. Owner(c) = Owner(b) <=> c = b BY <1>3, <2>4, OwnersDiffer
  <2>7. ASSUME c = b, NEW m \in k..Depth PROVE prog[Owner(m)].kind # "subp"
    <3>1. m \in 1..Depth /\ ~(m <= c) BY <2>2, <2>4
    <3>2. QED BY <1>3, <2>7, <3>1
  <2>8. ASSUME \A m \in k..Depth : prog[Owner(m)].kind # "subp" PROVE c = b
    <3>1. b \in 1..h BY <1>3, <2>2, <2>8
    <3>2. b <= c /\ c <= b BY <1>3, <2>4, <3>1
    <3>3. QED BY <1>3, <2>4, <3>2
  <2>9. QED BY <1>4, <2>5, <2>6, <2>7, <2>8
<1>7. InBody(k, Depth) <=> /\ prog[Owner(k)].kind \in LoopKinds
                           /\ \A m \in k..Depth : prog[Owner(m)].kind # "subp"
  BY DEF InBody
<1>8. Owner(k) \in ExitableLoops(prog, pos) <=>
        /\ prog[Owner(k)].kind \in LoopKinds
        /\ EnclosingSubpBody(prog, Owner(k)) = EnclosingSubpBody(prog, pos)
        /\ prog[pos].name \in {Unnamed, prog[Owner(k)].name}
  BY <1>5 DEF ExitableLoops
<1>9. QED BY <1>6, <1>7, <1>8

(* The loop stack offers an exit a loop when Ada does, and the same one.   *)
LEMMA ExitMeets ==
  ASSUME DescentInv, LoopsInv, Depth > 0
  PROVE  /\ Targets = {} <=> ExitableLoops(prog, pos) = {}
         /\ Targets # {} =>
              Starts(ExitTarget) = Lands(After(Innermost(ExitableLoops(prog, pos))))
<1>1. PICK f : ListedBy(f, loops, Depth) BY LoopsListed DEF Lists
<1>2. Depth \in Nat /\ loops \in Seq(LoopRecords) /\ Len(loops) \in Nat
  BY PositionFacts, LoopsFacts
<1>3. PICK S : S = ExitableLoops(prog, pos)
  OBVIOUS
<1>4. S \subseteq {Owner(i) : i \in 1..Depth}
  BY <1>3, EnclosingAre DEF ExitableLoops
<1>5. ASSUME NEW j \in 1..Len(loops)
      PROVE  /\ f[j] \in 1..Depth
             /\ loops[j].merge = Merge(Owner(f[j]))
             /\ j \in Targets <=> Owner(f[j]) \in S
  <2>1. InBody(f[j], Depth) /\ loops[j] = LoopRecord(Owner(f[j]))
    BY <1>1 DEF ListedBy
  <2>2. f[j] \in 1..Depth BY <2>1 DEF InBody
  <2>3. loops[j].merge = Merge(Owner(f[j])) /\ loops[j].name = prog[Owner(f[j])].name
    BY <2>1 DEF LoopRecord
  <2>4. j \in Targets <=> prog[pos].name \in {Unnamed, prog[Owner(f[j])].name}
    BY <1>2, <2>3 DEF Targets, Stmt
  <2>5. Owner(f[j]) \in S
          <=> InBody(f[j], Depth) /\ prog[pos].name \in {Unnamed, prog[Owner(f[j])].name}
    BY <1>3, <2>2, ExitableAre
  <2>6. QED BY <2>1, <2>2, <2>3, <2>4, <2>5
<1>6. ASSUME NEW k \in 1..Depth, Owner(k) \in S PROVE \E j \in Targets : f[j] = k
  <2>1. InBody(k, Depth) BY <1>3, <1>6, ExitableAre
  <2>2. PICK j \in 1..Len(loops) : f[j] = k BY <1>1, <2>1 DEF ListedBy
  <2>3. QED BY <1>5, <1>6, <2>2
<1>7. Targets \subseteq 1..Len(loops) BY <1>2 DEF Targets
<1>8. Targets = {} <=> S = {} BY <1>4, <1>5, <1>6, <1>7
<1>9. ASSUME Targets # {} PROVE Starts(ExitTarget) = Lands(After(Innermost(S)))
  <2>1. Targets \in SUBSET (0..Len(loops)) BY <1>2, <1>7
  <2>2. \E i \in Targets : \A j \in Targets : j <= i
    BY <1>2, <1>9, <2>1, Greatest
  <2>3. PICK t : t = CHOOSE i \in Targets : \A j \in Targets : j <= i
    OBVIOUS
  <2>4. t \in Targets /\ \A j \in Targets : j <= t BY <2>2, <2>3
  <2>5. PICK b \in 1..Depth : b = f[t] BY <1>5, <1>7, <2>4
  <2>6. ExitTarget = Merge(Owner(b)) /\ Owner(b) \in S
    BY <1>5, <1>7, <2>3, <2>4, <2>5 DEF ExitTarget
  <2>7. ASSUME NEW i \in 1..Depth, Owner(i) \in S PROVE i <= b
    <3>1. PICK j \in Targets : f[j] = i BY <1>6, <2>7
    <3>2. j \in 1..Len(loops) /\ t \in 1..Len(loops) /\ j <= t
      BY <1>7, <2>4, <3>1
    <3>3. CASE j = t BY <2>5, <3>1, <3>3
    <3>4. CASE j # t
      <4>1. j < t BY <3>2, <3>4
      <4>2. f[j] < f[t] BY <1>1, <3>2, <4>1 DEF ListedBy
      <4>3. QED BY <2>5, <3>1, <4>2
    <3>5. QED BY <3>3, <3>4
  <2>8. Innermost(S) = Owner(b) BY <1>4, <2>6, <2>7, InnermostOwner
  <2>9. Starts(Merge(Owner(b))) = Lands(After(Owner(b)))
    BY DEF Starts, Merge, Block
  <2>10. QED BY <2>6, <2>8, <2>9
<1>10. QED BY <1>3, <1>8, <1>9

-----------------------------------------------------------------------------
(* What is emitted does what is due *)

DueIn(B, b, e) == ~Terminated(B, b) => Due(Starts(b), B[b].code, e)
Blank(B, b) == B[b].code = <<>> /\ ~Terminated(B, b)
Within(q, r) == Len(q) <= Len(r) /\ \A j \in 1..Len(q) : r[j] = q[j]

(* Every block emitted does what is due, and ends so.                      *)
CodeInv == \A b \in DOMAIN blocks : Flows(b, blocks[b])

(* Emission goes on with what is due there, and after a nested body with   *)
(* what is due behind it.                                                  *)
CursorInv ==
  /\ Depth > 0 => DueIn(blocks, insert, Lands(pos))
  /\ \A i \in 2..Depth :
       prog[Owner(i)].kind = "subp" => DueIn(blocks, frames[i].block, Lands(Owner(i)))

(* Nothing is yet in the blocks emission has still to come to.             *)
FreshInv ==
  /\ \A i \in 1..Depth : \A b \in Ahead(Owner(i), PartOf(i)) : blocks[b].code = <<>>
  /\ \A b \in DOMAIN blocks : b[2] = "label" => Precedes(b[1], pos) \/ Blank(blocks, b)

(* While a nested body is emitted, emission stays in it.                   *)
HomeInv ==
  \A i \in 1..Depth :
    prog[Owner(i)].kind = "subp" =>
      /\ Within(Owner(i), insert[1])
      /\ \A j \in (i + 1)..Depth : Within(Owner(i), frames[j].block[1])

(* Where emission goes on when a merge block is erased is ended by then.   *)
ClosedInv ==
  \A i \in 1..Depth :
    /\ prog[Owner(i)].kind = "if" => Terminated(blocks, frames[i].block)
    /\ prog[Owner(i)].kind \in {"loop", "while"} =>
         \/ Terminated(blocks, Body(Owner(i)))
         \/ insert = Body(Owner(i))
         \/ \E j \in (i + 1)..Depth :
              prog[Owner(j)].kind = "subp" /\ frames[j].block = Body(Owner(i))

FlowInv == CodeInv /\ CursorInv /\ FreshInv /\ HomeInv /\ ClosedInv

LEMMA FlowsPrimed ==
  ASSUME prog' = prog
  PROVE  /\ \A b : Flows(b, blocks[b])' <=> Flows(b, blocks'[b])
         /\ DueIn(blocks, insert, Lands(pos))' <=> DueIn(blocks', insert', Lands(pos'))
         /\ \A i : DueIn(blocks, frames[i].block, Lands(Owner(i)))'
                     <=> DueIn(blocks', frames'[i].block, Lands(Owner(i)'))
<1>1. \A q : Lands(q)' = Lands(q) BY FollowsKept
<1>2. ASSUME NEW b PROVE Flows(b, blocks[b])' <=> Flows(b, blocks'[b])
  <2>1. PICK node : node = blocks'[b]
    OBVIOUS
  <2>2. Flows(b, node)' <=> Flows(b, node) BY FlowsKept
  <2>3. Flows(b, blocks[b])' <=> Flows(b, node)' BY <2>1
  <2>4. QED BY <2>1, <2>2, <2>3
<1>3. ASSUME NEW b, NEW e PROVE DueIn(blocks, b, e)' <=> DueIn(blocks', b, e)
  <2>1. PICK s : s = Starts(b)
    OBVIOUS
  <2>2. Starts(b)' = s BY <2>1, FlowsKept
  <2>3. PICK code : code = blocks'[b].code
    OBVIOUS
  <2>4. Due(s, code, e)' <=> Due(s, code, e) BY FlowsKept
  <2>5. Due(Starts(b), blocks[b].code, e)' <=> Due(s, code, e)' BY <2>2, <2>3
  <2>6. Terminated(blocks, b)' <=> Terminated(blocks', b)
    BY DEF Terminated, Open, Silent, Ada!Idle, Ada!Event
  <2>7. QED BY <2>1, <2>3, <2>4, <2>5, <2>6 DEF DueIn
<1>4. DueIn(blocks, insert, Lands(pos))' <=> DueIn(blocks', insert', Lands(pos'))
  <2>1. PICK b : b = insert'
    OBVIOUS
  <2>2. PICK q : q = pos'
    OBVIOUS
  <2>3. PICK e : e = Lands(q)
    OBVIOUS
  <2>4. Lands(pos)' = e BY <1>1, <2>2, <2>3
  <2>5. DueIn(blocks, insert, Lands(pos))' <=> DueIn(blocks, b, e)'
    BY <2>1, <2>4
  <2>6. QED BY <1>3, <2>1, <2>2, <2>3, <2>5
<1>5. ASSUME NEW i
      PROVE  DueIn(blocks, frames[i].block, Lands(Owner(i)))'
               <=> DueIn(blocks', frames'[i].block, Lands(Owner(i)'))
  <2>1. PICK b : b = frames'[i].block
    OBVIOUS
  <2>2. PICK q : q = Owner(i)'
    OBVIOUS
  <2>3. PICK e : e = Lands(q)
    OBVIOUS
  <2>4. Lands(Owner(i))' = e BY <1>1, <2>2, <2>3
  <2>5. DueIn(blocks, frames[i].block, Lands(Owner(i)))' <=> DueIn(blocks, b, e)'
    BY <2>1, <2>4
  <2>6. QED BY <1>3, <2>1, <2>2, <2>3, <2>5
<1>6. QED BY <1>2, <1>4, <1>5

(* How a step that leaves n of the statements around, and comes to d of    *)
(* them, treats the flow: but the block inserted into, and those of the    *)
(* statement left, it keeps what is there; what it changes or makes flows. *)
Same(b) == b \in DOMAIN blocks' /\ blocks'[b] = blocks[b]

OpensFlow(n, d) ==
  LET q == Owner(d)'
      b == frames'[d].block
  IN  /\ \A c \in Ahead(q, PartOf(d)') : blocks'[c].code = <<>>
      /\ prog[q].kind = "subp" =>
           /\ insert'[1] = q /\ b = insert
           /\ d > 1 => DueIn(blocks', b, Lands(q))
      /\ prog[q].kind = "if" => Terminated(blocks', b)
      /\ prog[q].kind \in {"loop", "while"} => insert' = Body(q)
      /\ b = insert \/ (n < Depth /\ d = Depth /\ frames'[d] = frames[d])

Continues(n, d) ==
  /\ Moved(n, d) /\ d <= n + 1 /\ Depth <= n + 1
  /\ \A b \in DOMAIN blocks :
       /\ Same(b) \/ b = insert \/ (n < Depth /\ b[1] = Owner(Depth) /\ b[2] # "label")
       /\ Terminated(blocks, b) => b \in DOMAIN blocks' /\ Terminated(blocks', b)
  /\ \A b \in DOMAIN blocks' :
       /\ (b \in DOMAIN blocks /\ Same(b)) \/ Flows(b, blocks'[b])
       /\ b \notin DOMAIN blocks /\ b[2] = "label" => Blank(blocks', b)
  /\ d > 0 => DueIn(blocks', insert', Lands(pos'))
  /\ \/ insert' = insert \/ insert'[1] = pos
     \/ n < Depth /\ (insert'[1] = Owner(Depth) \/ insert' = frames[Depth].block)
  /\ \/ insert' = insert \/ Terminated(blocks', insert)
     \/ d > n /\ prog[Owner(d)'].kind = "subp"
     \/ n < Depth /\ prog[Owner(Depth)].kind = "subp"
  /\ n < Depth /\ prog[Owner(Depth)].kind = "subp" => insert' = frames[Depth].block
  /\ d > n => OpensFlow(n, d)

LEMMA WithinOwner ==
  ASSUME DescentInv, NEW k \in 1..Depth, NEW i \in 1..Depth
  PROVE  /\ i <= k => Within(Owner(i), Owner(k))
         /\ i > k => ~Within(Owner(i), Owner(k))
         /\ Within(Owner(i), pos)
<1>1. /\ Depth \in Nat /\ Len(pos) = 2 * Depth + 1
      /\ Len(Owner(i)) = 2 * i - 1 /\ Len(Owner(k)) = 2 * k - 1
      /\ \A j \in 1..(2 * i - 1) : Owner(i)[j] = pos[j]
      /\ \A j \in 1..(2 * k - 1) : Owner(k)[j] = pos[j]
  BY PositionFacts DEF DescentInv
<1>2. i <= k => 1..(2 * i - 1) \subseteq 1..(2 * k - 1) BY <1>1
<1>3. i > k => ~(2 * i - 1 <= 2 * k - 1) BY <1>1
<1>4. i <= k => 2 * i - 1 <= 2 * k - 1 BY <1>1
<1>5. 2 * i - 1 <= 2 * Depth + 1 BY <1>1
<1>6. QED BY <1>1, <1>2, <1>3, <1>4, <1>5 DEF Within

(* Nothing is inserted into a nested body's own statement.                 *)
LEMMA InsertedApart ==
  ASSUME DescentInv, NEW i \in 1..Depth, NEW b \in Names, Inserted(b, Owner(i))
  PROVE  ~Within(Owner(i), b[1])
<1> SUFFICES ASSUME Within(Owner(i), b[1]) PROVE FALSE
  OBVIOUS
<1>1. b[1] \in DOMAIN prog /\ IsPath(b[1]) /\ IsPath(Owner(i)) /\ b[3] \in Nat
  <2>1. b[1] \in DOMAIN prog /\ b[3] \in Nat BY DEF Names
  <2>2. IsPath(Owner(i)) BY PositionFacts
  <2>3. QED BY <2>1, <2>2, ProgramFacts DEF DescentInv
<1>2. /\ b[1] \in Seq(Nat) /\ Owner(i) \in Seq(Nat)
      /\ Len(b[1]) \in Nat /\ Len(Owner(i)) \in Nat
      /\ \A j \in 1..Len(Owner(i)) : Owner(i)[j] \in Nat
  BY <1>1, PathFacts
<1>3. Begun(Mark(b), Owner(i)) BY DEF Inserted, Begun
<1>4. PICK r \in Seq(Nat) : r = b[1] BY <1>2
<1>5. Mark(b) \in Seq(Nat) /\ Len(Mark(b)) >= Len(r) /\ \A j \in 1..Len(r) : Mark(b)[j] = r[j]
  <2>1. CASE Mark(b) = r BY <1>2, <1>4, <2>1
  <2>2. CASE Mark(b) # r
    <3>1. PICK x \in Nat : x = b[3] BY <1>1
    <3>2. Mark(b) = Append(r, x) BY <1>4, <2>2, <3>1 DEF Mark
    <3>3. /\ Append(r, x) \in Seq(Nat) /\ Len(Append(r, x)) = Len(r) + 1
          /\ \A j \in 1..Len(r) : Append(r, x)[j] = r[j]
      BY AppendProperties
    <3>4. Len(r) + 1 >= Len(r) BY <1>2, <1>4
    <3>5. QED BY <3>2, <3>3, <3>4
  <2>3. QED BY <2>1, <2>2
<1>6. Len(Owner(i)) <= Len(Mark(b)) /\ Len(Mark(b)) \in Nat
      /\ \A j \in 1..Len(Owner(i)) : Mark(b)[j] = Owner(i)[j]
  <2>1. Len(Owner(i)) <= Len(r) /\ \A j \in 1..Len(Owner(i)) : r[j] = Owner(i)[j]
    BY <1>4 DEF Within
  <2>2. 1..Len(Owner(i)) \subseteq 1..Len(r) BY <1>2, <1>4, <2>1
  <2>3. Len(Mark(b)) \in Nat /\ Len(r) \in Nat BY <1>4, <1>5
  <2>4. QED BY <1>2, <1>5, <2>1, <2>2, <2>3
<1>7. CASE Precedes(Mark(b), Owner(i))
  <2>1. PICK k \in 1..Len(Mark(b)) : k <= Len(Owner(i)) /\ Mark(b)[k] < Owner(i)[k]
    BY <1>7 DEF Precedes
  <2>2. k \in 1..Len(Owner(i)) BY <1>2, <1>6, <2>1
  <2>3. PICK x \in Nat : x = Owner(i)[k] BY <1>2, <2>2
  <2>4. Mark(b)[k] = x BY <1>6, <2>2, <2>3
  <2>5. x < x BY <2>1, <2>3, <2>4
  <2>6. QED BY <2>5
<1>8. CASE Surrounds(Mark(b), Owner(i))
  <2>1. PICK x \in Nat : x = Len(Mark(b)) BY <1>6
  <2>2. PICK y \in Nat : y = Len(Owner(i)) BY <1>2
  <2>3. x < y BY <1>8, <2>1, <2>2 DEF Surrounds
  <2>4. y <= x BY <1>6, <2>1, <2>2
  <2>5. QED BY <2>3, <2>4
<1>9. QED BY <1>3, <1>7, <1>8 DEF Begun

(* What a statement that stays around keeps.                               *)
LEMMA StayFacts ==
  ASSUME IInv, FlowInv, NEW n, NEW d, Continues(n, d)
  PROVE  /\ prog' = prog /\ Depth' = d /\ n \in Nat /\ d \in Nat /\ Depth \in Nat
         /\ n <= d /\ n <= Depth /\ d <= n + 1
         /\ \A i \in 1..n :
              /\ i \in 1..Depth /\ i \in 1..d
              /\ Owner(i)' = Owner(i) /\ PartOf(i)' = PartOf(i) /\ frames'[i] = frames[i]
              /\ n < Depth => Owner(i) # Owner(Depth)
         /\ \A i \in 1..d : i > n => i = d
         /\ n < Depth => Depth \in 1..Depth
         /\ Depth > 0 => insert \in DOMAIN blocks /\ Inserted(insert, pos)
<1>1. DescentInv /\ InsertInv BY DEF IInv
<1>2. Depth \in Nat BY <1>1, PositionFacts
<1>3. Moved(n, d) /\ d <= n + 1 BY DEF Continues
<1>4. prog' = prog /\ Depth' = d /\ n \in Nat /\ d \in Nat /\ n <= d /\ n <= Depth
  BY <1>3 DEF Moved
<1>5. \A i \in 1..n : Owner(i)' = Owner(i) /\ PartOf(i)' = PartOf(i) /\ frames'[i] = frames[i]
  BY <1>3 DEF Moved
<1>6. n < Depth => Depth \in 1..Depth BY <1>2, <1>4
<1>7. \A i \in 1..n : i \in 1..Depth /\ i \in 1..d /\ (n < Depth => i # Depth)
  BY <1>2, <1>4
<1>8. \A i \in 1..n : n < Depth => Owner(i) # Owner(Depth)
  BY <1>1, <1>6, <1>7, OwnersDiffer
<1>9. \A i \in 1..d : i > n => i = d BY <1>3, <1>4
<1>10. Depth > 0 => insert \in DOMAIN blocks /\ Inserted(insert, pos)
  BY <1>1 DEF InsertInv
<1>11. QED BY <1>2, <1>3, <1>4, <1>5, <1>6, <1>7, <1>8, <1>9, <1>10

(* Emission goes on after a nested body where it was before it.            *)
LEMMA ReturnKept ==
  ASSUME IInv, FlowInv, NEW n, NEW d, Continues(n, d), NEW i \in 1..n, i # 1,
         prog[Owner(i)].kind = "subp"
  PROVE  frames[i].block \in DOMAIN blocks /\ Same(frames[i].block)
<1>1. /\ i \in 1..Depth /\ Depth > 0 /\ n <= Depth /\ Depth \in Nat
      /\ n < Depth => Depth \in 1..Depth
  BY StayFacts
<1>2. PICK b : b = frames[i].block
  OBVIOUS
<1>3. DescentInv /\ InsertInv /\ BlocksInv BY DEF IInv
<1>4. b \in DOMAIN blocks /\ Inserted(b, Owner(i))
  BY <1>1, <1>2, <1>3 DEF InsertInv
<1>5. b \in Names BY <1>3, <1>4 DEF BlocksInv, Sound
<1>6. ~Within(Owner(i), b[1]) BY <1>1, <1>3, <1>4, <1>5, InsertedApart
<1>7. Within(Owner(i), insert[1]) BY <1>1 DEF FlowInv, HomeInv
<1>8. n < Depth => Within(Owner(i), Owner(Depth)) BY <1>1, <1>3, WithinOwner
<1>9. b # insert /\ ~(n < Depth /\ b[1] = Owner(Depth)) BY <1>6, <1>7, <1>8
<1>10. QED BY <1>2, <1>4, <1>9 DEF Continues

LEMMA CodeCarried ==
  ASSUME IInv, FlowInv, NEW n, NEW d, Continues(n, d)
  PROVE  CodeInv'
<1>1. prog' = prog BY StayFacts
<1>2. ASSUME NEW b \in DOMAIN blocks' PROVE Flows(b, blocks'[b])
  <2>1. CASE b \in DOMAIN blocks /\ Same(b) BY <2>1 DEF FlowInv, CodeInv, Same
  <2>2. CASE ~(b \in DOMAIN blocks /\ Same(b)) BY <2>2 DEF Continues
  <2>3. QED BY <2>1, <2>2
<1>3. \A b : Flows(b, blocks[b])' <=> Flows(b, blocks'[b]) BY <1>1, FlowsPrimed
<1>4. QED BY <1>2, <1>3 DEF CodeInv

LEMMA CursorCarried ==
  ASSUME IInv, FlowInv, NEW n, NEW d, Continues(n, d)
  PROVE  CursorInv'
<1>1. /\ prog' = prog /\ Depth' = d /\ n \in Nat /\ d \in Nat
      /\ \A i \in 1..d : i > n => i = d
  BY StayFacts
<1>2. d > 0 => DueIn(blocks', insert', Lands(pos')) BY DEF Continues
<1>3. ASSUME NEW i \in 2..d, prog[Owner(i)'].kind = "subp"
      PROVE  DueIn(blocks', frames'[i].block, Lands(Owner(i)'))
  <2>1. i \in 1..d /\ i # 1 BY <1>1
  <2>2. CASE i > n
    <3>1. i = d /\ d > n /\ d > 1 BY <1>1, <2>1, <2>2
    <3>2. OpensFlow(n, d) /\ prog[Owner(d)'].kind = "subp"
      BY <1>3, <3>1 DEF Continues
    <3>3. DueIn(blocks', frames'[d].block, Lands(Owner(d)'))
      BY <3>1, <3>2 DEF OpensFlow
    <3>4. QED BY <3>1, <3>3
  <2>3. CASE ~(i > n)
    <3>1. i \in 1..n BY <1>1, <2>1, <2>3
    <3>2. i \in 1..Depth /\ Owner(i)' = Owner(i) /\ frames'[i] = frames[i]
      BY <3>1, StayFacts
    <3>3. PICK q, b : q = Owner(i) /\ b = frames[i].block
      OBVIOUS
    <3>4. prog[q].kind = "subp" /\ i \in 2..Depth BY <1>3, <2>1, <3>2, <3>3
    <3>5. DueIn(blocks, b, Lands(q)) BY <3>3, <3>4 DEF FlowInv, CursorInv
    <3>6. b \in DOMAIN blocks /\ Same(b) BY <2>1, <3>1, <3>3, <3>4, ReturnKept
    <3>7. DueIn(blocks', b, Lands(q)) BY <3>5, <3>6 DEF DueIn, Same, Terminated
    <3>8. QED BY <3>2, <3>3, <3>7
  <2>4. QED BY <2>2, <2>3
<1>4. /\ DueIn(blocks, insert, Lands(pos))' <=> DueIn(blocks', insert', Lands(pos'))
      /\ \A i : DueIn(blocks, frames[i].block, Lands(Owner(i)))'
                  <=> DueIn(blocks', frames'[i].block, Lands(Owner(i)'))
  BY <1>1, FlowsPrimed
<1>5. QED BY <1>1, <1>2, <1>3, <1>4 DEF CursorInv

LEMMA FreshCarried ==
  ASSUME IInv, FlowInv, NEW n, NEW d, Continues(n, d)
  PROVE  FreshInv'
<1>1. /\ prog' = prog /\ Depth' = d /\ n \in Nat /\ d \in Nat
      /\ \A i \in 1..d : i > n => i = d
      /\ Depth > 0 => insert \in DOMAIN blocks /\ Inserted(insert, pos)
  BY StayFacts
<1>2. DescentInv /\ OpenInv /\ InsertInv /\ BlocksInv /\ FreshInv
  BY DEF IInv, FlowInv
<1>3. ASSUME NEW i \in 1..d, NEW b \in Ahead(Owner(i)', PartOf(i)')
      PROVE  blocks'[b].code = <<>>
  <2>1. CASE i > n
    <3>1. i = d /\ d > n BY <1>1, <2>1
    <3>2. OpensFlow(n, d) /\ b \in Ahead(Owner(d)', PartOf(d)')
      BY <1>3, <3>1 DEF Continues
    <3>3. QED BY <3>2 DEF OpensFlow
  <2>2. CASE ~(i > n)
    <3>1. i \in 1..n BY <1>1, <2>2
    <3>2. /\ i \in 1..Depth /\ Owner(i)' = Owner(i) /\ PartOf(i)' = PartOf(i)
          /\ n < Depth => Owner(i) # Owner(Depth)
          /\ Depth > 0
      <4>1. Depth \in Nat BY StayFacts
      <4>2. i \in 1..Depth BY <3>1, StayFacts
      <4>3. Depth > 0 BY <4>1, <4>2
      <4>4. QED BY <3>1, <4>2, <4>3, StayFacts
    <3>3. b \in Ahead(Owner(i), PartOf(i)) BY <1>3, <3>2
    <3>4. b \in DOMAIN blocks /\ blocks[b].code = <<>> /\ b[1] = Owner(i)
      BY <1>2, <3>2, <3>3, AheadFacts DEF OpenInv, FreshInv
    <3>5. ~Inserted(b, pos) BY <1>2, <3>2, <3>3, AheadApart
    <3>6. b # insert BY <1>1, <3>2, <3>5
    <3>7. Same(b) BY <3>2, <3>4, <3>6 DEF Continues
    <3>8. QED BY <3>4, <3>7 DEF Same
  <2>3. QED BY <2>1, <2>2
<1>4. ASSUME NEW b \in DOMAIN blocks', b[2] = "label"
      PROVE  Precedes(b[1], pos') \/ Blank(blocks', b)
  <2>1. CASE b \notin DOMAIN blocks BY <1>4, <2>1 DEF Continues
  <2>2. CASE b \in DOMAIN blocks /\ Precedes(b[1], pos)
    <3>1. b \in Names BY <1>2, <2>2 DEF BlocksInv, Sound
    <3>2. Mark(b) = b[1] /\ Mark(b) \in Seq(Nat)
      BY <1>2, <1>4, <3>1, PathOfMark DEF Mark
    <3>3. IsPath(pos) /\ Onward(pos, pos')
      BY <1>2, PositionFacts DEF Continues, Moved
    <3>4. QED BY <2>2, <3>2, <3>3, OrderKept
  <2>3. CASE b \in DOMAIN blocks /\ ~Precedes(b[1], pos)
    <3>1. Blank(blocks, b) BY <1>2, <1>4, <2>3 DEF FreshInv
    <3>2. b # insert
      <4>1. CASE Depth > 0
        <5>1. insert[2] = "label" => Precedes(insert[1], pos)
          BY <1>1, <4>1 DEF Inserted, Mark
        <5>2. QED BY <1>4, <2>3, <5>1
      <4>2. CASE ~(Depth > 0)
        <5>1. Depth \in Nat BY StayFacts
        <5>2. Depth = 0 BY <4>2, <5>1
        <5>3. insert = NoBlock BY <1>2, <5>2 DEF InsertInv
        <5>4. insert[2] # "label" BY <5>3 DEF NoBlock
        <5>5. QED BY <1>4, <5>4
      <4>3. QED BY <4>1, <4>2
    <3>3. Same(b) BY <1>4, <2>3, <3>2 DEF Continues
    <3>4. QED BY <3>1, <3>3 DEF Same, Blank, Terminated
  <2>4. QED BY <2>1, <2>2, <2>3
<1>5. \A i : Ahead(Owner(i), PartOf(i))' = Ahead(Owner(i)', PartOf(i)')
  BY <1>1 DEF Ahead, Closing, Droppable, FalseBlock, Merge, StepBlock, Block
<1>6. \A b : Blank(blocks, b)' <=> Blank(blocks', b)
  BY DEF Blank, Terminated, Open, Silent, Ada!Idle, Ada!Event
<1>7. \A b : Precedes(b[1], pos)' <=> Precedes(b[1], pos') BY DEF Precedes
<1>8. QED BY <1>1, <1>3, <1>4, <1>5, <1>6, <1>7 DEF FreshInv

LEMMA HomeCarried ==
  ASSUME IInv, FlowInv, NEW n, NEW d, Continues(n, d)
  PROVE  HomeInv'
<1>1. /\ prog' = prog /\ Depth' = d /\ n \in Nat /\ d \in Nat /\ Depth \in Nat
      /\ n <= Depth /\ d <= n + 1
      /\ \A i \in 1..d : i > n => i = d
  BY StayFacts
<1>2. DescentInv /\ HomeInv BY DEF IInv, FlowInv
<1>3. ASSUME NEW i \in 1..n, prog[Owner(i)].kind = "subp"
      PROVE  /\ Within(Owner(i), insert'[1])
             /\ \A j \in (i + 1)..d : Within(Owner(i), frames'[j].block[1])
  <2>1. i \in 1..Depth BY StayFacts
  <2>2. /\ Within(Owner(i), insert[1])
        /\ \A j \in (i + 1)..Depth : Within(Owner(i), frames[j].block[1])
    BY <1>2, <1>3, <2>1 DEF HomeInv
  <2>3. Within(Owner(i), pos) BY <1>2, <2>1, WithinOwner
  <2>4. ASSUME n < Depth
        PROVE  Within(Owner(i), Owner(Depth)) /\ Within(Owner(i), frames[Depth].block[1])
    <3>1. i <= Depth /\ Depth \in (i + 1)..Depth /\ Depth \in 1..Depth
      BY <1>1, <2>4
    <3>2. QED BY <1>2, <2>1, <2>2, <3>1, WithinOwner
  <2>5. Within(Owner(i), insert'[1])
    <3>1. \/ insert' = insert \/ insert'[1] = pos
          \/ n < Depth /\ (insert'[1] = Owner(Depth) \/ insert' = frames[Depth].block)
      BY DEF Continues
    <3>2. QED BY <2>2, <2>3, <2>4, <3>1
  <2>6. ASSUME NEW j \in (i + 1)..d PROVE Within(Owner(i), frames'[j].block[1])
    <3>1. CASE j <= n
      <4>1. j \in 1..n /\ j \in (i + 1)..Depth BY <1>1, <3>1
      <4>2. frames'[j] = frames[j] BY <4>1, StayFacts
      <4>3. QED BY <2>2, <4>1, <4>2
    <3>2. CASE ~(j <= n)
      <4>1. j \in 1..d /\ j = d /\ d > n BY <1>1, <3>2
      <4>2. PICK b : b = frames'[d].block
        OBVIOUS
      <4>3. b = insert \/ (n < Depth /\ d = Depth /\ frames'[d] = frames[d])
        BY <4>1, <4>2 DEF Continues, OpensFlow
      <4>4. Within(Owner(i), b[1])
        <5>1. CASE b = insert BY <2>2, <5>1
        <5>2. CASE n < Depth /\ d = Depth /\ frames'[d] = frames[d]
          BY <2>4, <4>2, <5>2
        <5>3. QED BY <4>3, <5>1, <5>2
      <4>5. QED BY <4>1, <4>2, <4>4
    <3>3. QED BY <3>1, <3>2
  <2>7. QED BY <2>5, <2>6
<1>4. ASSUME d > n, prog[Owner(d)'].kind = "subp" PROVE Within(Owner(d)', insert'[1])
  <2>1. PICK q : q = Owner(d)'
    OBVIOUS
  <2>2. insert'[1] = q BY <1>4, <2>1 DEF Continues, OpensFlow
  <2>3. Len(q) \in Nat
    <3>1. IsPath(pos') /\ Len(pos') = 2 * d + 1 BY DEF Continues, Moved
    <3>2. PICK r : r = pos'
      OBVIOUS
    <3>3. r \in Seq(Nat) /\ q = SubSeq(r, 1, 2 * d - 1)
      BY <2>1, <3>1, <3>2, PathFacts DEF Owner
    <3>4. PICK m \in Nat : m = 2 * d - 1 /\ m <= Len(r)
      BY <1>1, <1>4, <3>1, <3>2
    <3>5. q \in Seq(Nat) BY <3>3, <3>4
    <3>6. QED BY <3>5
  <2>4. Within(q, q) BY <2>3 DEF Within
  <2>5. QED BY <2>1, <2>2, <2>4
<1>5. ASSUME NEW i \in 1..d, prog[Owner(i)'].kind = "subp"
      PROVE  /\ Within(Owner(i)', insert'[1])
             /\ \A j \in (i + 1)..d : Within(Owner(i)', frames'[j].block[1])
  <2>1. CASE i <= n
    <3>1. i \in 1..n BY <1>1, <2>1
    <3>2. Owner(i)' = Owner(i) BY <3>1, StayFacts
    <3>3. QED BY <1>3, <1>5, <3>1, <3>2
  <2>2. CASE ~(i <= n)
    <3>1. i = d /\ d > n /\ (i + 1)..d = {} BY <1>1, <2>2
    <3>2. Within(Owner(i)', insert'[1]) BY <1>4, <1>5, <3>1
    <3>3. QED BY <3>1, <3>2
  <2>3. QED BY <2>1, <2>2
<1>6. /\ \A i : Within(Owner(i), insert[1])' <=> Within(Owner(i)', insert'[1])
      /\ \A i, j : Within(Owner(i), frames[j].block[1])' <=> Within(Owner(i)', frames'[j].block[1])
  BY DEF Within
<1>7. QED BY <1>1, <1>5, <1>6 DEF HomeInv

LEMMA ClosedCarried ==
  ASSUME IInv, FlowInv, NEW n, NEW d, Continues(n, d)
  PROVE  ClosedInv'
<1>1. /\ prog' = prog /\ Depth' = d /\ n \in Nat /\ d \in Nat /\ Depth \in Nat
      /\ n <= Depth /\ d <= n + 1 /\ Depth <= n + 1
      /\ \A i \in 1..d : i > n => i = d
      /\ n < Depth => Depth \in 1..Depth
  BY StayFacts DEF Continues
<1>2. DescentInv /\ InsertInv /\ OpenInv /\ ClosedInv /\ HomeInv
  BY DEF IInv, FlowInv
<1>3. \A b \in DOMAIN blocks : Terminated(blocks, b) => Terminated(blocks', b)
  BY DEF Continues
<1>4. ASSUME NEW i \in 1..n, prog[Owner(i)].kind = "if"
      PROVE  Terminated(blocks', frames'[i].block)
  <2>1. i \in 1..Depth /\ frames'[i] = frames[i] BY StayFacts
  <2>2. i # 1
    <3> SUFFICES ASSUME i = 1 PROVE FALSE
      OBVIOUS
    <3>1. Owner(i) \in DOMAIN prog /\ Len(Owner(i)) = 2 * 1 - 1
      BY <1>2, <2>1, PositionFacts
    <3>2. 2 * 1 - 1 = 1
      OBVIOUS
    <3>3. QED BY <1>2, <1>4, <3>1, <3>2, ProgramFacts DEF DescentInv
  <2>3. frames[i].block \in DOMAIN blocks BY <1>2, <2>1, <2>2 DEF InsertInv
  <2>4. Terminated(blocks, frames[i].block) BY <1>2, <1>4, <2>1 DEF ClosedInv
  <2>5. QED BY <1>3, <2>1, <2>3, <2>4
<1>5. ASSUME NEW i \in 1..n, prog[Owner(i)].kind \in {"loop", "while"}
      PROVE  \/ Terminated(blocks', Body(Owner(i)))
             \/ insert' = Body(Owner(i))
             \/ \E j \in (i + 1)..d :
                  prog[Owner(j)'].kind = "subp" /\ frames'[j].block = Body(Owner(i))
  <2>1. i \in 1..Depth BY StayFacts
  <2>2. PICK y : y = Body(Owner(i)) /\ y[1] = Owner(i)
    <3>1. Body(Owner(i))[1] = Owner(i) BY DEF Body, Block
    <3>2. QED BY <3>1
  <2>3. y \in DOMAIN blocks
    <3>1. y \in Needed(Owner(i)) BY <1>5, <2>2 DEF Needed, LoopKinds
    <3>2. QED BY <1>2, <2>1, <3>1 DEF OpenInv
  <2>4. \/ Terminated(blocks, y)
        \/ insert = y
        \/ \E j \in (i + 1)..Depth : prog[Owner(j)].kind = "subp" /\ frames[j].block = y
    BY <1>2, <1>5, <2>1, <2>2 DEF ClosedInv
  <2>5. CASE Terminated(blocks, y) BY <1>3, <2>2, <2>3, <2>5
  <2>6. CASE insert = y
    <3>1. \/ insert' = insert \/ Terminated(blocks', insert)
          \/ d > n /\ prog[Owner(d)'].kind = "subp"
          \/ n < Depth /\ prog[Owner(Depth)].kind = "subp"
      BY DEF Continues
    <3>2. CASE insert' = insert \/ Terminated(blocks', insert)
      BY <2>2, <2>6, <3>2
    <3>3. CASE d > n /\ prog[Owner(d)'].kind = "subp"
      <4>1. frames'[d].block = y BY <2>6, <3>3 DEF Continues, OpensFlow
      <4>2. d \in (i + 1)..d BY <1>1, <3>3
      <4>3. QED BY <2>2, <3>3, <4>1, <4>2
    <3>4. CASE n < Depth /\ prog[Owner(Depth)].kind = "subp"
      <4>1. Depth \in 1..Depth /\ Depth > i BY <1>1, <3>4
      <4>2. Within(Owner(Depth), y[1]) BY <1>2, <2>6, <3>4, <4>1 DEF HomeInv
      <4>3. ~Within(Owner(Depth), Owner(i)) BY <1>2, <2>1, <4>1, WithinOwner
      <4>4. QED BY <2>2, <4>2, <4>3
    <3>5. QED BY <3>1, <3>2, <3>3, <3>4
  <2>7. ASSUME NEW j \in (i + 1)..Depth, prog[Owner(j)].kind = "subp", frames[j].block = y
        PROVE  \/ insert' = y
               \/ \E k \in (i + 1)..d : prog[Owner(k)'].kind = "subp" /\ frames'[k].block = y
    <3>1. CASE j <= n
      <4>1. j \in 1..n BY <1>1, <3>1
      <4>2. Owner(j)' = Owner(j) /\ frames'[j] = frames[j] /\ j \in 1..d
        BY <4>1, StayFacts
      <4>3. j \in (i + 1)..d BY <4>2
      <4>4. QED BY <2>7, <4>2, <4>3
    <3>2. CASE ~(j <= n)
      <4>1. j = Depth /\ n < Depth BY <1>1, <3>2
      <4>2. insert' = frames[Depth].block BY <2>7, <4>1 DEF Continues
      <4>3. QED BY <2>7, <4>1, <4>2
    <3>3. QED BY <3>1, <3>2
  <2>8. QED BY <2>2, <2>4, <2>5, <2>6, <2>7
<1>6. ASSUME NEW i \in 1..d
      PROVE  /\ prog[Owner(i)'].kind = "if" => Terminated(blocks', frames'[i].block)
             /\ prog[Owner(i)'].kind \in {"loop", "while"} =>
                  \/ Terminated(blocks', Body(Owner(i)'))
                  \/ insert' = Body(Owner(i)')
                  \/ \E j \in (i + 1)..d :
                       prog[Owner(j)'].kind = "subp" /\ frames'[j].block = Body(Owner(i)')
  <2>1. CASE i <= n
    <3>1. i \in 1..n BY <1>1, <2>1
    <3>2. Owner(i)' = Owner(i) BY <3>1, StayFacts
    <3>3. QED BY <1>4, <1>5, <3>1, <3>2
  <2>2. CASE ~(i <= n)
    <3>1. i = d /\ d > n BY <1>1, <2>2
    <3>2. OpensFlow(n, d) BY <3>1 DEF Continues
    <3>3. /\ prog[Owner(d)'].kind = "if" => Terminated(blocks', frames'[d].block)
          /\ prog[Owner(d)'].kind \in {"loop", "while"} => insert' = Body(Owner(d)')
      BY <3>2 DEF OpensFlow
    <3>4. QED BY <3>1, <3>3
  <2>3. QED BY <2>1, <2>2
<1>7. /\ \A i : Terminated(blocks, frames[i].block)' <=> Terminated(blocks', frames'[i].block)
      /\ \A i : Terminated(blocks, Body(Owner(i)))' <=> Terminated(blocks', Body(Owner(i)'))
      /\ \A i : Body(Owner(i))' = Body(Owner(i)')
  BY DEF Terminated, Open, Silent, Ada!Idle, Ada!Event, Body, Block
<1>8. QED BY <1>1, <1>6, <1>7 DEF ClosedInv

LEMMA FlowCarried ==
  ASSUME IInv, FlowInv, NEW n, NEW d, Continues(n, d)
  PROVE  FlowInv'
<1>1. CodeInv' /\ CursorInv' /\ FreshInv' /\ HomeInv' /\ ClosedInv'
  BY CodeCarried, CursorCarried, FreshCarried, HomeCarried, ClosedCarried
<1>2. QED BY <1>1 DEF FlowInv

LEMMA BlankFlows ==
  ASSUME NEW b, NEW node, node.code = <<>>, node.end = Open
  PROVE  Flows(b, node)
<1>1. Due(Starts(b), <<>>, Starts(b)) BY DueAtStart
<1>2. EndFlows(Open, Starts(b)) BY DEF EndFlows, Open
<1>3. QED BY <1>1, <1>2 DEF Flows

LEMMA OpenFlows ==
  ASSUME NEW b, NEW node, node.end = Open, NEW d, Due(Starts(b), node.code, d)
  PROVE  Flows(b, node)
<1>1. EndFlows(Open, d) BY DEF EndFlows, Open
<1>2. QED BY <1>1 DEF Flows

LEMMA CreatedFlows ==
  ASSUME NEW B, NEW S, NEW b \in S \ DOMAIN B
  PROVE  /\ Created(B, S)[b].code = <<>> /\ Created(B, S)[b].end = Open
         /\ Blank(Created(B, S), b) /\ Flows(b, Created(B, S)[b])
<1>1. Created(B, S)[b] = [code |-> <<>>, end |-> Open] BY DEF Created
<1>2. Created(B, S)[b].code = <<>> /\ Created(B, S)[b].end = Open BY <1>1
<1>3. QED BY <1>2, BlankFlows DEF Blank, Terminated

(* Ending a block with what is due there.                                  *)
LEMMA EndedFlows ==
  ASSUME NEW B, Sound(B), NEW b \in DOMAIN B, NEW d, Due(Starts(b), B[b].code, d),
         NEW end, EndFlows(end, d), end # Open
  PROVE  /\ Ended(B, b, end)[b].code = B[b].code /\ Ended(B, b, end)[b].end = end
         /\ Flows(b, Ended(B, b, end)[b]) /\ Terminated(Ended(B, b, end), b)
         /\ DOMAIN Ended(B, b, end) = DOMAIN B
         /\ \A c \in DOMAIN B \ {b} : Ended(B, b, end)[c] = B[c]
<1>1. PICK code, old : B[b] = [code |-> code, end |-> old] /\ code = B[b].code
  BY NodeFacts
<1>2. Ended(B, b, end)[b] = [code |-> code, end |-> end] BY <1>1 DEF Ended
<1>3. DOMAIN Ended(B, b, end) = DOMAIN B /\ \A c \in DOMAIN B \ {b} : Ended(B, b, end)[c] = B[c]
  BY DEF Ended
<1>4. Ended(B, b, end)[b].code = code /\ Ended(B, b, end)[b].end = end BY <1>2
<1>5. Flows(b, Ended(B, b, end)[b]) BY <1>1, <1>4 DEF Flows
<1>6. QED BY <1>1, <1>3, <1>4, <1>5 DEF Terminated

LEMMA EndIs ==
  ASSUME NEW B, Sound(B), NEW b \in DOMAIN B, NEW end
  PROVE  Ended(B, b, end)[b].end = end
<1>1. PICK code, old : B[b] = [code |-> code, end |-> old] BY NodeFacts
<1>2. QED BY <1>1 DEF Ended

-----------------------------------------------------------------------------
(* How emission goes on *)

(* A block that does nothing, and blocks that only ever lead to each other.*)
Quiet(node) ==
  /\ node.end.op = "br" /\ node.end.event = Silent
  /\ \A i \in 1..Len(node.code) : node.code[i] = Silent
Circle(B, X) == X \subseteq DOMAIN B /\ \A b \in X : Quiet(B[b]) /\ B[b].end.to[1] \in X

PassInv ==
  /\ \A X : Circle(blocks, X) => X = {}
  /\ \A b \in DOMAIN blocks : b[2] = "header" => blocks[b].end.op = "cond_br"

(* Entries are those of bodies, label blocks those of labels.              *)
Titled(b) ==
  /\ b[2] = "entry" => \E q \in Subps(prog) : b = Entry(q)
  /\ b[2] = "label" => \E l \in Labels(prog) : b = Block(l, "label")

(* A label passed in the sequence at hand, or in one around it, has its    *)
(* block; that of one still ahead there may be open.                       *)
Beside(l, p) == Len(l) <= Len(p) /\ \A j \in 1..(Len(l) - 1) : p[j] = l[j]
Passed(l, p) == Beside(l, p) /\ l[Len(l)] < p[Len(l)]
Announced(l, p) == Beside(l, p) /\ p[Len(l)] <= l[Len(l)]
PassedInv == \A l \in Labels(prog) : Passed(l, pos) => Block(l, "label") \in DOMAIN blocks

(* Where a function may end without a return.                              *)
DeadEnd(b, code) == \E q \in Subps(prog) : prog[q].isFunction /\ Due(Starts(b), code, Event(q, 1))

(* The moves of a step, by what stands where it begins.                    *)
Turns ==
  \/ pos \in DOMAIN prog /\ (pos' = After(pos) \/ (1 \in 1..Parts(prog[pos]) /\ pos' = First(pos, 1)))
  \/ /\ pos \notin DOMAIN prog /\ Depth > 0
     /\ pos' \in {After(Outer(pos)), First(Outer(pos), Part(pos) + 1)}

(* How a step treats the blocks: it keeps those there were but for what is *)
(* in S, the blocks it was still to come to in what it leaves; makes those *)
(* still to come to, A, and of labels; and ends what control has come to,  *)
(* with a branch that is not back to where nothing is done.                *)
Kept(b) ==
  \/ Same(b)
  \/ /\ b = insert /\ b \in DOMAIN blocks' /\ blocks'[b].end = blocks[b].end
     /\ Quiet(blocks'[b]) => Quiet(blocks[b])
Awaits(b, A) ==
  /\ ~Terminated(blocks', b)
  /\ b = insert' \/ b \in A \/ (b[2] = "label" /\ Announced(b[1], pos'))
Shuts(b) ==
  /\ Terminated(blocks', b)
  /\ \/ b = insert \/ b \in Branched(blocks)
     \/ insert \in DOMAIN blocks' /\ b \in Range(blocks'[insert].end.to)
  /\ Quiet(blocks'[b]) => ~Quiet(blocks'[blocks'[b].end.to[1]])
  /\ b[2] = "header" => blocks'[b].end.op = "cond_br"
Rests(b) ==
  \/ Terminated(blocks', b) \/ b = insert' \/ DeadEnd(b, blocks'[b].code)
  \/ \E i \in 2..Depth' : prog[Owner(i)'].kind = "subp" /\ b = frames'[i].block

Steers(S, A) ==
  /\ \A b \in DOMAIN blocks' :
       (b \in DOMAIN blocks /\ b \notin S /\ Kept(b)) \/ Awaits(b, A) \/ Shuts(b)
  /\ \A b \in DOMAIN blocks : b[2] \in {"entry", "label"} => b \in DOMAIN blocks'
  /\ \A b \in DOMAIN blocks' \ DOMAIN blocks : Titled(b)
  /\ pos \in Labels(prog) => insert' = Block(pos, "label") /\ insert' \in DOMAIN blocks'
  /\ insert \in DOMAIN blocks' => Rests(insert)

(* The moves such a step goes with.                                        *)
Carry(n, d, S, A) ==
  /\ Moved(n, d) /\ Turns
  /\ IF n = Depth THEN S = {}
     ELSE /\ n = Depth - 1 /\ S = Ahead(Owner(Depth), PartOf(Depth))
          /\ prog[Owner(Depth)].kind = "subp" => insert' = frames[Depth].block
  /\ IF d = n THEN A = {} ELSE A = Ahead(Owner(d)', PartOf(d)')
  /\ Steers(S, A)
Steered == \E n, d, S, A : Carry(n, d, S, A)

LEMMA InsertPlain == IInv => insert[2] # "header"
BY DEF IInv, InsertInv, Inserted, NoBlock

(* The block inserted into ended, with blocks made for what comes next.    *)
LEMMA SteersOn ==
  ASSUME IInv, NEW A, insert \in DOMAIN blocks', pos \notin Labels(prog),
         \A b \in DOMAIN blocks \ {insert} : Same(b),
         Terminated(blocks', insert),
         Quiet(blocks'[insert]) => ~Quiet(blocks'[blocks'[insert].end.to[1]]),
         \A b \in DOMAIN blocks' \ DOMAIN blocks : Titled(b) /\ (Awaits(b, A) \/ Shuts(b))
  PROVE  Steers({}, A)
<1>1. Shuts(insert) /\ Rests(insert) BY InsertPlain DEF Shuts, Rests
<1>2. \A b \in DOMAIN blocks \ {insert} : b \in DOMAIN blocks' /\ Kept(b)
  BY DEF Same, Kept
<1>3. QED BY <1>1, <1>2 DEF Steers

(* Where a label stands is passed when emission goes on behind it.         *)
LEMMA LabelAfter ==
  ASSUME NEW r, IsPath(r), NEW l, IsPath(l)
  PROVE  /\ Passed(l, After(r)) => Passed(l, r) \/ l = r
         /\ Announced(l, r) /\ l # r => Announced(l, After(r))
<1>1. PICK n \in Nat \ {0}, m \in Nat \ {0} : n = Len(r) /\ m = Len(l)
  BY PathFacts
<1>2. PICK t : t = After(r)
  OBVIOUS
<1>3. Len(t) = n /\ t[n] = r[n] + 1 /\ \A j \in 1..(n - 1) : t[j] = r[j]
  BY <1>1, <1>2, AfterFacts
<1>4. l \in Seq(Nat) /\ r \in Seq(Nat) /\ l[m] \in Nat /\ r[n] \in Nat
  BY <1>1, PathFacts
<1>5. m = n /\ l[n] = r[n] /\ (\A j \in 1..(n - 1) : r[j] = l[j]) => l = r
  <2> SUFFICES ASSUME m = n, l[n] = r[n], \A j \in 1..(n - 1) : r[j] = l[j] PROVE l = r
    OBVIOUS
  <2>1. \A j \in 1..n : l[j] = r[j]
    OBVIOUS
  <2>2. QED BY <1>1, <1>4, <2>1
<1>6. CASE m < n
  <2>1. m <= n /\ t[m] = r[m] /\ \A j \in 1..(m - 1) : t[j] = r[j]
    BY <1>3, <1>6
  <2>2. QED BY <1>1, <1>2, <1>3, <2>1 DEF Passed, Announced, Beside
<1>7. CASE m = n
  BY <1>1, <1>2, <1>3, <1>4, <1>5, <1>7 DEF Passed, Announced, Beside
<1>8. CASE m > n BY <1>1, <1>2, <1>3, <1>8 DEF Passed, Announced, Beside
<1>9. QED BY <1>6, <1>7, <1>8

(* A goto names a label of a sequence around it.                           *)
LEMMA GotoBeside ==
  ASSUME prog \in Programs, NEW q \in DOMAIN prog, prog[q].kind = "goto", NEW l, l = Named(prog, q),
         IsPath(l)
  PROVE  Beside(l, q)
<1>1. WellFormed(prog) /\ q # Top BY ProgramFacts, ProgramsWellFormed
<1>2. Len(l) <= Len(q) /\ SubSeq(q, 1, Len(l) - 1) = SubSeq(l, 1, Len(l) - 1)
  BY <1>1 DEF WellFormed
<1>3. IsPath(q) BY ProgramFacts
<1>4. PICK m \in Nat : m = Len(l) - 1 /\ m <= Len(q) /\ m <= Len(l)
  <2>1. Len(l) \in Nat /\ Len(l) >= 1 /\ Len(q) \in Nat BY <1>3, PathFacts
  <2>2. Len(l) - 1 \in Nat /\ Len(l) - 1 <= Len(q) /\ Len(l) - 1 <= Len(l)
    BY <1>2, <2>1
  <2>3. QED BY <2>2
<1>5. \A j \in 1..m : SubSeq(q, 1, m)[j] = q[j] /\ SubSeq(l, 1, m)[j] = l[j]
  <2>1. ASSUME NEW r \in Seq(Nat), m <= Len(r) PROVE \A j \in 1..m : SubSeq(r, 1, m)[j] = r[j]
    BY <2>1
  <2>2. QED BY <1>3, <1>4, <2>1, PathFacts
<1>6. QED BY <1>2, <1>4, <1>5 DEF Beside

(* Behind a simple statement.                                              *)
LEMMA FlowsOn ==
  ASSUME IInv, FlowInv, prog' = prog, pos \in DOMAIN prog, pos # Top, pos' = After(pos),
         frames' = frames,
         \A b \in DOMAIN blocks \ {insert} : Same(b),
         insert \in DOMAIN blocks', Same(insert) \/ Flows(insert, blocks'[insert]),
         Terminated(blocks, insert) => Terminated(blocks', insert),
         \A b \in DOMAIN blocks' \ DOMAIN blocks :
           Flows(b, blocks'[b]) /\ (b[2] = "label" => Blank(blocks', b)),
         DueIn(blocks', insert', Lands(pos')),
         insert' = insert \/ (insert'[1] = pos /\ Terminated(blocks', insert))
  PROVE  FlowInv' /\ (Steers({}, {}) => Steered)
<1>1. DescentInv /\ insert \in DOMAIN blocks BY HereFacts
<1>2. Moved(Depth, Depth) BY <1>1, MoveAfter
<1>3. PICK d : d = Depth
  OBVIOUS
<1>4. d \in Nat BY <1>1, <1>3, PositionFacts
<1>5. d <= d + 1 /\ ~(d < d) /\ ~(d > d) BY <1>4
<1>6. \A b \in DOMAIN blocks :
        /\ Same(b) \/ b = insert
        /\ Terminated(blocks, b) => b \in DOMAIN blocks' /\ Terminated(blocks', b)
  BY DEF Same, Terminated
<1>7. \A b \in DOMAIN blocks' :
        /\ (b \in DOMAIN blocks /\ Same(b)) \/ Flows(b, blocks'[b])
        /\ b \notin DOMAIN blocks /\ b[2] = "label" => Blank(blocks', b)
  BY <1>1
<1>8. Continues(d, d) BY <1>2, <1>3, <1>5, <1>6, <1>7 DEF Continues
<1>9. Carry(d, d, {}, {}) <=> Steers({}, {}) BY <1>2, <1>3 DEF Carry, Turns
<1>10. QED BY <1>8, <1>9, FlowCarried DEF Steered

LEMMA DueHere ==
  ASSUME IInv, FlowInv, pos \in DOMAIN prog, pos # Top
  PROVE  /\ ~Terminated(blocks, insert) => Due(Starts(insert), blocks[insert].code, Lands(pos))
         /\ blocks[insert].code \in Seq(Events) /\ insert \in DOMAIN blocks /\ Sound(blocks)
         /\ prog \in Programs /\ pos \in Ada!Inside /\ After(pos) \in Ada!Inside
         /\ prog[pos].kind \in {"label", "subp"} => Lands(pos) = Lands(After(pos))
         /\ prog[pos].kind \in {"block", "loop"} => Lands(pos) = Lands(First(pos, 1))
         /\ prog[pos].kind \notin {"label", "subp", "block", "loop"} => Lands(pos) = Event(pos, 1)
<1>1. /\ prog \in Programs /\ Depth > 0 /\ insert \in DOMAIN blocks /\ Sound(blocks)
  BY HereFacts
<1>2. pos \in Ada!Inside /\ After(pos) \in Ada!Inside BY <1>1, InsideFacts
<1>3. blocks[insert].code \in Seq(Events) BY <1>1, NodeFacts
<1>4. ~Terminated(blocks, insert) => Due(Starts(insert), blocks[insert].code, Lands(pos))
  BY <1>1 DEF FlowInv, CursorInv, DueIn
<1>5. Lands(pos) = CASE prog[pos].kind \in {"label", "subp"} -> Lands(After(pos))
                     [] prog[pos].kind \in {"block", "loop"} -> Lands(First(pos, 1))
                     [] OTHER -> Event(pos, 1)
  BY <1>1, <1>2, LandsIs
<1>6. QED BY <1>1, <1>2, <1>3, <1>4, <1>5

LEMMA SkipFlows ==
  ASSUME IInv, FlowInv, SkipUnreachable
  PROVE  FlowInv' /\ Steered
<1>1. /\ pos \in DOMAIN prog /\ pos # Top /\ pos' = After(pos) /\ prog' = prog
      /\ insert' = insert /\ blocks' = blocks /\ frames' = frames /\ Terminated(blocks, insert)
  BY DEF SkipUnreachable, Control, Outside
<1>2. insert \in DOMAIN blocks BY <1>1, HereFacts
<1>3. DueIn(blocks', insert', Lands(pos')) BY <1>1 DEF DueIn
<1>4. \A b \in DOMAIN blocks : Same(b) BY <1>1 DEF Same
<1>5. Steers({}, {})
  BY <1>1, <1>2, <1>4 DEF Steers, Kept, Rests, SkipUnreachable, Labels, Stmt
<1>6. QED BY <1>1, <1>2, <1>3, <1>4, <1>5, FlowsOn

LEMMA ActFlows ==
  ASSUME IInv, FlowInv, EmitAct
  PROVE  FlowInv' /\ Steered
<1>1. /\ pos \in DOMAIN prog /\ pos # Top /\ prog[pos].kind = "act" /\ ~Terminated(blocks, insert)
  BY VisitingFacts DEF EmitAct
<1>2. /\ pos' = After(pos) /\ prog' = prog /\ insert' = insert /\ frames' = frames
      /\ blocks' = [blocks EXCEPT ![insert].code = Append(@, Event(pos, 1))]
  BY DEF EmitAct, Control, Outside
<1>3. /\ Due(Starts(insert), blocks[insert].code, Event(pos, 1))
      /\ blocks[insert].code \in Seq(Events) /\ insert \in DOMAIN blocks /\ Sound(blocks)
      /\ prog \in Programs
  BY <1>1, DueHere
<1>4. Plain(Event(pos, 1)) /\ Follows(Event(pos, 1), TRUE) = Lands(After(pos))
  BY <1>1, <1>3, FollowsIs
<1>5. Event(pos, 1) \in Events BY <1>1, EventFacts
<1>6. PICK e \in Events : e = Event(pos, 1) BY <1>5
<1>7. PICK code \in Seq(Events) : code = blocks[insert].code BY <1>3
<1>8. Due(Starts(insert), Append(code, e), Lands(After(pos)))
  BY <1>3, <1>4, <1>6, <1>7, DueOn
<1>9. /\ blocks'[insert].code = Append(code, e) /\ blocks'[insert].end = Open
      /\ DOMAIN blocks' = DOMAIN blocks /\ \A b \in DOMAIN blocks \ {insert} : Same(b)
  <2>1. blocks[insert] = [code |-> code, end |-> Open]
    BY <1>1, <1>3, <1>7, NodeFacts DEF Terminated
  <2>2. blocks'[insert] = [blocks[insert] EXCEPT !.code = Append(code, e)]
    BY <1>2, <1>3, <1>6, <1>7
  <2>3. blocks'[insert] = [code |-> Append(code, e), end |-> Open]
    BY <2>1, <2>2
  <2>4. DOMAIN blocks' = DOMAIN blocks /\ \A b \in DOMAIN blocks \ {insert} : Same(b)
    BY <1>2 DEF Same
  <2>5. QED BY <2>3, <2>4
<1>10. Flows(insert, blocks'[insert]) BY <1>8, <1>9, OpenFlows
<1>11. DueIn(blocks', insert', Lands(pos')) BY <1>2, <1>8, <1>9 DEF DueIn
<1>12. Steers({}, {})
  <2>1. Kept(insert) BY <1>1, <1>3, <1>9 DEF Kept, Quiet, Open, Terminated
  <2>2. QED BY <1>1, <1>2, <1>9, <2>1 DEF Steers, Kept, Rests, Labels
<1>13. QED BY <1>1, <1>2, <1>3, <1>9, <1>10, <1>11, <1>12, FlowsOn

LEMMA ReturnFlows ==
  ASSUME IInv, FlowInv, EmitReturn
  PROVE  FlowInv' /\ Steered
<1>1. pos \in DOMAIN prog /\ pos # Top /\ prog[pos].kind = "return" /\ ~Terminated(blocks, insert)
  BY VisitingFacts DEF EmitReturn
<1>2. /\ pos' = After(pos) /\ prog' = prog /\ insert' = insert /\ frames' = frames
      /\ blocks' = Ended(blocks, insert, Ret(Event(pos, 1)))
  BY DEF EmitReturn, Control, Outside
<1>3. /\ Due(Starts(insert), blocks[insert].code, Event(pos, 1))
      /\ insert \in DOMAIN blocks /\ Sound(blocks) /\ prog \in Programs
  BY <1>1, DueHere
<1>4. PICK e \in Events : e = Event(pos, 1) BY <1>1, EventFacts
<1>5. PICK end : end = Ret(e) /\ end # Open BY EndFacts
<1>6. EndFlows(end, e)
  <2>1. Allowed(e) /\ Ada!IsFinal(e) /\ ~Ada!IsTest(e)
    BY <1>1, <1>3, <1>4, StepFacts
  <2>2. end.op = "return" /\ end.event = e BY <1>5 DEF Ret
  <2>3. QED BY <2>1, <2>2 DEF EndFlows
<1>7. blocks' = Ended(blocks, insert, end) BY <1>2, <1>4, <1>5
<1>8. /\ Flows(insert, blocks'[insert]) /\ Terminated(blocks', insert)
      /\ DOMAIN blocks' = DOMAIN blocks
      /\ \A c \in DOMAIN blocks \ {insert} : blocks'[c] = blocks[c]
  BY <1>3, <1>4, <1>5, <1>6, <1>7, EndedFlows
<1>9. DueIn(blocks', insert', Lands(pos')) /\ \A b \in DOMAIN blocks \ {insert} : Same(b)
  BY <1>2, <1>8 DEF DueIn, Same
<1>10. Steers({}, {})
  <2>1. ~Quiet(blocks'[insert])
    <3>1. blocks'[insert].end = end BY <1>3, <1>4, <1>5, <1>6, <1>7, EndedFlows
    <3>2. QED BY <1>5, <3>1 DEF Quiet, Ret
  <2>2. pos \notin Labels(prog) /\ DOMAIN blocks' \ DOMAIN blocks = {} /\ insert \in DOMAIN blocks'
    BY <1>1, <1>3, <1>8 DEF Labels
  <2>3. QED BY <1>8, <1>9, <2>1, <2>2, SteersOn
<1>11. QED BY <1>1, <1>2, <1>3, <1>8, <1>9, <1>10, FlowsOn

LEMMA LabelStarts ==
  ASSUME prog \in Programs, NEW l \in DOMAIN prog, prog[l].kind = "label"
  PROVE  Starts(Block(l, "label")) = Lands(After(l)) /\ Lands(l) = Lands(After(l))
<1>1. l # Top BY ProgramFacts
<1>2. l \in Ada!Inside BY <1>1, InsideFacts
<1>3. Lands(l) = Lands(After(l)) BY <1>2, LandsIs
<1>4. Starts(Block(l, "label")) = Lands(After(l)) BY DEF Starts, Block
<1>5. QED BY <1>3, <1>4

LEMMA GotoFlows ==
  ASSUME IInv, FlowInv, EmitGoto
  PROVE  FlowInv' /\ (PassedInv => Steered)
<1>1. pos \in DOMAIN prog /\ pos # Top /\ prog[pos].kind = "goto" /\ ~Terminated(blocks, insert)
  BY VisitingFacts DEF EmitGoto
<1>2. PICK l : l = Named(prog, pos)
  OBVIOUS
<1>3. PICK b : b = Block(l, "label")
  OBVIOUS
<1>4. PICK e \in Events : e = Event(pos, 1) BY <1>1, EventFacts
<1>5. /\ pos' = After(pos) /\ prog' = prog /\ insert' = insert /\ frames' = frames
      /\ blocks' = Ended(WithLabel(l), insert, Br(e, b))
  BY <1>2, <1>3, <1>4 DEF EmitGoto, Control, Outside
<1>6. /\ Due(Starts(insert), blocks[insert].code, e)
      /\ insert \in DOMAIN blocks /\ Sound(blocks) /\ prog \in Programs
  BY <1>1, <1>4, DueHere
<1>7. l \in DOMAIN prog /\ prog[l].kind = "label"
  BY <1>1, <1>2, <1>6, NamedFacts
<1> DEFINE S == {b} \ DOMAIN blocks
           C == Created(blocks, S)
<1>8. /\ b \in Names /\ Sound(C) /\ DOMAIN C = DOMAIN blocks \union S
      /\ \A c \in DOMAIN blocks : C[c] = blocks[c]
  BY <1>3, <1>6, <1>7, LabelBlockFacts DEF WithLabel
<1>9. PICK end : end = Br(e, b) /\ end # Open BY <1>8, EndFacts
<1>10. EndFlows(end, e)
  <2>1. Plain(e)
    <3>1. ~Illegal(prog, pos) BY <1>1 DEF EmitGoto, Crosses, Illegal
    <3>2. e # Silent /\ e.stmt = pos /\ ~Ada!IsFinal(e) /\ ~Ada!IsTest(e)
      BY <1>1, <1>4, <1>6, StepFacts
    <3>3. ~Ada!MissingReturn(e) BY <1>1, <3>2 DEF Ada!MissingReturn
    <3>4. QED BY <3>1, <3>2, <3>3 DEF Plain, Allowed
  <2>2. Follows(e, TRUE) = Lands(l) BY <1>1, <1>2, <1>4, <1>6, FollowsIs
  <2>3. Starts(b) = Lands(l) BY <1>3, <1>6, <1>7, LabelStarts
  <2>4. end.op = "br" /\ end.event = e /\ end.to[1] = b /\ e # Silent
    BY <1>9, <2>1 DEF Br, Plain, Allowed
  <2>5. QED BY <2>1, <2>2, <2>3, <2>4 DEF EndFlows
<1>11. blocks' = Ended(C, insert, end) /\ insert \in DOMAIN C /\ C[insert] = blocks[insert]
  BY <1>3, <1>5, <1>6, <1>8, <1>9 DEF WithLabel
<1>12. \A c \in S : Flows(c, C[c]) /\ Blank(C, c) BY CreatedFlows
<1> HIDE DEF C
<1>13. /\ Flows(insert, blocks'[insert]) /\ Terminated(blocks', insert)
       /\ DOMAIN blocks' = DOMAIN C /\ \A c \in DOMAIN C \ {insert} : blocks'[c] = C[c]
  BY <1>6, <1>8, <1>9, <1>10, <1>11, EndedFlows
<1>14. /\ DueIn(blocks', insert', Lands(pos')) /\ insert \in DOMAIN blocks'
       /\ \A c \in DOMAIN blocks \ {insert} : Same(c)
  BY <1>5, <1>8, <1>11, <1>13 DEF DueIn, Same
<1>15. \A c \in DOMAIN blocks' \ DOMAIN blocks : Flows(c, blocks'[c]) /\ Blank(blocks', c)
  <2> TAKE c \in DOMAIN blocks' \ DOMAIN blocks
  <2>1. c \in S /\ c # insert /\ blocks'[c] = C[c] BY <1>6, <1>8, <1>13
  <2>2. QED BY <1>12, <2>1 DEF Blank, Terminated
<1>16. ASSUME PassedInv PROVE Steers({}, {})
  <2>1. ~Quiet(blocks'[insert])
    <3>1. blocks'[insert].end = end BY <1>8, <1>11, EndIs
    <3>2. end.event = e /\ e # Silent
      BY <1>1, <1>4, <1>6, <1>9, StepFacts DEF Br
    <3>3. QED BY <3>1, <3>2 DEF Quiet
  <2>2. ASSUME b \notin DOMAIN blocks PROVE Announced(l, pos')
    <3>1. IsPath(l) /\ IsPath(pos) BY <1>1, <1>6, <1>7, ProgramFacts
    <3>2. Beside(l, pos) BY <1>1, <1>2, <1>6, <3>1, GotoBeside
    <3>3. ~Passed(l, pos) BY <1>3, <1>7, <1>16, <2>2 DEF PassedInv, Labels
    <3>4. Announced(l, pos) /\ l # pos
      <4>1. PICK n \in Nat \ {0} : n = Len(l) BY <3>1, PathFacts
      <4>2. l[n] \in Nat /\ pos[n] \in Nat
        BY <3>1, <3>2, <4>1, PathFacts DEF Beside
      <4>3. Announced(l, pos) BY <3>2, <3>3, <4>1, <4>2 DEF Passed, Announced
      <4>4. QED BY <1>1, <1>7, <4>3
    <3>5. QED BY <1>5, <3>1, <3>4, LabelAfter
  <2>3. \A c \in DOMAIN blocks' \ DOMAIN blocks : Titled(c) /\ Awaits(c, {})
    <3> TAKE c \in DOMAIN blocks' \ DOMAIN blocks
    <3>1. c = b /\ b \notin DOMAIN blocks /\ Blank(blocks', c)
      BY <1>8, <1>13, <1>15
    <3>2. b[1] = l /\ b[2] = "label" /\ l \in Labels(prog)
      BY <1>3, <1>7 DEF Block, Labels
    <3>3. QED BY <1>3, <2>2, <3>1, <3>2 DEF Titled, Awaits, Blank
  <2>4. pos \notin Labels(prog) BY <1>1 DEF Labels
  <2>5. QED BY <1>13, <1>14, <2>1, <2>3, <2>4, SteersOn
<1>17. QED BY <1>1, <1>5, <1>13, <1>14, <1>15, <1>16, FlowsOn

LEMMA LabelFlows ==
  ASSUME IInv, FlowInv, EmitLabel
  PROVE  FlowInv' /\ Steered
<1>1. pos \in DOMAIN prog /\ prog[pos].kind = "label" /\ prog \in Programs
  BY DEF EmitLabel, Labels, IInv, DescentInv
<1>2. pos # Top BY <1>1, ProgramFacts
<1>3. PICK b : b = Block(pos, "label")
  OBVIOUS
<1> DEFINE S == {b} \ DOMAIN blocks
           C == Created(blocks, S)
<1>4. PICK end : end = Br(Silent, b)
  OBVIOUS
<1>5. /\ pos' = After(pos) /\ prog' = prog /\ insert' = b /\ frames' = frames
      /\ blocks' = BranchIfOpen(C, insert, end)
  BY <1>3, <1>4 DEF EmitLabel, Outside, WithLabel
<1>6. /\ ~Terminated(blocks, insert) => Due(Starts(insert), blocks[insert].code, Lands(pos))
      /\ insert \in DOMAIN blocks /\ Sound(blocks) /\ Inserted(insert, pos) /\ IsPath(pos)
  BY <1>1, <1>2, DueHere, HereFacts
<1>7. /\ b \in Names /\ Sound(C) /\ DOMAIN C = DOMAIN blocks \union S
      /\ (\A c \in DOMAIN blocks : C[c] = blocks[c]) /\ b \in DOMAIN C
  BY <1>1, <1>3, <1>6, LabelBlockFacts DEF WithLabel
<1>8. Starts(b) = Lands(pos) /\ Lands(pos) = Lands(After(pos)) /\ end # Open
  BY <1>1, <1>3, <1>4, <1>7, LabelStarts, EndFacts, EventFacts
<1>9. \A c \in S : Flows(c, C[c]) /\ Blank(C, c) BY CreatedFlows
<1>10. b # insert /\ b[1] = pos
  <2>1. b[1] = pos /\ Mark(b) = pos /\ b[2] = "label" BY <1>3 DEF Block, Mark
  <2>2. ~Begun(pos, pos) BY <1>6, NotBegun
  <2>3. ~Inserted(b, pos) BY <2>1, <2>2 DEF Inserted, Begun
  <2>4. QED BY <1>6, <2>1, <2>3
<1>11. Blank(C, b)
  <2>1. CASE b \in DOMAIN blocks
    <3>1. Precedes(b[1], pos) \/ Blank(blocks, b)
      BY <1>3, <2>1 DEF FlowInv, FreshInv, Block
    <3>2. ~Precedes(b[1], pos) BY <1>6, <1>10, NotBegun DEF Begun
    <3>3. QED BY <1>7, <2>1, <3>1, <3>2 DEF Blank, Terminated
  <2>2. CASE b \notin DOMAIN blocks BY <1>9, <2>2
  <2>3. QED BY <2>1, <2>2
<1> HIDE DEF C
<1>12. /\ Same(insert) \/ Flows(insert, blocks'[insert])
       /\ Terminated(blocks', insert) /\ DOMAIN blocks' = DOMAIN C
       /\ \A c \in DOMAIN C \ {insert} : blocks'[c] = C[c]
  <2>1. insert \in DOMAIN C /\ C[insert] = blocks[insert]
        /\ (Terminated(C, insert) <=> Terminated(blocks, insert))
    BY <1>6, <1>7 DEF Terminated
  <2>2. CASE Terminated(blocks, insert)
    <3>1. blocks' = C BY <1>5, <2>1, <2>2 DEF BranchIfOpen
    <3>2. QED BY <2>1, <2>2, <3>1 DEF Same
  <2>3. CASE ~Terminated(blocks, insert)
    <3>1. blocks' = Ended(C, insert, end) BY <1>5, <2>1, <2>3 DEF BranchIfOpen
    <3>2. Due(Starts(insert), C[insert].code, Lands(pos)) BY <1>6, <2>1, <2>3
    <3>3. EndFlows(end, Lands(pos))
      <4>1. end.op = "br" /\ end.event = Silent /\ end.to[1] = b BY <1>4 DEF Br
      <4>2. QED BY <1>8, <4>1 DEF EndFlows
    <3>4. Sound(C) /\ insert \in DOMAIN C /\ end # Open BY <1>7, <1>8, <2>1
    <3> DEFINE D == Ended(C, insert, end)
    <3>5. /\ Flows(insert, D[insert]) /\ Terminated(D, insert) /\ DOMAIN D = DOMAIN C
          /\ \A c \in DOMAIN C \ {insert} : D[c] = C[c]
      BY <3>2, <3>3, <3>4, EndedFlows
    <3>6. QED BY <3>1, <3>5
  <2>4. QED BY <2>2, <2>3
<1>13. DueIn(blocks', insert', Lands(pos'))
  <2>1. blocks'[b].code = <<>> BY <1>7, <1>10, <1>11, <1>12 DEF Blank
  <2>2. Due(Starts(b), <<>>, Starts(b)) BY DueAtStart
  <2>3. QED BY <1>5, <1>8, <2>1, <2>2 DEF DueIn
<1>14. (\A c \in DOMAIN blocks \ {insert} : Same(c)) /\ insert \in DOMAIN blocks'
  BY <1>6, <1>7, <1>12 DEF Same
<1>15. \A c \in DOMAIN blocks' \ DOMAIN blocks : Flows(c, blocks'[c]) /\ Blank(blocks', c)
  <2> TAKE c \in DOMAIN blocks' \ DOMAIN blocks
  <2>1. c \in S /\ c # insert /\ blocks'[c] = C[c] BY <1>6, <1>7, <1>12
  <2>2. QED BY <1>9, <2>1 DEF Blank, Terminated
<1>16. Steers({}, {})
  <2>1. b \in DOMAIN blocks' /\ ~Terminated(blocks', b) /\ Titled(b)
    BY <1>1, <1>3, <1>7, <1>10, <1>11, <1>12 DEF Blank, Terminated, Titled, Labels, Block
  <2>2. Same(insert) \/ Shuts(insert)
    <3>1. CASE Terminated(blocks, insert)
      <4>1. blocks' = C /\ C[insert] = blocks[insert] /\ insert \in DOMAIN C
        BY <1>5, <1>6, <1>7, <3>1 DEF BranchIfOpen, Terminated
      <4>2. QED BY <4>1 DEF Same
    <3>2. CASE ~Terminated(blocks, insert)
      <4>1. blocks' = Ended(C, insert, end) /\ insert \in DOMAIN C /\ Sound(C)
        BY <1>5, <1>6, <1>7, <3>2 DEF BranchIfOpen, Terminated
      <4>2. PICK code, old : C[insert] = [code |-> code, end |-> old]
        BY <4>1, NodeFacts
      <4>3. blocks'[insert] = [code |-> code, end |-> end]
        BY <4>1, <4>2 DEF Ended
      <4>4. blocks'[insert].end.to[1] = b BY <1>4, <4>3 DEF Br
      <4>5. ~Quiet(blocks'[b]) BY <2>1 DEF Quiet, Terminated, Open
      <4>6. QED BY <1>12, <4>4, <4>5, InsertPlain DEF Shuts
    <3>3. QED BY <3>1, <3>2
  <2>3. \A c \in DOMAIN blocks' : c = b \/ (c \in DOMAIN blocks /\ (c = insert \/ Same(c)))
    BY <1>7, <1>12, <1>14
  <2>4. \A c \in DOMAIN blocks' : (c \in DOMAIN blocks /\ Kept(c)) \/ Awaits(c, {}) \/ Shuts(c)
    BY <1>5, <1>6, <2>1, <2>2, <2>3 DEF Kept, Awaits
  <2>5. Rests(insert) BY <1>12 DEF Rests
  <2>6. DOMAIN blocks \subseteq DOMAIN blocks' /\ \A c \in DOMAIN blocks' \ DOMAIN blocks : Titled(c)
    BY <1>6, <1>7, <1>12, <2>1, <2>3
  <2>7. QED BY <1>3, <1>5, <2>1, <2>4, <2>5, <2>6 DEF Steers
<1>17. QED
  BY <1>1, <1>2, <1>5, <1>10, <1>12, <1>13, <1>14, <1>15, <1>16, FlowsOn

LEMMA ExitFlows ==
  ASSUME IInv, FlowInv, EmitExit
  PROVE  FlowInv' /\ Steered
<1>1. /\ pos \in DOMAIN prog /\ pos # Top /\ prog[pos].kind = "exit"
      /\ ~Terminated(blocks, insert) /\ Targets # {}
  BY VisitingFacts DEF EmitExit
<1>2. PICK t : t = ExitTarget
  OBVIOUS
<1>3. PICK e \in Events : e = Event(pos, 1) BY <1>1, EventFacts
<1>4. pos' = After(pos) /\ prog' = prog /\ frames' = frames
  BY DEF EmitExit, Control, Outside
<1>5. /\ Due(Starts(insert), blocks[insert].code, e)
      /\ insert \in DOMAIN blocks /\ Sound(blocks) /\ prog \in Programs
  BY <1>1, <1>3, DueHere
<1>6. t \in DOMAIN blocks /\ t \in Names
  BY <1>1, <1>2, <1>5, TargetFacts DEF Sound
<1>7. DescentInv /\ LoopsInv /\ Depth > 0 BY <1>1, HereFacts DEF IInv
<1>8. /\ ExitableLoops(prog, pos) # {}
      /\ Starts(t) = Lands(After(Innermost(ExitableLoops(prog, pos))))
  BY <1>1, <1>2, <1>7, ExitMeets
<1>9. Follows(e, TRUE) = Starts(t) /\ Follows(e, FALSE) = Lands(After(pos))
  BY <1>1, <1>3, <1>5, <1>8, FollowsIs
<1>10. Allowed(e) /\ ~Ada!IsFinal(e) /\ e # Silent /\ (Ada!IsTest(e) <=> prog[pos].conditional)
  <2>1. e # Silent /\ e.stmt = pos /\ ~Ada!IsFinal(e)
    BY <1>1, <1>3, <1>5, StepFacts
  <2>2. ~Illegal(prog, pos) /\ ~Ada!MissingReturn(e)
    BY <1>1, <1>8, <2>1 DEF Illegal, Ada!MissingReturn
  <2>3. Ada!IsTest(e) <=> prog[pos].conditional BY <1>1, <2>1 DEF Ada!IsTest
  <2>4. QED BY <2>1, <2>2, <2>3 DEF Allowed
<1>11. CASE Stmt.conditional
  <2>1. PICK b : b = Block(pos, "continue")
    OBVIOUS
  <2> DEFINE C == Created(blocks, {b})
  <2>2. PICK end : end = CondBr(e, t, b)
    OBVIOUS
  <2>3. insert' = b /\ blocks' = Ended(C, insert, end)
    BY <1>2, <1>3, <1>11, <2>1, <2>2 DEF EmitExit
  <2>4. b \in Names /\ b[1] = pos /\ b[2] = "continue"
    BY <1>1, <2>1 DEF Block, Names, Roles
  <2>5. b \notin DOMAIN blocks BY <1>1, <1>7, <2>4, FreshFacts DEF IInv
  <2>6. /\ Sound(C) /\ DOMAIN C = DOMAIN blocks \union {b}
        /\ \A c \in DOMAIN blocks : C[c] = blocks[c]
    BY <1>5, <2>4, CreatedFacts
  <2>7. C[b].code = <<>> /\ C[b].end = Open /\ Flows(b, C[b])
    BY <2>5, CreatedFlows
  <2> HIDE DEF C
  <2>8. end # Open /\ EndFlows(end, e)
    <3>1. end.op = "cond_br" /\ end.event = e /\ end.to[1] = t /\ end.to[2] = b
      BY <2>2 DEF CondBr
    <3>2. Starts(b) = Lands(After(pos)) BY <2>1 DEF Starts, Block
    <3>3. Ada!IsTest(e) BY <1>10, <1>11 DEF Stmt
    <3>4. EndFlows(end, e) BY <1>9, <1>10, <3>1, <3>2, <3>3 DEF EndFlows
    <3>5. end # Open BY <3>1 DEF Open
    <3>6. QED BY <3>4, <3>5
  <2>9. insert \in DOMAIN C /\ C[insert] = blocks[insert] /\ b # insert
    BY <1>5, <2>5, <2>6
  <2>10. /\ Flows(insert, blocks'[insert]) /\ Terminated(blocks', insert)
         /\ DOMAIN blocks' = DOMAIN C
         /\ \A c \in DOMAIN C \ {insert} : blocks'[c] = C[c]
    BY <1>5, <2>3, <2>6, <2>8, <2>9, EndedFlows
  <2>11. blocks'[b] = C[b] BY <2>6, <2>9, <2>10
  <2>12. DueIn(blocks', insert', Lands(pos'))
    <3>1. Due(Starts(b), <<>>, Starts(b)) BY DueAtStart
    <3>2. Starts(b) = Lands(After(pos)) BY <2>1 DEF Starts, Block
    <3>3. QED BY <1>4, <2>3, <2>7, <2>11, <3>1, <3>2 DEF DueIn
  <2>13. (\A c \in DOMAIN blocks \ {insert} : Same(c)) /\ insert \in DOMAIN blocks'
    BY <2>6, <2>9, <2>10 DEF Same
  <2>14. \A c \in DOMAIN blocks' \ DOMAIN blocks : c = b BY <2>6, <2>10
  <2>15. \A c \in DOMAIN blocks' \ DOMAIN blocks :
           Flows(c, blocks'[c]) /\ (c[2] = "label" => Blank(blocks', c))
    BY <2>4, <2>7, <2>11, <2>14
  <2>16. Steers({}, {})
    <3>1. blocks'[insert].end = end /\ end.op = "cond_br"
      BY <2>2, <2>3, <2>6, <2>9, EndIs DEF CondBr
    <3>2. \A c \in DOMAIN blocks' \ DOMAIN blocks : Titled(c) /\ Awaits(c, {})
      BY <2>3, <2>4, <2>7, <2>11, <2>14 DEF Titled, Awaits, Terminated
    <3>3. ~Quiet(blocks'[insert]) /\ pos \notin Labels(prog)
      BY <1>1, <3>1 DEF Quiet, Labels
    <3>4. QED BY <2>10, <2>13, <3>2, <3>3, SteersOn
  <2>17. QED
    BY <1>1, <1>4, <2>3, <2>4, <2>10, <2>12, <2>13, <2>15, <2>16, FlowsOn
<1>12. CASE ~Stmt.conditional
  <2>1. PICK end : end = Br(e, t)
    OBVIOUS
  <2>2. insert' = insert /\ blocks' = Ended(blocks, insert, end)
    BY <1>2, <1>3, <1>12, <2>1 DEF EmitExit
  <2>3. end # Open /\ EndFlows(end, e)
    <3>1. end.op = "br" /\ end.event = e /\ end.to[1] = t BY <2>1 DEF Br
    <3>2. ~Ada!IsTest(e) BY <1>10, <1>12 DEF Stmt
    <3>3. EndFlows(end, e) BY <1>9, <1>10, <3>1, <3>2 DEF EndFlows, Plain
    <3>4. end # Open BY <3>1 DEF Open
    <3>5. QED BY <3>3, <3>4
  <2>4. /\ Flows(insert, blocks'[insert]) /\ Terminated(blocks', insert)
        /\ DOMAIN blocks' = DOMAIN blocks
        /\ \A c \in DOMAIN blocks \ {insert} : blocks'[c] = blocks[c]
    <3> DEFINE D == Ended(blocks, insert, end)
    <3>1. /\ Flows(insert, D[insert]) /\ Terminated(D, insert) /\ DOMAIN D = DOMAIN blocks
          /\ \A c \in DOMAIN blocks \ {insert} : D[c] = blocks[c]
      BY <1>5, <2>3, EndedFlows
    <3>2. QED BY <2>2, <3>1
  <2>5. DueIn(blocks', insert', Lands(pos')) /\ \A b \in DOMAIN blocks \ {insert} : Same(b)
    BY <2>2, <2>4 DEF DueIn, Same
  <2>6. Steers({}, {})
    <3>1. blocks'[insert].end = end /\ end.event = e
      BY <1>5, <2>1, <2>2, <2>3, EndedFlows DEF Br
    <3>2. ~Quiet(blocks'[insert]) /\ pos \notin Labels(prog) /\ DOMAIN blocks' \ DOMAIN blocks = {}
      BY <1>1, <1>10, <2>4, <3>1 DEF Quiet, Labels
    <3>3. QED BY <1>5, <2>4, <2>5, <3>2, SteersOn
  <2>7. QED BY <1>1, <1>4, <1>5, <2>2, <2>4, <2>5, <2>6, FlowsOn
<1>13. QED BY <1>11, <1>12

(* Into the first part of a statement.                                     *)
LEMMA FlowsInto ==
  ASSUME IInv, FlowInv, prog' = prog, pos \in DOMAIN prog, 1 \in 1..Parts(prog[pos]),
         Enter(1, HereFrame),
         \A b \in DOMAIN blocks \ {insert} : Same(b),
         insert \in DOMAIN blocks =>
           /\ insert \in DOMAIN blocks' /\ (Same(insert) \/ Flows(insert, blocks'[insert]))
           /\ Terminated(blocks, insert) => Terminated(blocks', insert),
         \A b \in DOMAIN blocks' \ DOMAIN blocks : Flows(b, blocks'[b]) /\ b[2] # "label",
         DueIn(blocks', insert', Lands(pos')),
         insert' = insert \/ insert'[1] = pos,
         insert' = insert \/ Terminated(blocks', insert) \/ prog[pos].kind = "subp",
         \A c \in Ahead(pos, 1) : blocks'[c].code = <<>>,
         prog[pos].kind = "subp" =>
           insert'[1] = pos /\ (pos # Top => DueIn(blocks', insert, Lands(pos))),
         prog[pos].kind = "if" => Terminated(blocks', insert),
         prog[pos].kind \in {"loop", "while"} => insert' = Body(pos)
  PROVE  /\ FlowInv' /\ (Steers({}, Ahead(pos, 1)) => Steered)
         /\ insert \in DOMAIN blocks /\ prog[pos].kind = "subp" => Rests(insert)
<1>1. DescentInv /\ InsertInv /\ BlocksInv BY DEF IInv
<1>2. PICK n \in Nat : n = Depth BY <1>1, PositionFacts
<1>3. PICK d \in Nat : d = n + 1 BY <1>2
<1>4. HereFrame \in Frames /\ HereFrame.block = insert
  <2>1. insert \in Names \union {NoBlock}
    BY <1>1 DEF InsertInv, BlocksInv, Sound
  <2>2. QED BY <1>1, <2>1, LoopsFacts DEF IInv, HereFrame, Frames, DescentInv
<1>5. Moved(Depth, d) /\ Owner(d)' = pos /\ PartOf(d)' = 1 /\ frames'[d] = HereFrame
  BY <1>1, <1>2, <1>3, <1>4, MoveInto
<1>6. Moved(n, d) /\ frames'[d].block = insert BY <1>2, <1>4, <1>5
<1>7. d <= n + 1 /\ Depth <= n + 1 /\ ~(n < Depth) /\ d > n BY <1>2, <1>3
<1>8. d > 1 => pos # Top
  <2> SUFFICES ASSUME pos = Top PROVE ~(d > 1)
    OBVIOUS
  <2>1. Len(pos) = 2 * n + 1 /\ Len(pos) = 1
    BY <1>1, <1>2, TopFacts DEF DescentInv
  <2>2. \A k \in Nat : 2 * k + 1 = 1 => k = 0
    OBVIOUS
  <2>3. n = 0 BY <2>1, <2>2
  <2>4. QED BY <1>3, <2>3
<1>9. OpensFlow(n, d)
  <2>1. PICK q, k, b : q = Owner(d)' /\ k = PartOf(d)' /\ b = frames'[d].block
    OBVIOUS
  <2>2. q = pos /\ k = 1 /\ b = insert BY <1>5, <1>6, <2>1
  <2>3. /\ \A c \in Ahead(q, k) : blocks'[c].code = <<>>
        /\ prog[q].kind = "subp" =>
             /\ insert'[1] = q /\ b = insert
             /\ d > 1 => DueIn(blocks', b, Lands(q))
        /\ prog[q].kind = "if" => Terminated(blocks', b)
        /\ prog[q].kind \in {"loop", "while"} => insert' = Body(q)
        /\ b = insert
    BY <1>8, <2>2
  <2>4. QED BY <2>1, <2>3 DEF OpensFlow
<1>10. \A b \in DOMAIN blocks :
         /\ Same(b) \/ b = insert
         /\ Terminated(blocks, b) => b \in DOMAIN blocks' /\ Terminated(blocks', b)
  BY DEF Same, Terminated
<1>11. \A b \in DOMAIN blocks' :
         /\ (b \in DOMAIN blocks /\ Same(b)) \/ Flows(b, blocks'[b])
         /\ b \notin DOMAIN blocks => b[2] # "label"
  OBVIOUS
<1>12. insert' = insert \/ Terminated(blocks', insert) \/ (d > n /\ prog[Owner(d)'].kind = "subp")
  BY <1>5, <1>7
<1>13. DueIn(blocks', insert', Lands(pos')) /\ (insert' = insert \/ insert'[1] = pos)
  OBVIOUS
<1>14. Continues(n, d)
  BY <1>6, <1>7, <1>9, <1>10, <1>11, <1>12, <1>13 DEF Continues
<1>15. Steers({}, Ahead(pos, 1)) => Carry(n, d, {}, Ahead(pos, 1))
  <2>1. n = Depth /\ d # n /\ Turns BY <1>2, <1>3 DEF Turns, Enter
  <2>2. Ahead(pos, 1) = Ahead(Owner(d)', PartOf(d)') BY <1>5
  <2>3. QED BY <1>6, <2>1, <2>2 DEF Carry
<1>16. insert \in DOMAIN blocks /\ prog[pos].kind = "subp" => Rests(insert)
  <2>1. insert \in DOMAIN blocks => n # 0
    <3>1. NoBlock \notin Names BY DEF NoBlock, Names, Roles
    <3>2. QED BY <1>1, <1>2, <3>1 DEF InsertInv, BlocksInv, Sound
  <2>2. n # 0 => d \in 2..Depth'
    <3>1. Depth' = d BY <1>5 DEF Moved
    <3>2. QED BY <1>2, <1>3, <3>1
  <2>3. QED BY <1>5, <1>6, <2>1, <2>2 DEF Rests
<1>17. QED BY <1>14, <1>15, <1>16, FlowCarried DEF Steered

LEMMA DueBlank ==
  ASSUME NEW B, NEW b, B[b].code = <<>>
  PROVE  DueIn(B, b, Starts(b))
BY DueAtStart DEF DueIn

LEMMA BlockFlows ==
  ASSUME IInv, FlowInv, EnterBlock
  PROVE  FlowInv' /\ Steered
<1>1. pos \in DOMAIN prog /\ pos # Top /\ prog[pos].kind = "block"
  BY VisitingFacts DEF EnterBlock
<1>2. /\ Enter(1, HereFrame) /\ prog' = prog /\ insert' = insert /\ blocks' = blocks
      /\ pos' = First(pos, 1)
  BY DEF EnterBlock, Control, Outside, Enter
<1>3. /\ ~Terminated(blocks, insert) => Due(Starts(insert), blocks[insert].code, Lands(pos))
      /\ Lands(pos) = Lands(First(pos, 1))
  BY <1>1, DueHere
<1>4. DueIn(blocks', insert', Lands(pos')) BY <1>2, <1>3 DEF DueIn
<1>5. Ahead(pos, 1) = {} BY <1>1 DEF Droppable, Ahead, Closing, LoopKinds
<1>6. 1 \in 1..Parts(prog[pos]) BY <1>1 DEF Parts, LoopKinds
<1>7. (\A b \in DOMAIN blocks : Same(b)) /\ DOMAIN blocks' \ DOMAIN blocks = {}
  BY <1>2 DEF Same
<1>8. \A c \in Ahead(pos, 1) : blocks'[c].code = <<>> BY <1>5
<1>9. Steers({}, Ahead(pos, 1))
  BY <1>1, <1>2, <1>7 DEF Steers, Kept, Rests, Labels
<1>10. QED BY <1>1, <1>2, <1>4, <1>6, <1>7, <1>8, <1>9, FlowsInto

LEMMA SubpFlows ==
  ASSUME IInv, FlowInv, EnterSubp
  PROVE  FlowInv' /\ Steered
<1>1. pos \in DOMAIN prog /\ prog[pos].kind = "subp" BY DEF EnterSubp, Subps
<1>2. PICK y : y = Entry(pos)
  OBVIOUS
<1>3. /\ Enter(1, HereFrame) /\ prog' = prog /\ insert' = y
      /\ blocks' = Created(WithDecls, {y}) /\ pos' = First(pos, 1)
  BY <1>2 DEF EnterSubp, Outside, Enter
<1>4. DescentInv /\ BlocksInv /\ Sound(blocks) /\ prog \in Programs
  BY DEF IInv, BlocksInv, DescentInv
<1>5. y \in Names /\ y[1] = pos /\ y[2] = "entry"
  BY <1>1, <1>2 DEF Entry, Block, Names, Roles
<1>6. y \notin DOMAIN blocks BY <1>1, <1>4, <1>5, FreshFacts
<1>7. Starts(y) = Lands(First(pos, 1)) BY <1>2 DEF Starts, Entry, Block
<1>8. PICK W : W = WithDecls
  OBVIOUS
<1>9. /\ DOMAIN W = DOMAIN blocks
      /\ \A b \in DOMAIN blocks \ {insert} : W[b] = blocks[b]
      /\ \A b \in DOMAIN blocks : W[b].end = blocks[b].end
      /\ W = blocks \/ (pos # Top /\ W = Coded(blocks, insert, Silent))
  BY <1>8 DEF WithDecls, Coded
<1>10. /\ DOMAIN blocks' = DOMAIN blocks \union {y} /\ \A b \in DOMAIN blocks : blocks'[b] = W[b]
       /\ blocks'[y].code = <<>> /\ blocks'[y].end = Open /\ Flows(y, blocks'[y])
  <2>1. blocks' = Created(W, {y}) BY <1>3, <1>8
  <2>2. y \in {y} \ DOMAIN W BY <1>6, <1>9
  <2>3. blocks'[y].code = <<>> /\ blocks'[y].end = Open /\ Flows(y, blocks'[y])
    BY <2>1, <2>2, CreatedFlows
  <2>4. DOMAIN blocks' = DOMAIN blocks \union {y} /\ \A b \in DOMAIN blocks : blocks'[b] = W[b]
    BY <1>9, <2>1 DEF Created
  <2>5. QED BY <2>3, <2>4
<1>11. /\ \A b \in DOMAIN blocks \ {insert} : Same(b)
       /\ \A b \in DOMAIN blocks' \ DOMAIN blocks : Flows(b, blocks'[b]) /\ b[2] # "label"
  BY <1>5, <1>9, <1>10 DEF Same
<1>12. ASSUME insert \in DOMAIN blocks
       PROVE  /\ insert \in DOMAIN blocks' /\ (Same(insert) \/ Flows(insert, blocks'[insert]))
              /\ Terminated(blocks', insert) <=> Terminated(blocks, insert)
              /\ pos # Top => DueIn(blocks', insert, Lands(pos))
  <2>1. /\ insert \in DOMAIN blocks'
        /\ Terminated(blocks', insert) <=> Terminated(blocks, insert)
    BY <1>9, <1>10, <1>12 DEF Terminated
  <2>2. CASE W = blocks
    <3>1. blocks'[insert] = blocks[insert] BY <1>10, <1>12, <2>2
    <3>2. pos # Top => DueIn(blocks', insert, Lands(pos))
      <4>1. pos # Top => DueIn(blocks, insert, Lands(pos))
        BY <1>1, DueHere DEF DueIn
      <4>2. QED BY <2>1, <3>1, <4>1 DEF DueIn
    <3>3. QED BY <2>1, <3>1, <3>2 DEF Same
  <2>3. CASE pos # Top /\ W = Coded(blocks, insert, Silent)
    <3>1. PICK code \in Seq(Events) : code = blocks[insert].code
      BY <1>4, <1>12, NodeFacts
    <3>0. PICK end : end = blocks[insert].end
      OBVIOUS
    <3>2. blocks'[insert] = [blocks[insert] EXCEPT !.code = Append(code, Silent)]
      BY <1>10, <1>12, <2>3, <3>1 DEF Coded
    <3>3. blocks'[insert] = [code |-> Append(code, Silent), end |-> end]
      <4>1. blocks[insert] = [code |-> code, end |-> end]
        BY <1>4, <1>12, <3>0, <3>1, NodeFacts
      <4>2. QED BY <3>2, <4>1
    <3>4. blocks'[insert].code = Append(code, Silent) /\ blocks'[insert].end = end
      BY <3>3
    <3>5. \A e : Due(Starts(insert), code, e) => Due(Starts(insert), Append(code, Silent), e)
      BY EventFacts, DueOn
    <3>6. DueIn(blocks', insert, Lands(pos))
      <4>1. DueIn(blocks, insert, Lands(pos)) BY <1>1, <2>3, DueHere DEF DueIn
      <4>2. QED BY <2>1, <3>1, <3>4, <3>5, <4>1 DEF DueIn
    <3>7. Flows(insert, blocks'[insert])
      <4>1. Flows(insert, blocks[insert]) BY <1>12 DEF FlowInv, CodeInv
      <4>2. PICK e : Due(Starts(insert), code, e) /\ EndFlows(end, e)
        BY <3>0, <3>1, <4>1 DEF Flows
      <4>3. QED BY <3>4, <3>5, <4>2 DEF Flows
    <3>8. QED BY <2>1, <3>6, <3>7
  <2>4. QED BY <1>9, <2>2, <2>3
<1>13. pos # Top => insert \in DOMAIN blocks BY <1>1, HereFacts
<1>14. DueIn(blocks', insert', Lands(pos')) BY <1>3, <1>7, <1>10, DueBlank
<1>15. Ahead(pos, 1) = {} /\ 1 \in 1..Parts(prog[pos])
  BY <1>1 DEF Droppable, Ahead, Closing, LoopKinds, Parts
<1>16. \A c \in Ahead(pos, 1) : blocks'[c].code = <<>> BY <1>15
<1>17. insert \in DOMAIN blocks =>
         /\ insert \in DOMAIN blocks' /\ (Same(insert) \/ Flows(insert, blocks'[insert]))
         /\ Terminated(blocks, insert) => Terminated(blocks', insert)
  BY <1>12
<1>18. insert'[1] = pos /\ (pos # Top => DueIn(blocks', insert, Lands(pos)))
  BY <1>3, <1>5, <1>12, <1>13
<1>19. /\ FlowInv' /\ (Steers({}, Ahead(pos, 1)) => Steered)
       /\ insert \in DOMAIN blocks => Rests(insert)
  BY <1>1, <1>3, <1>11, <1>14, <1>15, <1>16, <1>17, <1>18, FlowsInto
<1>20. \A b \in DOMAIN blocks : Kept(b)
  <2> TAKE b \in DOMAIN blocks
  <2>1. CASE b # insert BY <1>11, <2>1 DEF Kept
  <2>2. CASE b = insert /\ W = blocks BY <1>10, <2>2 DEF Kept, Same
  <2>3. CASE b = insert /\ W = Coded(blocks, insert, Silent)
    <3>0. PICK code \in Seq(Events) : code = blocks[b].code BY <1>4, NodeFacts
    <3>1. PICK end : blocks[b] = [code |-> code, end |-> end]
      BY <1>4, <3>0, NodeFacts
    <3>2. blocks'[b] = [blocks[b] EXCEPT !.code = Append(code, Silent)]
      BY <1>10, <2>3, <3>1 DEF Coded
    <3>3. blocks'[b] = [code |-> Append(code, Silent), end |-> end] /\ b \in DOMAIN blocks'
      <4>1. b \in DOMAIN blocks' BY <1>10
      <4>2. blocks'[b] = [code |-> Append(code, Silent), end |-> end]
        BY <3>1, <3>2
      <4>3. QED BY <4>1, <4>2
    <3>4. PICK n \in Nat : n = Len(code) BY <3>1
    <3>5. Len(Append(code, Silent)) = n + 1 /\ \A i \in 1..n : Append(code, Silent)[i] = code[i]
      <4>1. PICK x \in Events : x = Silent BY EventFacts
      <4>2. Len(Append(code, x)) = Len(code) + 1 /\ \A i \in 1..Len(code) : Append(code, x)[i] = code[i]
        BY AppendProperties
      <4>3. QED BY <3>4, <4>1, <4>2
    <3>6. Quiet(blocks'[b]) => Quiet(blocks[b])
      BY <3>1, <3>3, <3>4, <3>5 DEF Quiet
    <3>7. QED BY <2>3, <3>1, <3>3, <3>6 DEF Kept
  <2>4. QED BY <1>9, <2>1, <2>2, <2>3
<1>21. Titled(y) /\ Awaits(y, Ahead(pos, 1)) /\ Rests(y)
  BY <1>1, <1>2, <1>3, <1>5, <1>10 DEF Titled, Awaits, Rests, Terminated, Subps
<1>22. Steers({}, Ahead(pos, 1))
  BY <1>1, <1>3, <1>10, <1>19, <1>20, <1>21 DEF Steers, Labels
<1>23. QED BY <1>19, <1>22

(* The block inserted into ended, with blocks made for what it leads to.   *)
Fork(S, end) == Ended(Created(blocks, S), insert, end)

Forked(D, S, end) ==
  /\ Sound(D) /\ DOMAIN D = DOMAIN blocks \union S
  /\ \A b \in DOMAIN blocks \ {insert} : D[b] = blocks[b]
  /\ insert \in DOMAIN D /\ Flows(insert, D[insert]) /\ Terminated(D, insert) /\ D[insert].end = end
  /\ \A b \in S : D[b].code = <<>> /\ D[b].end = Open /\ Flows(b, D[b]) /\ ~Terminated(D, b)

LEMMA ForkFlows ==
  ASSUME IInv, FlowInv, pos \in DOMAIN prog, pos # Top, ~Terminated(blocks, insert),
         NEW S, S \subseteq Names, \A b \in S : b \notin DOMAIN blocks,
         NEW end \in Ends, Range(end.to) \subseteq DOMAIN blocks \union S, end # Open,
         EndFlows(end, Lands(pos))
  PROVE  Forked(Fork(S, end), S, end)
<1>1. /\ Due(Starts(insert), blocks[insert].code, Lands(pos))
      /\ insert \in DOMAIN blocks /\ Sound(blocks)
  BY DueHere
<1>2. S \in SUBSET Names /\ \A b \in S : b \in S \ DOMAIN blocks
  OBVIOUS
<1>3. PICK C : C = Created(blocks, S)
  OBVIOUS
<1>4. /\ Sound(C) /\ DOMAIN C = DOMAIN blocks \union S
      /\ \A c \in DOMAIN blocks : C[c] = blocks[c]
  BY <1>1, <1>2, <1>3, CreatedFacts
<1>5. \A b \in S : C[b].code = <<>> /\ C[b].end = Open /\ Flows(b, C[b])
  BY <1>2, <1>3, CreatedFlows
<1>6. /\ insert \in DOMAIN C /\ C[insert] = blocks[insert] /\ ~Terminated(C, insert)
      /\ insert \notin S /\ Due(Starts(insert), C[insert].code, Lands(pos))
  BY <1>1, <1>4 DEF Terminated
<1>7. PICK D : D = Ended(C, insert, end)
  OBVIOUS
<1>8. /\ Flows(insert, D[insert]) /\ Terminated(D, insert) /\ DOMAIN D = DOMAIN C
      /\ D[insert].end = end
      /\ \A c \in DOMAIN C \ {insert} : D[c] = C[c]
  <2>1. PICK d : d = Lands(pos)
    OBVIOUS
  <2>2. Due(Starts(insert), C[insert].code, d) /\ EndFlows(end, d) /\ end # Open
    BY <1>6, <2>1
  <2> DEFINE E == Ended(C, insert, end)
  <2>3. /\ Flows(insert, E[insert]) /\ Terminated(E, insert) /\ DOMAIN E = DOMAIN C
        /\ E[insert].end = end
        /\ \A c \in DOMAIN C \ {insert} : E[c] = C[c]
    BY <1>4, <1>6, <2>2, EndedFlows
  <2>4. QED BY <1>7, <2>3
<1>9. Sound(D) BY <1>4, <1>6, <1>7, EndedFacts
<1>10. \A b \in S : D[b] = C[b] BY <1>4, <1>6, <1>8
<1>11. D = Fork(S, end) BY <1>3, <1>7 DEF Fork
<1>12. Forked(D, S, end)
  BY <1>1, <1>4, <1>5, <1>6, <1>8, <1>9, <1>10 DEF Terminated, Forked
<1>13. QED BY <1>11, <1>12

LEMMA LoopFlows ==
  ASSUME IInv, FlowInv, EnterLoop
  PROVE  FlowInv' /\ Steered
<1>1. /\ pos \in DOMAIN prog /\ pos # Top /\ ~Terminated(blocks, insert)
      /\ prog[pos].kind \in {"loop", "while"}
  BY VisitingFacts DEF EnterLoop
<1>2. PICK m, y, h : m = Merge(pos) /\ y = Body(pos) /\ h = Header(pos)
  OBVIOUS
<1>3. PICK S : S = {m, y, h}
  OBVIOUS
<1>4. DescentInv /\ BlocksInv /\ Sound(blocks) /\ insert \in DOMAIN blocks /\ prog \in Programs
  BY <1>1, HereFacts
<1>5. /\ m \in Names /\ y \in Names /\ h \in Names
      /\ m[1] = pos /\ y[1] = pos /\ h[1] = pos
      /\ m[2] = "merge" /\ y[2] = "body"
      /\ IF prog[pos].kind = "while" THEN h[2] = "header" ELSE h = y
  BY <1>1, <1>2 DEF Merge, Body, Header, Block, Names, Roles
<1>6. m \notin DOMAIN blocks /\ y \notin DOMAIN blocks /\ h \notin DOMAIN blocks
  <2>1. h[2] \in {"header", "body"} BY <1>5
  <2>2. QED BY <1>1, <1>4, <1>5, <2>1, FreshFacts
<1>7. PICK end \in Ends : end = Br(Silent, h) /\ Range(end.to) = {h} /\ end # Open
  BY <1>5, EventFacts, EndFacts
<1>8. PICK D : D = Fork(S, end)
  OBVIOUS
<1>9. /\ Enter(1, HereFrame) /\ prog' = prog /\ pos' = First(pos, 1) /\ insert' = y
      /\ blocks' = IF prog[pos].kind = "while"
                     THEN Ended(D, h, CondBr(Event(pos, 1), y, m)) ELSE D
  BY <1>2, <1>3, <1>7, <1>8 DEF EnterLoop, Control, Outside, Stmt, Enter, Fork
<1>10. Starts(y) = Lands(First(pos, 1)) /\ Starts(h) = Lands(pos)
  <2>1. Starts(y) = Lands(First(pos, 1)) BY <1>2 DEF Starts, Body, Block
  <2>2. CASE prog[pos].kind = "while"
    <3>1. Starts(h) = Event(pos, 1) BY <1>2, <2>2 DEF Starts, Header, Block
    <3>2. Lands(pos) = Event(pos, 1) BY <1>1, <2>2, DueHere
    <3>3. QED BY <2>1, <3>1, <3>2
  <2>3. CASE prog[pos].kind = "loop"
    <3>1. Lands(pos) = Lands(First(pos, 1)) /\ h = y
      BY <1>1, <1>5, <2>3, DueHere
    <3>2. QED BY <2>1, <3>1
  <2>4. QED BY <1>1, <2>2, <2>3
<1>11. EndFlows(end, Lands(pos))
  <2>1. end.op = "br" /\ end.event = Silent /\ end.to[1] = h BY <1>7 DEF Br
  <2>2. QED BY <1>10, <2>1 DEF EndFlows
<1>12. /\ Sound(D) /\ DOMAIN D = DOMAIN blocks \union S
       /\ \A b \in DOMAIN blocks \ {insert} : D[b] = blocks[b]
       /\ insert \in DOMAIN D /\ Flows(insert, D[insert]) /\ Terminated(D, insert)
       /\ D[insert].end = end
       /\ \A b \in S : D[b].code = <<>> /\ D[b].end = Open /\ Flows(b, D[b]) /\ ~Terminated(D, b)
  <2>1. S \subseteq Names /\ (\A b \in S : b \notin DOMAIN blocks)
        /\ Range(end.to) \subseteq DOMAIN blocks \union S
    BY <1>3, <1>5, <1>6, <1>7
  <2>2. Forked(D, S, end) BY <1>1, <1>7, <1>8, <1>11, <2>1, ForkFlows
  <2>3. QED BY <2>2 DEF Forked
<1>13. /\ DOMAIN blocks' = DOMAIN blocks \union S
       /\ \A b \in DOMAIN blocks \ {insert} : blocks'[b] = blocks[b]
       /\ insert \in DOMAIN blocks' /\ Flows(insert, blocks'[insert]) /\ Terminated(blocks', insert)
       /\ \A b \in S : blocks'[b].code = <<>> /\ Flows(b, blocks'[b])
       /\ blocks'[insert].end = end /\ ~Terminated(blocks', m) /\ ~Terminated(blocks', y)
       /\ h = y \/ blocks'[h].end.op = "cond_br"
  <2>1. CASE prog[pos].kind = "while"
    <3>1. PICK e \in Events : e = Event(pos, 1) BY <1>1, EventFacts
    <3>2. PICK test : test = CondBr(e, y, m)
      OBVIOUS
    <3>3. test.op = "cond_br" /\ test.event = e /\ test.to[1] = y /\ test.to[2] = m /\ test # Open
      BY <3>2 DEF CondBr, Open
    <3>4. Allowed(e) /\ Ada!IsTest(e) /\ ~Ada!IsFinal(e)
      BY <1>1, <1>4, <2>1, <3>1, StepFacts
    <3>5. Follows(e, TRUE) = Starts(y) /\ Follows(e, FALSE) = Starts(m)
      BY <1>1, <1>2, <1>4, <2>1, <3>1, FollowsIs
    <3>6. EndFlows(test, e) BY <3>3, <3>4, <3>5 DEF EndFlows
    <3>7. Due(Starts(h), D[h].code, e) /\ h \in DOMAIN D
      <4>1. Starts(h) = e BY <1>2, <2>1, <3>1 DEF Starts, Header, Block
      <4>2. D[h].code = <<>> /\ h \in DOMAIN D BY <1>3, <1>12
      <4>3. QED BY <4>1, <4>2, DueAtStart
    <3>8. blocks' = Ended(D, h, test) BY <1>9, <2>1, <3>1, <3>2
    <3>9. PICK F : F = Ended(D, h, test)
      OBVIOUS
    <3>10. /\ F[h].code = D[h].code /\ Flows(h, F[h]) /\ DOMAIN F = DOMAIN D /\ F[h].end = test
           /\ \A c \in DOMAIN D \ {h} : F[c] = D[c]
      BY <1>12, <3>3, <3>6, <3>7, <3>9, EndedFlows
    <3>11. h # insert /\ h \in S BY <1>3, <1>4, <1>6
    <3>12. \A b \in S : F[b].code = <<>> /\ Flows(b, F[b]) BY <1>12, <3>10
    <3>13. F[insert] = D[insert] /\ \A b \in DOMAIN blocks \ {insert} : F[b] = D[b]
      BY <1>4, <1>6, <1>12, <3>10, <3>11
    <3>14. F[m] = D[m] /\ F[y] = D[y] /\ m \in S /\ y \in S
      <4>1. m # h /\ y # h /\ m \in S /\ y \in S BY <1>3, <1>5, <2>1
      <4>2. QED BY <1>12, <3>10, <4>1
    <3>15. ~Terminated(F, m) /\ ~Terminated(F, y)
      BY <1>12, <3>14 DEF Terminated
    <3>16. QED
      BY <1>12, <3>3, <3>8, <3>9, <3>10, <3>12, <3>13, <3>15 DEF Terminated
  <2>2. CASE prog[pos].kind # "while"
    <3>1. m \in S /\ y \in S /\ h = y /\ blocks' = D BY <1>3, <1>5, <1>9, <2>2
    <3>2. QED BY <1>12, <3>1
  <2>3. QED BY <2>1, <2>2
<1>14. DueIn(blocks', insert', Lands(pos'))
  BY <1>3, <1>9, <1>10, <1>13, DueBlank
<1>15. Ahead(pos, 1) = {m} /\ 1 \in 1..Parts(prog[pos])
  BY <1>1, <1>2 DEF Droppable, Ahead, Closing, LoopKinds, Parts
<1>16. \A c \in Ahead(pos, 1) : blocks'[c].code = <<>> BY <1>3, <1>13, <1>15
<1>17. \A b \in S : b[2] # "label" BY <1>3, <1>5
<1>18. /\ \A b \in DOMAIN blocks \ {insert} : Same(b)
       /\ \A b \in DOMAIN blocks' \ DOMAIN blocks : Flows(b, blocks'[b]) /\ b[2] # "label"
  BY <1>13, <1>17 DEF Same
<1>19. insert'[1] = pos /\ insert' = Body(pos) BY <1>2, <1>5, <1>9
<1>20. Steers({}, Ahead(pos, 1))
  <2>1. Range(blocks'[insert].end.to) = {h} /\ blocks'[insert].end.to[1] = h
    BY <1>7, <1>13 DEF Br
  <2>2. ~Quiet(blocks'[h]) BY <1>13 DEF Quiet, Terminated, Open
  <2>3. \A b \in DOMAIN blocks' \ DOMAIN blocks : Titled(b) /\ (Awaits(b, Ahead(pos, 1)) \/ Shuts(b))
    <3> TAKE b \in DOMAIN blocks' \ DOMAIN blocks
    <3>1. b = m \/ b = y \/ (b = h /\ h # y) BY <1>3, <1>13
    <3>2. Titled(b) BY <1>5, <3>1 DEF Titled
    <3>3. b \in {m, y} => Awaits(b, Ahead(pos, 1))
      BY <1>9, <1>13, <1>15 DEF Awaits
    <3>4. b = h /\ h # y => Shuts(b)
      BY <1>13, <2>1, <2>2 DEF Shuts, Terminated, Open
    <3>5. QED BY <3>1, <3>2, <3>3, <3>4
  <2>4. pos \notin Labels(prog) BY <1>1 DEF Labels
  <2>5. QED BY <1>13, <1>18, <2>1, <2>2, <2>3, <2>4, SteersOn
<1>21. QED
  BY <1>1, <1>9, <1>13, <1>14, <1>15, <1>16, <1>18, <1>19, <1>20, FlowsInto

LEMMA ForFlows ==
  ASSUME IInv, FlowInv, EnterFor
  PROVE  FlowInv' /\ Steered
<1>1. /\ pos \in DOMAIN prog /\ pos # Top /\ ~Terminated(blocks, insert)
      /\ prog[pos].kind = "for"
  BY VisitingFacts DEF EnterFor
<1>2. PICK m, s, y, i : m = Merge(pos) /\ s = StepBlock(pos) /\ y = Body(pos) /\ i = InitBlock(pos)
  OBVIOUS
<1>3. PICK S : S = {m, s, y, i}
  OBVIOUS
<1>4. DescentInv /\ BlocksInv /\ Sound(blocks) /\ insert \in DOMAIN blocks /\ prog \in Programs
  BY <1>1, HereFacts
<1>5. /\ m \in Names /\ s \in Names /\ y \in Names /\ i \in Names
      /\ m[1] = pos /\ s[1] = pos /\ y[1] = pos /\ i[1] = pos
      /\ m[2] = "merge" /\ s[2] = "step" /\ y[2] = "body" /\ i[2] = "init"
  BY <1>1, <1>2 DEF Merge, StepBlock, Body, InitBlock, Block, Names, Roles
<1>6. \A b \in S : b \notin DOMAIN blocks /\ b[2] # "label"
  <2>1. \A b \in S : b[1] = pos /\ b[2] \in {"merge", "step", "body", "init"}
    BY <1>3, <1>5
  <2>2. QED BY <1>1, <1>4, <2>1, FreshFacts
<1>7. PICK e \in Events : e = Event(pos, 1) BY <1>1, EventFacts
<1>8. PICK end \in Ends : end = CondBr(e, i, m) /\ Range(end.to) = {i, m} /\ end # Open
  <2>1. CondBr(e, i, m) \in Ends /\ CondBr(e, i, m) # Open /\ Range(CondBr(e, i, m).to) = {i, m}
    BY <1>5, EndFacts
  <2>2. QED BY <2>1
<1>9. PICK D : D = Fork(S, end)
  OBVIOUS
<1>10. PICK on \in Ends : on = Br(Silent, y) /\ on # Open
  BY <1>5, EventFacts, EndFacts
<1>11. /\ Enter(1, HereFrame) /\ prog' = prog /\ pos' = First(pos, 1) /\ insert' = y
       /\ blocks' = Ended(D, i, on)
  BY <1>2, <1>3, <1>7, <1>8, <1>9, <1>10 DEF EnterFor, Control, Outside, Enter, Fork
<1>12. Starts(y) = Lands(First(pos, 1)) /\ Starts(i) = Starts(y)
  BY <1>2 DEF Starts, Body, InitBlock, Block
<1>13. Lands(pos) = e BY <1>1, <1>7, DueHere
<1>14. EndFlows(end, e)
  <2>1. end.op = "cond_br" /\ end.event = e /\ end.to[1] = i /\ end.to[2] = m
    BY <1>8 DEF CondBr
  <2>2. /\ Allowed(e) /\ Ada!IsTest(e) /\ ~Ada!IsFinal(e)
        /\ Follows(e, TRUE) = Starts(i) /\ Follows(e, FALSE) = Starts(m)
    BY <1>1, <1>2, <1>4, <1>7, FollowsIs
  <2>3. QED BY <2>1, <2>2 DEF EndFlows
<1>15. EndFlows(on, Starts(i))
  <2>1. on.op = "br" /\ on.event = Silent /\ on.to[1] = y BY <1>10 DEF Br
  <2>2. QED BY <1>12, <2>1 DEF EndFlows
<1>16. /\ Sound(D) /\ DOMAIN D = DOMAIN blocks \union S
       /\ \A b \in DOMAIN blocks \ {insert} : D[b] = blocks[b]
       /\ insert \in DOMAIN D /\ Flows(insert, D[insert]) /\ Terminated(D, insert)
       /\ D[insert].end = end
       /\ \A b \in S : D[b].code = <<>> /\ D[b].end = Open /\ Flows(b, D[b]) /\ ~Terminated(D, b)
  <2>1. S \subseteq Names /\ (\A b \in S : b \notin DOMAIN blocks)
        /\ Range(end.to) \subseteq DOMAIN blocks \union S
    BY <1>3, <1>5, <1>6, <1>8
  <2>2. Forked(D, S, end) BY <1>1, <1>8, <1>9, <1>13, <1>14, <2>1, ForkFlows
  <2>3. QED BY <2>2 DEF Forked
<1>17. /\ DOMAIN blocks' = DOMAIN blocks \union S
       /\ \A b \in DOMAIN blocks \ {insert} : blocks'[b] = blocks[b]
       /\ insert \in DOMAIN blocks' /\ Flows(insert, blocks'[insert]) /\ Terminated(blocks', insert)
       /\ \A b \in S : blocks'[b].code = <<>> /\ Flows(b, blocks'[b])
       /\ blocks'[insert].end = end /\ blocks'[i].end = on /\ \A b \in {m, s, y} : ~Terminated(blocks', b)
  <2>1. PICK d : d = Starts(i)
    OBVIOUS
  <2>2. Due(Starts(i), D[i].code, d) /\ i \in DOMAIN D /\ EndFlows(on, d)
    <3>1. D[i].code = <<>> /\ i \in DOMAIN D BY <1>3, <1>16
    <3>2. QED BY <1>15, <2>1, <3>1, DueAtStart
  <2>3. PICK F : F = Ended(D, i, on)
    OBVIOUS
  <2>4. /\ F[i].code = D[i].code /\ Flows(i, F[i]) /\ DOMAIN F = DOMAIN D /\ F[i].end = on
        /\ \A c \in DOMAIN D \ {i} : F[c] = D[c]
    BY <1>10, <1>16, <2>2, <2>3, EndedFlows
  <2>5. i # insert /\ i \in S BY <1>3, <1>4, <1>6
  <2>6. \A b \in S : F[b].code = <<>> /\ Flows(b, F[b]) BY <1>16, <2>4
  <2>7. F[insert] = D[insert] /\ \A b \in DOMAIN blocks \ {insert} : F[b] = D[b]
    BY <1>4, <1>6, <1>16, <2>4, <2>5
  <2>8. \A b \in {m, s, y} : F[b] = D[b] /\ ~Terminated(D, b)
    <3>1. \A b \in {m, s, y} : b \in S /\ b # i BY <1>3, <1>5
    <3>2. QED BY <1>16, <2>4, <3>1
  <2>9. QED BY <1>11, <1>16, <2>3, <2>4, <2>6, <2>7, <2>8 DEF Terminated
<1>18. DueIn(blocks', insert', Lands(pos'))
  BY <1>3, <1>11, <1>12, <1>17, DueBlank
<1>19. Ahead(pos, 1) = {m, s} /\ 1 \in 1..Parts(prog[pos])
  BY <1>1, <1>2 DEF Droppable, Ahead, Closing, LoopKinds, Parts
<1>20. \A c \in Ahead(pos, 1) : blocks'[c].code = <<>> BY <1>3, <1>17, <1>19
<1>21. /\ \A b \in DOMAIN blocks \ {insert} : Same(b)
       /\ \A b \in DOMAIN blocks' \ DOMAIN blocks : Flows(b, blocks'[b]) /\ b[2] # "label"
  BY <1>6, <1>17 DEF Same
<1>22. insert'[1] = pos /\ insert' = Body(pos) BY <1>2, <1>5, <1>11
<1>23. Steers({}, Ahead(pos, 1))
  <2>1. ~Quiet(blocks'[insert]) /\ i \in Range(blocks'[insert].end.to)
    BY <1>8, <1>17 DEF CondBr, Quiet
  <2>2. Shuts(i)
    <3>1. blocks'[i].end.to[1] = y /\ ~Quiet(blocks'[y])
      BY <1>10, <1>17 DEF Br, Quiet, Terminated, Open
    <3>2. QED BY <1>5, <1>10, <1>17, <2>1, <3>1 DEF Shuts, Terminated
  <2>3. \A b \in DOMAIN blocks' \ DOMAIN blocks : Titled(b) /\ (Awaits(b, Ahead(pos, 1)) \/ Shuts(b))
    <3> TAKE b \in DOMAIN blocks' \ DOMAIN blocks
    <3>1. b \in {m, s, y} \/ b = i BY <1>3, <1>17
    <3>2. Titled(b) BY <1>5, <3>1 DEF Titled
    <3>3. b \in {m, s, y} => Awaits(b, Ahead(pos, 1))
      BY <1>11, <1>17, <1>19 DEF Awaits
    <3>4. QED BY <2>2, <3>1, <3>2, <3>3
  <2>4. pos \notin Labels(prog) BY <1>1 DEF Labels
  <2>5. QED BY <1>17, <1>21, <2>1, <2>3, <2>4, SteersOn
<1>24. QED
  BY <1>1, <1>11, <1>17, <1>18, <1>19, <1>20, <1>21, <1>22, <1>23, FlowsInto

LEMMA CreatedTwice ==
  ASSUME NEW B, NEW S, NEW T
  PROVE  Created(Created(B, S), T \ S) = Created(B, S \union T)
<1>1. PICK C : C = Created(B, S)
  OBVIOUS
<1>2. DOMAIN C = DOMAIN B \union S BY <1>1 DEF Created
<1>3. \A b \in DOMAIN C : C[b] = IF b \in DOMAIN B THEN B[b] ELSE [code |-> <<>>, end |-> Open]
  BY <1>1 DEF Created
<1>4. DOMAIN C \union (T \ S) = DOMAIN B \union (S \union T) BY <1>2
<1>5. \A b \in DOMAIN C \union (T \ S) :
        (IF b \in DOMAIN C THEN C[b] ELSE [code |-> <<>>, end |-> Open])
          = IF b \in DOMAIN B THEN B[b] ELSE [code |-> <<>>, end |-> Open]
  BY <1>2, <1>3
<1>6. Created(C, T \ S) = Created(B, S \union T) BY <1>4, <1>5 DEF Created
<1>7. QED BY <1>1, <1>6

LEMMA IfFlows ==
  ASSUME IInv, FlowInv, EnterIf
  PROVE  FlowInv' /\ Steered
<1>1. /\ pos \in DOMAIN prog /\ pos # Top /\ ~Terminated(blocks, insert)
      /\ prog[pos].kind = "if"
  BY VisitingFacts DEF EnterIf
<1>2. PICK m, t, f : m = Merge(pos) /\ t = Then(pos, 1) /\ f = FalseBlock(pos, 1)
  OBVIOUS
<1>3. PICK S : S = {m, t, f}
  OBVIOUS
<1>4. DescentInv /\ BlocksInv /\ Sound(blocks) /\ insert \in DOMAIN blocks /\ prog \in Programs
  BY <1>1, HereFacts
<1>5. /\ m \in Names /\ t \in Names /\ f \in Names
      /\ m[1] = pos /\ t[1] = pos /\ f[1] = pos
      /\ m[2] = "merge" /\ t[2] = "then" /\ t[3] = 1
      /\ f = m \/ (f[2] = "false" /\ f[3] = 1)
  BY <1>1, <1>2 DEF Merge, Then, FalseBlock, Block, Names, Roles
<1>6. \A b \in S : b \notin DOMAIN blocks /\ b[2] # "label"
  <2>1. \A b \in S : b[1] = pos /\ b[2] # "label" /\ (b[2] \in {"then", "false"} => b[3] = 1)
    BY <1>3, <1>5
  <2>2. QED BY <1>1, <1>4, <2>1, FreshFacts
<1>7. PICK e \in Events : e = Event(pos, 1) BY <1>1, EventFacts
<1>8. PICK end \in Ends : end = CondBr(e, t, f) /\ Range(end.to) = {t, f} /\ end # Open
  <2>1. CondBr(e, t, f) \in Ends /\ CondBr(e, t, f) # Open /\ Range(CondBr(e, t, f).to) = {t, f}
    BY <1>5, EndFacts
  <2>2. QED BY <2>1
<1>9. PICK D : D = Fork(S, end)
  OBVIOUS
<1>10. prog[pos].guards \in Nat \ {0} /\ 1 \in 1..prog[pos].guards /\ 1 \in 1..Parts(prog[pos])
  <2>1. prog[pos].guards \in Nat \ {0} /\ prog[pos].hasElse \in BOOLEAN
    BY <1>1, <1>4, ProgramFacts
  <2>2. Parts(prog[pos]) = prog[pos].guards + (IF prog[pos].hasElse THEN 1 ELSE 0)
    BY <1>1 DEF Parts, LoopKinds
  <2>3. QED BY <2>1, <2>2
<1>11. /\ Enter(1, HereFrame) /\ prog' = prog /\ pos' = First(pos, 1) /\ insert' = t /\ blocks' = D
  <2>1. /\ Enter(1, HereFrame) /\ prog' = prog /\ pos' = First(pos, 1) /\ insert' = t
        /\ blocks' = Tested(Created(blocks, {m}), pos, 1, insert)
    BY <1>2 DEF EnterIf, Control, Outside, Enter
  <2>2. Created(Created(blocks, {m}), {t, f} \ {m}) = Created(blocks, S)
    <3>1. {m} \union {t, f} = S BY <1>3
    <3>2. QED BY <3>1, CreatedTwice
  <2>3. Tested(Created(blocks, {m}), pos, 1, insert)
          = Ended(Created(Created(blocks, {m}), {t, f} \ {m}), insert, end)
    BY <1>2, <1>7, <1>8 DEF Tested
  <2>4. QED BY <1>9, <2>1, <2>2, <2>3 DEF Fork
<1>12. Lands(pos) = e BY <1>1, <1>7, DueHere
<1>13. Follows(e, TRUE) = Starts(t) /\ Follows(e, FALSE) = Starts(f)
  BY <1>1, <1>2, <1>4, <1>7, <1>10, FollowsIs
<1>14. EndFlows(end, e)
  <2>1. end.op = "cond_br" /\ end.event = e /\ end.to[1] = t /\ end.to[2] = f
    BY <1>8 DEF CondBr
  <2>2. Allowed(e) /\ Ada!IsTest(e) /\ ~Ada!IsFinal(e)
    BY <1>1, <1>4, <1>7, StepFacts
  <2>3. QED BY <1>13, <2>1, <2>2 DEF EndFlows
<1>15. /\ Sound(D) /\ DOMAIN D = DOMAIN blocks \union S
       /\ \A b \in DOMAIN blocks \ {insert} : D[b] = blocks[b]
       /\ insert \in DOMAIN D /\ Flows(insert, D[insert]) /\ Terminated(D, insert)
       /\ D[insert].end = end
       /\ \A b \in S : D[b].code = <<>> /\ D[b].end = Open /\ Flows(b, D[b]) /\ ~Terminated(D, b)
  <2>1. S \subseteq Names /\ (\A b \in S : b \notin DOMAIN blocks)
        /\ Range(end.to) \subseteq DOMAIN blocks \union S
    BY <1>3, <1>5, <1>6, <1>8
  <2>2. Forked(D, S, end) BY <1>1, <1>8, <1>9, <1>12, <1>14, <2>1, ForkFlows
  <2>3. QED BY <2>2 DEF Forked
<1>16. DueIn(blocks', insert', Lands(pos'))
  <2>1. Starts(t) = Lands(First(pos, 1)) BY <1>2 DEF Starts, Then
  <2>2. blocks'[t].code = <<>> BY <1>3, <1>11, <1>15
  <2>3. QED BY <1>11, <2>1, <2>2, DueBlank
<1>17. Ahead(pos, 1) = {m, f}
  BY <1>1, <1>2, <1>10 DEF Droppable, Ahead, Closing, LoopKinds
<1>18. \A c \in Ahead(pos, 1) : blocks'[c].code = <<>>
  BY <1>3, <1>11, <1>15, <1>17
<1>19. /\ \A b \in DOMAIN blocks \ {insert} : Same(b)
       /\ \A b \in DOMAIN blocks' \ DOMAIN blocks : Flows(b, blocks'[b]) /\ b[2] # "label"
       /\ insert \in DOMAIN blocks' /\ Flows(insert, blocks'[insert]) /\ Terminated(blocks', insert)
  BY <1>6, <1>11, <1>15 DEF Same
<1>20. insert'[1] = pos /\ prog[pos].kind \notin {"subp", "loop", "while"}
  BY <1>1, <1>5, <1>11
<1>21. Steers({}, Ahead(pos, 1))
  <2>1. ~Quiet(blocks'[insert]) BY <1>8, <1>11, <1>15 DEF CondBr, Quiet
  <2>2. \A b \in DOMAIN blocks' \ DOMAIN blocks : Titled(b) /\ Awaits(b, Ahead(pos, 1))
    <3> TAKE b \in DOMAIN blocks' \ DOMAIN blocks
    <3>1. b \in S /\ (b = t \/ b \in {m, f}) BY <1>3, <1>11, <1>15
    <3>2. Titled(b) BY <1>5, <3>1 DEF Titled
    <3>3. Awaits(b, Ahead(pos, 1)) BY <1>11, <1>15, <1>17, <3>1 DEF Awaits
    <3>4. QED BY <3>2, <3>3
  <2>3. pos \notin Labels(prog) BY <1>1 DEF Labels
  <2>4. QED BY <1>19, <2>1, <2>2, <2>3, SteersOn
<1>22. QED BY <1>1, <1>10, <1>11, <1>16, <1>18, <1>19, <1>20, <1>21, FlowsInto

(* At the end of a part of a statement.                                    *)
LEMMA DueAtEnd ==
  ASSUME IInv, FlowInv, NEW kind, AtEndOf(kind), NEW q, q = Outer(pos)
  PROVE  /\ ~Terminated(blocks, insert) => Due(Starts(insert), blocks[insert].code, Lands(pos))
         /\ insert \in DOMAIN blocks /\ Sound(blocks) /\ Flows(insert, blocks[insert])
         /\ kind \in {"if", "block"} => Lands(pos) = Lands(After(q))
         /\ kind = "for" => Lands(pos) = Event(q, 2)
         /\ kind \notin {"if", "block", "for"} => Lands(pos) = Event(q, 1)
         /\ \A b \in Ahead(q, Part(pos)) : blocks[b].code = <<>> /\ b \in DOMAIN blocks
                                            /\ ~Terminated(blocks, b) /\ b # insert
<1>1. /\ Depth \in Nat /\ Depth > 0 /\ prog \in Programs /\ prog[q].kind = kind
      /\ insert \in DOMAIN blocks /\ Sound(blocks) /\ DescentInv
      /\ q = Owner(Depth) /\ Part(pos) = PartOf(Depth)
      /\ \A b \in Ahead(q, Part(pos)) : b \in DOMAIN blocks /\ ~Terminated(blocks, b) /\ b # insert
  BY AtEndFacts
<1>2. pos \notin DOMAIN prog /\ pos # After(Top) /\ pos \in Ada!Positions
  BY <1>1 DEF AtEndOf, DescentInv
<1>3. pos \in Ada!Inside
  <2>1. Top \in DOMAIN prog BY <1>1, ProgramFacts
  <2>2. pos # Top BY <1>2, <2>1
  <2>3. QED BY <1>2, <2>2, InsideAre, PositionsAre
<1>4. Lands(pos) = CASE prog[q].kind \in {"if", "block"} -> Lands(After(q))
                     [] prog[q].kind = "for" -> Event(q, 2)
                     [] OTHER -> Event(q, 1)
  BY <1>1, <1>2, <1>3, LandsIs
<1>5. ~Terminated(blocks, insert) => Due(Starts(insert), blocks[insert].code, Lands(pos))
  BY <1>1 DEF FlowInv, CursorInv, DueIn
<1>6. Flows(insert, blocks[insert]) BY <1>1 DEF FlowInv, CodeInv
<1>7. \A b \in Ahead(q, Part(pos)) : blocks[b].code = <<>>
  <2>1. Depth \in 1..Depth BY <1>1
  <2>2. QED BY <1>1, <2>1 DEF FlowInv, FreshInv
<1>8. QED BY <1>1, <1>4, <1>5, <1>6, <1>7

(* Behind a statement.                                                     *)
LEMMA FlowsOut ==
  ASSUME IInv, FlowInv, NEW kind, AtEndOf(kind), NEW q, q = Outer(pos), prog' = prog,
         LeaveTo(After(q)),
         \A b \in DOMAIN blocks :
           /\ Same(b) \/ b = insert \/ (b[1] = q /\ b[2] # "label")
           /\ Terminated(blocks, b) => b \in DOMAIN blocks' /\ Terminated(blocks', b),
         \A b \in DOMAIN blocks' :
           b \in DOMAIN blocks /\ (Same(b) \/ Flows(b, blocks'[b])),
         q # Top => DueIn(blocks', insert', Lands(After(q))),
         insert' = insert \/ insert'[1] = q \/ insert' = Frame.block,
         insert' = insert \/ Terminated(blocks', insert) \/ kind = "subp",
         kind = "subp" => insert' = Frame.block
  PROVE  FlowInv' /\ (Steers(Ahead(q, Part(pos)), {}) => Steered)
<1>1. /\ Depth \in Nat /\ Depth > 0 /\ DescentInv /\ prog[q].kind = kind
      /\ q = Owner(Depth) /\ Frame = frames[Depth]
  BY AtEndFacts
<1>2. PICK m \in Nat : m = Depth BY <1>1
<1>3. PICK n \in Nat : n = m - 1 BY <1>1, <1>2
<1>4. n < Depth /\ n <= n + 1 /\ Depth <= n + 1 /\ ~(n > n) BY <1>2, <1>3
<1>5. Moved(n, n) /\ pos' = After(q)
  <2>1. LeaveTo(After(Outer(pos)))
    OBVIOUS
  <2>2. Moved(Depth - 1, Depth - 1) /\ pos' = After(Owner(Depth))
    BY <1>1, <2>1, MoveOut
  <2>3. QED BY <1>1, <1>2, <1>3, <2>2
<1>6. n > 0 => q # Top
  <2> SUFFICES ASSUME q = Top PROVE ~(n > 0)
    OBVIOUS
  <2>1. m \in 1..Depth BY <1>1, <1>2
  <2>2. Len(Owner(m)) = 2 * m - 1 /\ Len(Top) = 1
    BY <1>1, <2>1, PositionFacts, TopFacts
  <2>3. 2 * m - 1 = 1 BY <1>1, <1>2, <2>2
  <2>4. QED BY <1>3, <2>3
<1>7. n > 0 => DueIn(blocks', insert', Lands(pos')) BY <1>5, <1>6
<1>8. Continues(n, n) BY <1>1, <1>4, <1>5, <1>7 DEF Continues
<1>9. Steers(Ahead(q, Part(pos)), {}) => Carry(n, n, Ahead(q, Part(pos)), {})
  <2>1. n # Depth /\ n = Depth - 1 /\ pos \notin DOMAIN prog
    BY <1>2, <1>3 DEF AtEndOf
  <2>2. Turns BY <1>1, <1>5, <2>1 DEF Turns
  <2>3. Part(pos) = PartOf(Depth) BY AtEndFacts
  <2>4. QED BY <1>1, <1>5, <2>1, <2>2, <2>3 DEF Carry
<1>10. QED BY <1>8, <1>9, FlowCarried DEF Steered

LEMMA LeaveBlockFlows ==
  ASSUME IInv, FlowInv, LeaveBlock
  PROVE  FlowInv' /\ Steered
<1>1. PICK q : q = Outer(pos)
  OBVIOUS
<1>2. /\ AtEndOf("block") /\ LeaveTo(After(q)) /\ prog' = prog
      /\ insert' = insert /\ blocks' = blocks
  BY <1>1 DEF LeaveBlock, Control, Outside
<1>3. /\ ~Terminated(blocks, insert) => Due(Starts(insert), blocks[insert].code, Lands(pos))
      /\ Lands(pos) = Lands(After(q))
  BY <1>1, <1>2, DueAtEnd
<1>4. DueIn(blocks', insert', Lands(After(q))) BY <1>2, <1>3 DEF DueIn
<1>5. \A b \in DOMAIN blocks : Same(b) /\ (Terminated(blocks, b) => Terminated(blocks', b))
  BY <1>2 DEF Same
<1>6. Steers(Ahead(q, Part(pos)), {})
  <2>1. Ahead(q, Part(pos)) = {}
    BY <1>1, <1>2 DEF AtEndOf, Droppable, Ahead, Closing, LoopKinds
  <2>2. pos \notin Labels(prog) BY <1>2 DEF AtEndOf, Labels
  <2>3. QED BY <1>2, <1>5, <2>1, <2>2 DEF Steers, Kept, Rests
<1>7. QED BY <1>1, <1>2, <1>4, <1>5, <1>6, FlowsOut

(* What is inserted into, ended if it is still open.                       *)
LEMMA BackFlows ==
  ASSUME IInv, FlowInv, NEW kind, AtEndOf(kind), NEW end, end # Open, EndFlows(end, Lands(pos)),
         NEW B, B = BranchIfOpen(blocks, insert, end)
  PROVE  /\ DOMAIN B = DOMAIN blocks /\ insert \in DOMAIN blocks
         /\ Flows(insert, B[insert]) /\ Terminated(B, insert)
         /\ \A b \in DOMAIN blocks \ {insert} : B[b] = blocks[b]
<1>1. /\ ~Terminated(blocks, insert) => Due(Starts(insert), blocks[insert].code, Lands(pos))
      /\ insert \in DOMAIN blocks /\ Sound(blocks) /\ Flows(insert, blocks[insert])
  BY DueAtEnd
<1>2. CASE Terminated(blocks, insert) BY <1>1, <1>2 DEF BranchIfOpen
<1>3. CASE ~Terminated(blocks, insert)
  <2>1. PICK d : d = Lands(pos)
    OBVIOUS
  <2>2. Due(Starts(insert), blocks[insert].code, d) /\ EndFlows(end, d)
    BY <1>1, <1>3, <2>1
  <2> DEFINE E == Ended(blocks, insert, end)
  <2>3. /\ Flows(insert, E[insert]) /\ Terminated(E, insert) /\ DOMAIN E = DOMAIN blocks
        /\ \A c \in DOMAIN blocks \ {insert} : E[c] = blocks[c]
    BY <1>1, <2>2, EndedFlows
  <2>4. B = E BY <1>3 DEF BranchIfOpen
  <2>5. QED BY <1>1, <2>3, <2>4
<1>4. QED BY <1>2, <1>3

(* It then leads on to where something is done.                            *)
LEMMA BackShuts ==
  ASSUME IInv, Sound(blocks), insert \in DOMAIN blocks, insert \in DOMAIN blocks',
         NEW v, NEW c, Br(v, c) # Open, blocks'[insert] = BranchIfOpen(blocks, insert, Br(v, c))[insert],
         ~Terminated(blocks, insert) /\ v = Silent => ~Quiet(blocks'[c])
  PROVE  Kept(insert) \/ Shuts(insert)
<1>1. CASE Terminated(blocks, insert) BY <1>1 DEF BranchIfOpen, Kept, Same
<1>2. CASE ~Terminated(blocks, insert)
  <2>1. blocks'[insert] = Ended(blocks, insert, Br(v, c))[insert]
    BY <1>2 DEF BranchIfOpen
  <2>2. blocks'[insert].end = Br(v, c) BY <2>1, EndIs
  <2>3. Terminated(blocks', insert) /\ blocks'[insert].end.event = v /\ blocks'[insert].end.to[1] = c
    BY <2>2 DEF Terminated, Br
  <2>4. QED BY <1>2, <2>3, InsertPlain DEF Shuts, Quiet
<1>3. QED BY <1>1, <1>2

(* The merge block goes on behind the statement, or is erased.             *)
LEMMA MergeFlows ==
  ASSUME IInv, FlowInv, NEW kind \in {"if", "loop", "while"}, AtEndOf(kind),
         NEW q, q = Outer(pos), prog' = prog, LeaveTo(After(q)),
         Ahead(q, Part(pos)) = {Merge(q)},
         NEW end, end # Open, EndFlows(end, Lands(pos)), NEW v, NEW c, end = Br(v, c),
         PassInv /\ v = Silent /\ c # Merge(q) => c \in DOMAIN blocks \ {insert} /\ ~Quiet(blocks[c]),
         NEW t \in DOMAIN blocks, t[1] = q \/ t = Frame.block,
         Terminated(blocks, t) \/ t = insert,
         NEW B, B = BranchIfOpen(blocks, insert, end), MergeAt(B, Merge(q), t)
  PROVE  FlowInv' /\ (PassInv => Steered)
<1>1. PICK m : m = Merge(q)
  OBVIOUS
<1>2. m[1] = q /\ m[2] = "merge" /\ Starts(m) = Lands(After(q))
  BY <1>1 DEF Merge, Block, Starts
<1>3. prog[q].kind = kind BY AtEndFacts
<1>4. m \in DOMAIN blocks /\ ~Terminated(blocks, m) /\ m # insert /\ blocks[m].code = <<>>
  <2>1. m \in Ahead(q, Part(pos)) BY <1>1, <1>3 DEF Ahead, Closing, Droppable
  <2>2. QED BY <2>1, DueAtEnd
<1>5. /\ DOMAIN B = DOMAIN blocks /\ insert \in DOMAIN blocks
      /\ Flows(insert, B[insert]) /\ Terminated(B, insert)
      /\ \A b \in DOMAIN blocks \ {insert} : B[b] = blocks[b]
  BY BackFlows
<1>6. Terminated(B, t) BY <1>5 DEF Terminated
<1>7. t # m BY <1>4
<1>8. /\ \A b \in DOMAIN blocks \ {m} : b \in DOMAIN blocks' /\ blocks'[b] = B[b]
      /\ DOMAIN blocks' \subseteq DOMAIN blocks
      /\ m \in DOMAIN blocks' => blocks'[m] = B[m] /\ insert' = m
      /\ (insert' = m /\ blocks' = B) \/ insert' = t
  <2>1. CASE blocks' = B /\ insert' = m BY <1>5, <2>1
  <2>2. CASE blocks' = Erased(B, m) /\ insert' = t
    <3>1. DOMAIN Erased(B, m) = DOMAIN B \ {m} /\ \A b \in DOMAIN B \ {m} : Erased(B, m)[b] = B[b]
      BY DEF Erased, Restrict
    <3>2. QED BY <1>5, <2>2, <3>1
  <2>3. QED BY <1>1, <2>1, <2>2 DEF MergeAt
<1>9. DueIn(blocks', insert', Lands(After(q)))
  <2>1. CASE insert' = m /\ blocks' = B
    <3>1. blocks'[m].code = <<>> BY <1>4, <1>5, <2>1
    <3>2. QED BY <1>2, <2>1, <3>1, DueBlank
  <2>2. CASE insert' = t
    <3>1. Terminated(blocks', t) BY <1>6, <1>7, <1>8 DEF Terminated
    <3>2. QED BY <2>2, <3>1 DEF DueIn
  <2>3. QED BY <1>8, <2>1, <2>2
<1>10. \A b \in DOMAIN blocks :
         /\ Same(b) \/ b = insert \/ (b[1] = q /\ b[2] # "label")
         /\ Terminated(blocks, b) => b \in DOMAIN blocks' /\ Terminated(blocks', b)
  <2> TAKE b \in DOMAIN blocks
  <2>1. CASE b = m BY <1>2, <1>4, <2>1
  <2>2. CASE b = insert BY <1>4, <1>5, <1>8, <2>2 DEF Terminated
  <2>3. CASE b # m /\ b # insert
    <3>1. b \in DOMAIN blocks' /\ blocks'[b] = blocks[b] BY <1>5, <1>8, <2>3
    <3>2. QED BY <3>1 DEF Same, Terminated
  <2>4. QED BY <2>1, <2>2, <2>3
<1>11. \A b \in DOMAIN blocks' : b \in DOMAIN blocks /\ (Same(b) \/ Flows(b, blocks'[b]))
  <2> TAKE b \in DOMAIN blocks'
  <2>1. CASE b = insert BY <1>4, <1>5, <1>8, <2>1
  <2>2. CASE b # insert BY <1>4, <1>5, <1>8, <2>2 DEF Same
  <2>3. QED BY <2>1, <2>2
<1>12. insert' = insert \/ insert'[1] = q \/ insert' = Frame.block
  BY <1>2, <1>8
<1>13. Terminated(blocks', insert) BY <1>4, <1>5, <1>8 DEF Terminated
<1>14. ASSUME PassInv PROVE Steers(Ahead(q, Part(pos)), {})
  <2>1. Sound(blocks) /\ pos \notin Labels(prog)
    BY DEF IInv, BlocksInv, AtEndOf, Labels
  <2>2. ~Terminated(blocks, insert) /\ v = Silent => ~Quiet(blocks'[c])
    <3> SUFFICES ASSUME ~Terminated(blocks, insert), v = Silent PROVE ~Quiet(blocks'[c])
      OBVIOUS
    <3>1. CASE c = m
      <4>1. B[insert].end = end BY <1>5, <2>1, EndIs DEF BranchIfOpen
      <4>2. m \in Range(B[insert].end.to) BY <3>1, <4>1 DEF Br, Range
      <4>3. HasPredecessors(B, m) BY <1>5, <4>2 DEF HasPredecessors
      <4>4. blocks' = B BY <1>1, <4>3 DEF MergeAt
      <4>5. blocks'[m] = blocks[m] BY <1>4, <1>5, <4>4
      <4>6. QED BY <1>4, <3>1, <4>5 DEF Quiet, Terminated, Open
    <3>2. CASE c # m
      <4>1. c \in DOMAIN blocks \ {insert, m} /\ ~Quiet(blocks[c])
        BY <1>1, <1>14, <3>2
      <4>2. QED BY <1>5, <1>8, <4>1
    <3>3. QED BY <3>1, <3>2
  <2>3. Kept(insert) \/ Shuts(insert)
    <3>1. insert \in DOMAIN blocks' /\ blocks'[insert] = BranchIfOpen(blocks, insert, Br(v, c))[insert]
      BY <1>4, <1>5, <1>8
    <3>2. QED BY <1>5, <2>1, <2>2, <3>1, BackShuts
  <2>4. \A b \in DOMAIN blocks' :
          (b \in DOMAIN blocks /\ b # m /\ Kept(b)) \/ Awaits(b, {}) \/ Shuts(b)
    <3> TAKE b \in DOMAIN blocks'
    <3>1. CASE b = m
      <4>1. blocks'[m] = blocks[m] /\ insert' = m BY <1>4, <1>5, <1>8, <3>1
      <4>2. QED BY <1>4, <3>1, <4>1 DEF Awaits, Terminated
    <3>2. CASE b = insert BY <1>4, <1>5, <2>3, <3>2
    <3>3. CASE b # m /\ b # insert BY <1>5, <1>8, <3>3 DEF Kept, Same
    <3>4. QED BY <3>1, <3>2, <3>3
  <2>5. \A b \in DOMAIN blocks : b[2] \in {"entry", "label"} => b \in DOMAIN blocks'
    BY <1>2, <1>8
  <2>6. DOMAIN blocks' \ DOMAIN blocks = {} /\ Rests(insert)
    BY <1>8, <1>13 DEF Rests
  <2>7. QED BY <1>1, <2>1, <2>4, <2>5, <2>6 DEF Steers
<1>15. QED BY <1>9, <1>10, <1>11, <1>12, <1>13, <1>14, FlowsOut

LEMMA LeaveLoopFlows ==
  ASSUME IInv, FlowInv, LeaveLoop
  PROVE  FlowInv' /\ (PassInv => Steered)
<1>1. PICK kind \in {"loop", "while"} : AtEndOf(kind) BY DEF LeaveLoop
<1>2. PICK q : q = Outer(pos)
  OBVIOUS
<1>3. /\ prog[q].kind = kind /\ Depth \in Nat /\ Depth > 0 /\ q = Owner(Depth)
      /\ q \in DOMAIN prog /\ prog \in Programs /\ Needed(q) \subseteq DOMAIN blocks
  BY <1>1, <1>2, AtEndFacts
<1>4. PICK v : v = IF kind = "loop" THEN Event(q, 1) ELSE Silent
  OBVIOUS
<1>5. PICK h : h = Header(q)
  OBVIOUS
<1>6. PICK end : end = Br(v, h)
  OBVIOUS
<1>7. end.op = "br" /\ end.event = v /\ end.to[1] = h /\ end # Open
  BY <1>6 DEF Br, Open
<1>8. PICK B : B = BranchIfOpen(blocks, insert, end)
  OBVIOUS
<1>9. MergeAt(B, Merge(q), Body(q)) /\ LeaveTo(After(q)) /\ prog' = prog
  BY <1>2, <1>3, <1>4, <1>5, <1>6, <1>8 DEF LeaveLoop, Control, Outside
<1>10. EndFlows(end, Lands(pos))
  <2>1. Lands(pos) = Event(q, 1) BY <1>1, <1>2, DueAtEnd
  <2>2. PICK e : e = Event(q, 1)
    OBVIOUS
  <2>3. CASE kind = "loop"
    <3>1. Plain(e) /\ Follows(e, TRUE) = Starts(Body(q))
      BY <1>3, <2>2, <2>3, FollowsIs
    <3>2. h = Body(q) /\ v = e /\ e # Silent
      BY <1>3, <1>4, <1>5, <2>2, <2>3, <3>1 DEF Header, Plain, Allowed
    <3>3. EndFlows(end, e) BY <1>7, <3>1, <3>2 DEF EndFlows
    <3>4. QED BY <2>1, <2>2, <3>3
  <2>4. CASE kind = "while"
    <3>1. Starts(h) = e BY <1>3, <1>5, <2>2, <2>4 DEF Starts, Header, Block
    <3>2. v = Silent BY <1>4, <2>4
    <3>3. EndFlows(end, e) BY <1>7, <3>1, <3>2 DEF EndFlows
    <3>4. QED BY <2>1, <2>2, <3>3
  <2>5. QED BY <2>3, <2>4
<1>11. PICK t : t = Body(q)
  OBVIOUS
<1>12. t \in DOMAIN blocks /\ t[1] = q
  BY <1>3, <1>11 DEF Needed, LoopKinds, Body, Block
<1>13. Terminated(blocks, t) \/ t = insert
  <2>1. Depth \in 1..Depth /\ (Depth + 1)..Depth = {} BY <1>3
  <2>2. QED BY <1>1, <1>3, <1>11, <2>1 DEF FlowInv, ClosedInv
<1>14. MergeAt(B, Merge(q), t) BY <1>9, <1>11
<1>15. kind \in {"if", "loop", "while"}
  OBVIOUS
<1>16. Ahead(q, Part(pos)) = {Merge(q)} BY <1>3 DEF Ahead, Closing, Droppable
<1>17. PassInv /\ v = Silent /\ h # Merge(q) => h \in DOMAIN blocks \ {insert} /\ ~Quiet(blocks[h])
  <2> SUFFICES ASSUME PassInv, v = Silent PROVE h \in DOMAIN blocks \ {insert} /\ ~Quiet(blocks[h])
    OBVIOUS
  <2>1. kind = "while" BY <1>3, <1>4, StepFacts
  <2>2. h \in DOMAIN blocks /\ h[2] = "header"
    BY <1>3, <1>5, <2>1 DEF Needed, LoopKinds, Header, Block
  <2>3. QED BY <2>2, InsertPlain DEF PassInv, Quiet
<1>18. QED
  BY <1>1, <1>2, <1>6, <1>7, <1>8, <1>9, <1>10, <1>12, <1>13, <1>14, <1>15, <1>16, <1>17, MergeFlows

LEMMA LeaveForFlows ==
  ASSUME IInv, FlowInv, LeaveFor
  PROVE  FlowInv' /\ Steered
<1>1. AtEndOf("for") BY DEF LeaveFor
<1>2. PICK q : q = Outer(pos)
  OBVIOUS
<1>3. /\ prog[q].kind = "for" /\ q \in DOMAIN prog /\ prog \in Programs /\ Sound(blocks)
      /\ insert \in DOMAIN blocks /\ \A n \in Nat : Event(q, n) \in Events
  BY <1>1, <1>2, AtEndFacts
<1>4. PICK m, s, y : m = Merge(q) /\ s = StepBlock(q) /\ y = Body(q)
  OBVIOUS
<1>5. /\ m[1] = q /\ m[2] = "merge" /\ s[1] = q /\ s[2] = "step"
      /\ Starts(m) = Lands(After(q)) /\ Starts(s) = Event(q, 3)
  BY <1>4 DEF Merge, StepBlock, Block, Starts
<1>6. /\ \A b \in {m, s} : /\ b \in DOMAIN blocks /\ ~Terminated(blocks, b) /\ b # insert
                           /\ blocks[b].code = <<>>
      /\ Lands(pos) = Event(q, 2)
      /\ ~Terminated(blocks, insert) => Due(Starts(insert), blocks[insert].code, Lands(pos))
  <2>1. {m, s} \subseteq Ahead(q, Part(pos))
    BY <1>3, <1>4 DEF Ahead, Closing, Droppable
  <2>2. QED BY <1>1, <1>2, <2>1, DueAtEnd
<1>7. m # s BY <1>5
<1>8. LeaveTo(After(q)) /\ prog' = prog /\ insert' = m
  BY <1>2, <1>4 DEF LeaveFor, Control, Outside
<1>9. insert'[1] = q /\ Ahead(q, Part(pos)) = {m, s} /\ pos \notin Labels(prog)
  BY <1>1, <1>3, <1>4, <1>5, <1>8 DEF Ahead, Closing, Droppable, AtEndOf, Labels
<1>10. CASE Terminated(blocks, insert)
  <2>1. blocks' = Erased(blocks, s) BY <1>2, <1>4, <1>10 DEF LeaveFor
  <2>2. DOMAIN blocks' = DOMAIN blocks \ {s} /\ \A b \in DOMAIN blocks \ {s} : blocks'[b] = blocks[b]
    <3>1. /\ DOMAIN Erased(blocks, s) = DOMAIN blocks \ {s}
          /\ \A b \in DOMAIN blocks \ {s} : Erased(blocks, s)[b] = blocks[b]
      BY DEF Erased, Restrict
    <3>2. QED BY <2>1, <3>1
  <2>3. blocks'[m].code = <<>> BY <1>6, <1>7, <2>2
  <2>4. DueIn(blocks', insert', Lands(After(q))) BY <1>5, <1>8, <2>3, DueBlank
  <2>5. \A b \in DOMAIN blocks :
          /\ Same(b) \/ b = insert \/ (b[1] = q /\ b[2] # "label")
          /\ Terminated(blocks, b) => b \in DOMAIN blocks' /\ Terminated(blocks', b)
    BY <1>5, <1>6, <2>2 DEF Same, Terminated
  <2>6. \A b \in DOMAIN blocks' : b \in DOMAIN blocks /\ Same(b)
    BY <2>2 DEF Same
  <2>7. Terminated(blocks', insert) BY <1>3, <1>10, <2>5
  <2>8. Steers({m, s}, {})
    <3>1. \A b \in DOMAIN blocks' : (b \in DOMAIN blocks /\ b \notin {m, s} /\ Kept(b)) \/ Awaits(b, {})
      <4> TAKE b \in DOMAIN blocks'
      <4>1. CASE b = m
        <5>1. ~Terminated(blocks', m) BY <1>6, <1>7, <2>2 DEF Terminated
        <5>2. QED BY <1>8, <4>1, <5>1 DEF Awaits
      <4>2. CASE b # m BY <2>2, <2>6, <4>2 DEF Kept
      <4>3. QED BY <4>1, <4>2
    <3>2. \A b \in DOMAIN blocks : b[2] \in {"entry", "label"} => b \in DOMAIN blocks'
      BY <1>5, <2>2
    <3>3. DOMAIN blocks' \ DOMAIN blocks = {} /\ Rests(insert)
      BY <2>2, <2>7 DEF Rests
    <3>4. QED BY <1>9, <3>1, <3>2, <3>3 DEF Steers
  <2>9. QED BY <1>1, <1>2, <1>8, <1>9, <2>4, <2>5, <2>6, <2>7, <2>8, FlowsOut
<1>11. CASE ~Terminated(blocks, insert)
  <2>1. PICK e, last : e = Event(q, 3) /\ last = Event(q, 2)
    OBVIOUS
  <2>2. PICK end, on : end = CondBr(last, m, s) /\ on = Br(Silent, y)
    OBVIOUS
  <2>3. /\ end.op = "cond_br" /\ end.event = last /\ end.to[1] = m /\ end.to[2] = s /\ end # Open
        /\ on.op = "br" /\ on.event = Silent /\ on.to[1] = y /\ on # Open
    BY <2>2 DEF CondBr, Br, Open
  <2>4. /\ Allowed(last) /\ Ada!IsTest(last) /\ ~Ada!IsFinal(last)
        /\ Follows(last, TRUE) = Starts(m) /\ Follows(last, FALSE) = e
        /\ Plain(e) /\ Follows(e, TRUE) = Starts(y)
    BY <1>3, <1>4, <2>1, FollowsIs
  <2>5. EndFlows(end, last) BY <1>5, <2>1, <2>3, <2>4 DEF EndFlows
  <2>6. PICK D : D = Ended(blocks, insert, end)
    OBVIOUS
  <2>7. /\ Flows(insert, D[insert]) /\ Terminated(D, insert) /\ DOMAIN D = DOMAIN blocks
        /\ \A c \in DOMAIN blocks \ {insert} : D[c] = blocks[c]
    <3>1. Due(Starts(insert), blocks[insert].code, last) BY <1>6, <1>11, <2>1
    <3> DEFINE E == Ended(blocks, insert, end)
    <3>2. /\ Flows(insert, E[insert]) /\ Terminated(E, insert) /\ DOMAIN E = DOMAIN blocks
          /\ \A c \in DOMAIN blocks \ {insert} : E[c] = blocks[c]
      BY <1>3, <2>3, <2>5, <3>1, EndedFlows
    <3>3. QED BY <2>6, <3>2
  <2>8. PICK node : node = [code |-> <<e>>, end |-> on]
    OBVIOUS
  <2>9. node.code = <<e>> /\ node.end = on BY <2>8
  <2>10. Flows(s, node)
    <3>1. e \in Events /\ <<>> \in Seq(Events) BY <1>3, <2>1
    <3>2. Due(e, <<>>, e) BY DueAtStart
    <3>3. Due(e, Append(<<>>, e), Follows(e, TRUE)) BY <2>4, <3>1, <3>2, DueOn
    <3>4. Append(<<>>, e) = <<e>>
      OBVIOUS
    <3>5. PICK d : d = Follows(e, TRUE)
      OBVIOUS
    <3>6. EndFlows(on, d) BY <2>3, <2>4, <3>5 DEF EndFlows
    <3>7. Due(Starts(s), node.code, d) BY <1>5, <2>1, <2>9, <3>3, <3>4, <3>5
    <3>8. QED BY <2>9, <3>6, <3>7 DEF Flows
  <2>11. blocks' = [D EXCEPT ![s] = node]
    <3>1. blocks' = [blocks EXCEPT ![insert].end = end, ![s] = node]
      BY <1>2, <1>4, <1>11, <2>1, <2>2, <2>8 DEF LeaveFor
    <3>2. QED BY <2>6, <3>1 DEF Ended
  <2>12. /\ DOMAIN blocks' = DOMAIN blocks /\ blocks'[s] = node /\ blocks'[insert] = D[insert]
         /\ \A c \in DOMAIN blocks \ {s, insert} : blocks'[c] = blocks[c]
    <3>1. s \in DOMAIN D /\ insert \in DOMAIN D /\ s # insert
      BY <1>3, <1>6, <2>7
    <3>2. DOMAIN blocks' = DOMAIN D /\ blocks'[s] = node /\ \A c \in DOMAIN D \ {s} : blocks'[c] = D[c]
      BY <2>11, <3>1
    <3>3. QED BY <2>7, <3>1, <3>2
  <2>13. blocks'[m].code = <<>> BY <1>6, <1>7, <2>12
  <2>14. DueIn(blocks', insert', Lands(After(q)))
    BY <1>5, <1>8, <2>13, DueBlank
  <2>15. Terminated(blocks', insert) BY <2>7, <2>12 DEF Terminated
  <2>16. \A b \in DOMAIN blocks :
          /\ Same(b) \/ b = insert \/ (b[1] = q /\ b[2] # "label")
          /\ Terminated(blocks, b) => b \in DOMAIN blocks' /\ Terminated(blocks', b)
    <3> TAKE b \in DOMAIN blocks
    <3>1. CASE b = s BY <1>5, <1>6, <3>1
    <3>2. CASE b = insert BY <2>12, <2>15, <3>2
    <3>3. CASE b # s /\ b # insert BY <2>12, <3>3 DEF Same, Terminated
    <3>4. QED BY <3>1, <3>2, <3>3
  <2>17. \A b \in DOMAIN blocks' : b \in DOMAIN blocks /\ (Same(b) \/ Flows(b, blocks'[b]))
    <3> TAKE b \in DOMAIN blocks'
    <3>1. CASE b = s BY <2>10, <2>12, <3>1
    <3>2. CASE b = insert BY <2>7, <2>12, <3>2
    <3>3. CASE b # s /\ b # insert BY <2>12, <3>3 DEF Same
    <3>4. QED BY <3>1, <3>2, <3>3
  <2>18. Steers({m, s}, {})
    <3>1. blocks'[insert].end = end /\ s \in Range(blocks'[insert].end.to) /\ insert \in DOMAIN blocks'
      <4>1. blocks'[insert].end = end BY <1>3, <2>6, <2>12, EndIs
      <4>2. s \in Range(end.to) BY <2>2 DEF CondBr, Range
      <4>3. QED BY <1>3, <2>12, <4>1, <4>2
    <3>2. ~Quiet(blocks'[insert]) /\ Shuts(insert)
      BY <2>3, <2>15, <3>1, InsertPlain DEF Quiet, Shuts
    <3>3. ~Quiet(blocks'[s])
      <4>1. e # Silent BY <2>4 DEF Plain, Allowed
      <4>2. Len(<<e>>) = 1 /\ <<e>>[1] = e /\ 1 \in 1..1
        OBVIOUS
      <4>3. QED BY <2>9, <2>12, <4>1, <4>2 DEF Quiet
    <3>4. Shuts(s) BY <1>5, <2>3, <2>9, <2>12, <3>1, <3>3 DEF Shuts, Terminated
    <3>5. \A b \in DOMAIN blocks' :
            (b \in DOMAIN blocks /\ b \notin {m, s} /\ Kept(b)) \/ Awaits(b, {}) \/ Shuts(b)
      <4> TAKE b \in DOMAIN blocks'
      <4>1. CASE b = m
        <5>1. ~Terminated(blocks', m) BY <1>6, <1>7, <2>12 DEF Terminated
        <5>2. QED BY <1>8, <4>1, <5>1 DEF Awaits
      <4>2. CASE b \notin {m, s, insert} BY <2>12, <4>2 DEF Kept, Same
      <4>3. QED BY <3>2, <3>4, <4>1, <4>2
    <3>6. DOMAIN blocks' = DOMAIN blocks /\ Rests(insert)
      BY <2>12, <2>15 DEF Rests
    <3>7. QED BY <1>9, <3>5, <3>6 DEF Steers
  <2>19. QED
    BY <1>1, <1>2, <1>8, <1>9, <2>14, <2>15, <2>16, <2>17, <2>18, FlowsOut
<1>12. QED BY <1>10, <1>11

LEMMA LeaveSubpFlows ==
  ASSUME IInv, FlowInv, LeaveSubp
  PROVE  FlowInv' /\ Steered
<1>1. AtEndOf("subp") BY DEF LeaveSubp
<1>2. PICK q : q = Outer(pos)
  OBVIOUS
<1>3. /\ prog[q].kind = "subp" /\ Depth \in Nat /\ Depth > 0 /\ q = Owner(Depth)
      /\ q \in DOMAIN prog /\ prog \in Programs /\ Frame = frames[Depth] /\ DescentInv
      /\ insert \in DOMAIN blocks
  BY <1>1, <1>2, AtEndFacts
<1>4. PICK e : e = Event(q, 1)
  OBVIOUS
<1>5. PICK end : end = Ret(e)
  OBVIOUS
<1>6. end.op = "return" /\ end.event = e /\ end # Open BY <1>5 DEF Ret, Open
<1>7. /\ LeaveTo(After(q)) /\ prog' = prog /\ insert' = Frame.block
      /\ blocks' = IF prog[q].isFunction THEN blocks ELSE BranchIfOpen(blocks, insert, end)
  BY <1>2, <1>4, <1>5 DEF LeaveSubp, Outside
<1>8. /\ DOMAIN blocks' = DOMAIN blocks
      /\ \A b \in DOMAIN blocks \ {insert} : blocks'[b] = blocks[b]
      /\ \/ blocks'[insert] = blocks[insert] /\ (Terminated(blocks, insert) \/ prog[q].isFunction)
         \/ /\ Flows(insert, blocks'[insert]) /\ Terminated(blocks', insert)
            /\ ~Quiet(blocks'[insert])
  <2>1. CASE prog[q].isFunction BY <1>7, <2>1
  <2>0. CASE ~prog[q].isFunction /\ Terminated(blocks, insert)
    <3>1. blocks' = blocks BY <1>7, <2>0 DEF BranchIfOpen
    <3>2. QED BY <2>0, <3>1
  <2>2. CASE ~prog[q].isFunction /\ ~Terminated(blocks, insert)
    <3>1. EndFlows(end, Lands(pos))
      <4>1. Lands(pos) = e BY <1>1, <1>2, <1>4, DueAtEnd
      <4>2. e.stmt = q /\ e # Silent /\ Ada!IsFinal(e) /\ ~Ada!IsTest(e)
        BY <1>3, <1>4, StepFacts
      <4>3. Allowed(e)
        BY <1>3, <2>2, <4>2 DEF Allowed, Illegal, Ada!MissingReturn
      <4>4. EndFlows(end, e) BY <1>6, <4>2, <4>3 DEF EndFlows
      <4>5. QED BY <4>1, <4>4
    <3>2. PICK B : B = BranchIfOpen(blocks, insert, end)
      OBVIOUS
    <3>3. /\ DOMAIN B = DOMAIN blocks /\ Flows(insert, B[insert]) /\ Terminated(B, insert)
          /\ \A b \in DOMAIN blocks \ {insert} : B[b] = blocks[b]
      BY <1>1, <1>6, <3>1, <3>2, BackFlows
    <3>4. blocks' = B BY <1>7, <2>2, <3>2
    <3>5. B[insert].end = end
      <4>1. Sound(blocks) BY DEF IInv, BlocksInv
      <4>2. QED BY <1>3, <2>2, <3>2, <4>1, EndIs DEF BranchIfOpen
    <3>6. ~Quiet(blocks'[insert]) BY <1>6, <3>4, <3>5 DEF Quiet
    <3>7. QED BY <3>3, <3>4, <3>6
  <2>3. QED BY <2>0, <2>1, <2>2
<1>9. q # Top => DueIn(blocks', insert', Lands(After(q)))
  <2> SUFFICES ASSUME q # Top PROVE DueIn(blocks', insert', Lands(After(q)))
    OBVIOUS
  <2>1. Depth # 1
    <3> SUFFICES ASSUME Depth = 1 PROVE FALSE
      OBVIOUS
    <3>1. Depth \in 1..Depth /\ 2 * 1 - 1 = 1 BY <1>3
    <3>2. Len(Owner(Depth)) = 1 BY <1>3, <3>1, PositionFacts
    <3>3. q = Top BY <1>3, <3>2, ProgramFacts
    <3>4. QED BY <3>3
  <2>2. Depth \in 2..Depth BY <1>3, <2>1
  <2>3. DueIn(blocks, Frame.block, Lands(q))
    BY <1>3, <2>2 DEF FlowInv, CursorInv
  <2>4. Lands(q) = Lands(After(q))
    <3>1. q \in Ada!Inside BY <1>3, InsideFacts
    <3>2. QED BY <1>3, <3>1, LandsIs
  <2>5. Frame.block \in DOMAIN blocks
    <3>1. Depth \in 1..Depth BY <1>3
    <3>2. QED BY <1>3, <2>1, <3>1 DEF IInv, InsertInv
  <2>6. DueIn(blocks, insert', Lands(After(q))) BY <1>7, <2>3, <2>4
  <2>7. CASE blocks'[insert'] = blocks[insert']
    BY <2>6, <2>7 DEF DueIn, Terminated
  <2>8. CASE Terminated(blocks', insert') BY <2>8 DEF DueIn
  <2>9. QED BY <1>7, <1>8, <2>5, <2>7, <2>8
<1>10. \A b \in DOMAIN blocks :
         /\ Same(b) \/ b = insert
         /\ Terminated(blocks, b) => b \in DOMAIN blocks' /\ Terminated(blocks', b)
  BY <1>8 DEF Same, Terminated
<1>11. \A b \in DOMAIN blocks' : b \in DOMAIN blocks /\ (Same(b) \/ Flows(b, blocks'[b]))
  BY <1>8 DEF Same
<1>12. Steers(Ahead(q, Part(pos)), {})
  <2>1. Ahead(q, Part(pos)) = {} /\ pos \notin Labels(prog)
    BY <1>1, <1>3 DEF AtEndOf, Labels, Droppable, Ahead, Closing, LoopKinds
  <2>2. Kept(insert) \/ Shuts(insert)
    BY <1>3, <1>8, InsertPlain DEF Kept, Same, Shuts
  <2>3. Rests(insert)
    <3>1. CASE Terminated(blocks', insert) BY <3>1 DEF Rests
    <3>2. CASE ~Terminated(blocks', insert)
      <4>1. blocks'[insert] = blocks[insert] /\ prog[q].isFunction /\ ~Terminated(blocks, insert)
        BY <1>8, <3>2 DEF Terminated
      <4>2. Due(Starts(insert), blocks'[insert].code, Event(q, 1))
        BY <1>1, <1>2, <4>1, DueAtEnd
      <4>3. DeadEnd(insert, blocks'[insert].code)
        BY <1>3, <4>1, <4>2 DEF DeadEnd, Subps
      <4>4. QED BY <4>3 DEF Rests
    <3>3. QED BY <3>1, <3>2
  <2>4. \A b \in DOMAIN blocks : Kept(b) \/ Shuts(b)
    BY <1>8, <2>2 DEF Kept, Same
  <2>5. QED BY <1>8, <2>1, <2>3, <2>4 DEF Steers
<1>13. QED BY <1>1, <1>2, <1>7, <1>9, <1>10, <1>11, <1>12, FlowsOut

(* A part of an if that another follows, at First of it.                   *)
LEMMA FlowsPart ==
  ASSUME IInv, FlowInv, AtEndOf("if"), NEW q, q = Outer(pos), NEW i, i = Part(pos),
         i + 1 \in 1..Parts(prog[q]), prog' = prog, pos' = First(q, i + 1), frames' = frames,
         \A b \in DOMAIN blocks :
           /\ Same(b) \/ b = insert \/ (b[1] = q /\ b[2] # "label")
           /\ Terminated(blocks, b) => b \in DOMAIN blocks' /\ Terminated(blocks', b),
         \A b \in DOMAIN blocks' :
           /\ (b \in DOMAIN blocks /\ Same(b)) \/ Flows(b, blocks'[b])
           /\ b \notin DOMAIN blocks => b[2] # "label",
         DueIn(blocks', insert', Lands(pos')), insert'[1] = q, Terminated(blocks', insert),
         \A c \in Ahead(q, i + 1) : blocks'[c].code = <<>>
  PROVE  FlowInv' /\ (Steers(Ahead(q, i), Ahead(q, i + 1)) => Steered)
<1>1. /\ Depth \in Nat /\ Depth > 0 /\ DescentInv /\ prog[q].kind = "if"
      /\ q = Owner(Depth) /\ i = PartOf(Depth)
  BY AtEndFacts
<1>2. PICK d \in Nat : d = Depth BY <1>1
<1>3. PICK n \in Nat : n = d - 1 BY <1>1, <1>2
<1>4. n < Depth /\ d = Depth /\ d <= n + 1 /\ Depth <= n + 1 /\ d > 0 /\ d \in 1..Depth
  BY <1>2, <1>3
<1>5. Moved(n, d) /\ Owner(d)' = q /\ PartOf(d)' = i + 1 /\ frames'[d] = frames[d]
  <2>1. Part(pos) + 1 \in 1..Parts(prog[Outer(pos)]) /\ pos' = First(Outer(pos), Part(pos) + 1)
    OBVIOUS
  <2>2. /\ Moved(Depth - 1, Depth)
        /\ Owner(Depth)' = Owner(Depth) /\ PartOf(Depth)' = PartOf(Depth) + 1
        /\ frames'[Depth] = frames[Depth]
    BY <1>1, <2>1, MovePart
  <2>3. Owner(d)' = Owner(Depth)' /\ PartOf(d)' = PartOf(Depth)'
    BY <1>4, <2>2 DEF Moved, Owner, PartOf
  <2>4. QED BY <1>1, <1>2, <1>3, <2>2, <2>3
<1>6. Terminated(blocks', frames'[d].block)
  <2>1. Terminated(blocks, frames[d].block)
    BY <1>1, <1>4 DEF FlowInv, ClosedInv
  <2>2. frames[d].block \in DOMAIN blocks
    <3>1. Frame.block \in DOMAIN blocks /\ Frame = frames[Depth] BY AtEndFacts
    <3>2. QED BY <1>4, <3>1
  <2>3. QED BY <1>5, <2>1, <2>2
<1>7. prog[q].kind \notin {"subp", "loop", "while"} BY <1>1
<1>8. OpensFlow(n, d) BY <1>4, <1>5, <1>6, <1>7 DEF OpensFlow
<1>9. prog[Owner(Depth)].kind # "subp" BY <1>1
<1>10. Continues(n, d) BY <1>1, <1>4, <1>5, <1>8, <1>9 DEF Continues
<1>11. Steers(Ahead(q, i), Ahead(q, i + 1)) => Carry(n, d, Ahead(q, i), Ahead(q, i + 1))
  <2>1. n # Depth /\ n = Depth - 1 /\ d # n /\ pos \notin DOMAIN prog
    BY <1>2, <1>3 DEF AtEndOf
  <2>2. Turns BY <1>1, <2>1 DEF Turns
  <2>3. Ahead(Owner(d)', PartOf(d)') = Ahead(q, i + 1) BY <1>5
  <2>4. QED BY <1>1, <1>5, <1>9, <2>1, <2>2, <2>3 DEF Carry
<1>12. QED BY <1>10, <1>11, FlowCarried DEF Steered

(* The end of every part goes to where the if is merged.                   *)
LEMMA PartFlows ==
  ASSUME IInv, FlowInv, AtEndOf("if"), NEW q, q = Outer(pos),
         NEW B, B = BranchIfOpen(blocks, insert, Br(Silent, Merge(q)))
  PROVE  /\ Br(Silent, Merge(q)) # Open /\ EndFlows(Br(Silent, Merge(q)), Lands(pos))
         /\ DOMAIN B = DOMAIN blocks /\ insert \in DOMAIN blocks
         /\ Flows(insert, B[insert]) /\ Terminated(B, insert)
         /\ \A b \in DOMAIN blocks \ {insert} : B[b] = blocks[b]
<1>1. PICK end : end = Br(Silent, Merge(q))
  OBVIOUS
<1>2. end.op = "br" /\ end.event = Silent /\ end.to[1] = Merge(q) /\ end # Open
  BY <1>1 DEF Br, Open
<1>3. Starts(Merge(q)) = Lands(After(q)) BY DEF Starts, Merge, Block
<1>4. Lands(pos) = Lands(After(q)) BY DueAtEnd
<1>5. EndFlows(end, Lands(pos)) BY <1>2, <1>3, <1>4 DEF EndFlows
<1>6. B = BranchIfOpen(blocks, insert, end) BY <1>1
<1>7. /\ DOMAIN B = DOMAIN blocks /\ insert \in DOMAIN blocks
      /\ Flows(insert, B[insert]) /\ Terminated(B, insert)
      /\ \A b \in DOMAIN blocks \ {insert} : B[b] = blocks[b]
  BY <1>2, <1>5, <1>6, BackFlows
<1>8. QED BY <1>1, <1>2, <1>5, <1>7

LEMMA ElseFlows ==
  ASSUME IInv, FlowInv, AtEndOf("if"), NEW q, q = Outer(pos), NEW i, i = Part(pos), prog' = prog,
         i = prog[q].guards, prog[q].hasElse,
         blocks' = BranchIfOpen(blocks, insert, Br(Silent, Merge(q))),
         insert' = FalseBlock(q, i), pos' = First(q, i + 1), frames' = frames
  PROVE  FlowInv' /\ Steered
<1>1. prog[q].kind = "if" BY AtEndFacts
<1>2. /\ i \in Nat \ {0} /\ i + 1 \in 1..Parts(prog[q]) /\ i <= prog[q].guards
      /\ ~(i + 1 <= prog[q].guards) /\ ~(i < prog[q].guards)
  BY IfShape
<1>3. PICK f : f = FalseBlock(q, i)
  OBVIOUS
<1>4. f = <<q, "false", i>> /\ f[1] = q /\ f[2] = "false" /\ f[3] = i
  BY <1>3 DEF FalseBlock
<1>5. Starts(f) = Lands(First(q, i + 1)) BY <1>2, <1>4 DEF Starts
<1>6. \A b \in Ahead(q, i) : blocks[b].code = <<>> /\ b \in DOMAIN blocks
                              /\ ~Terminated(blocks, b) /\ b # insert
  BY DueAtEnd
<1>7. f \in Ahead(q, i) /\ Ahead(q, i + 1) \subseteq Ahead(q, i)
  BY <1>1, <1>2, <1>3 DEF Ahead
<1>8. /\ DOMAIN blocks' = DOMAIN blocks /\ insert \in DOMAIN blocks
      /\ Flows(insert, blocks'[insert]) /\ Terminated(blocks', insert)
      /\ \A b \in DOMAIN blocks \ {insert} : blocks'[b] = blocks[b]
  <2>1. PICK B : B = BranchIfOpen(blocks, insert, Br(Silent, Merge(q)))
    OBVIOUS
  <2>2. /\ DOMAIN B = DOMAIN blocks /\ insert \in DOMAIN blocks
        /\ Flows(insert, B[insert]) /\ Terminated(B, insert)
        /\ \A b \in DOMAIN blocks \ {insert} : B[b] = blocks[b]
    BY <2>1, PartFlows
  <2>3. QED BY <2>1, <2>2
<1>9. \A b \in DOMAIN blocks :
        /\ Same(b) \/ b = insert
        /\ Terminated(blocks, b) => b \in DOMAIN blocks' /\ Terminated(blocks', b)
  BY <1>8 DEF Same, Terminated
<1>10. \A b \in DOMAIN blocks' : b \in DOMAIN blocks /\ (Same(b) \/ Flows(b, blocks'[b]))
  BY <1>8 DEF Same
<1>11. \A c \in Ahead(q, i) : blocks'[c].code = <<>> BY <1>6, <1>8
<1>12. DueIn(blocks', insert', Lands(pos'))
  <2>1. blocks'[f].code = <<>> BY <1>7, <1>11
  <2>2. DueIn(blocks', f, Starts(f)) BY <2>1, DueBlank
  <2>3. QED BY <1>3, <1>5, <2>2
<1>13. insert'[1] = q /\ \A c \in Ahead(q, i + 1) : blocks'[c].code = <<>>
  BY <1>3, <1>4, <1>7, <1>11
<1>14. Steers(Ahead(q, i), Ahead(q, i + 1))
  <2>1. Ahead(q, i) = {Merge(q), f} /\ Ahead(q, i + 1) = {Merge(q)} /\ pos \notin Labels(prog)
    BY <1>1, <1>2, <1>3 DEF Ahead, Closing, Droppable, AtEndOf, Labels
  <2>2. \A b \in {Merge(q), f} : ~Terminated(blocks', b)
    BY <1>6, <1>8, <2>1 DEF Terminated
  <2>3. ~Quiet(blocks'[Merge(q)]) BY <2>2 DEF Quiet, Terminated, Open
  <2>4. Kept(insert) \/ Shuts(insert)
    <3>1. Sound(blocks) /\ Br(Silent, Merge(q)) # Open
      BY DEF IInv, BlocksInv, Br, Open
    <3>2. QED BY <1>8, <2>3, <3>1, BackShuts
  <2>5. \A b \in DOMAIN blocks' :
          (b \in DOMAIN blocks /\ b \notin Ahead(q, i) /\ Kept(b)) \/ Awaits(b, Ahead(q, i + 1)) \/ Shuts(b)
    <3> TAKE b \in DOMAIN blocks'
    <3>1. CASE b \in {Merge(q), f} BY <1>3, <2>1, <2>2, <3>1 DEF Awaits
    <3>2. CASE b = insert BY <1>6, <1>8, <2>4, <3>2
    <3>3. CASE b \notin {Merge(q), f, insert}
      BY <1>8, <2>1, <3>3 DEF Kept, Same
    <3>4. QED BY <3>1, <3>2, <3>3
  <2>6. Rests(insert) BY <1>8 DEF Rests
  <2>7. QED BY <1>8, <2>1, <2>5, <2>6 DEF Steers
<1>15. QED BY <1>2, <1>8, <1>9, <1>10, <1>12, <1>13, <1>14, FlowsPart

LEMMA GuardFlows ==
  ASSUME IInv, FlowInv, AtEndOf("if"), NEW q, q = Outer(pos), NEW i, i = Part(pos), prog' = prog,
         i < prog[q].guards,
         blocks' = Tested(BranchIfOpen(blocks, insert, Br(Silent, Merge(q))), q, i + 1,
                          FalseBlock(q, i)),
         insert' = Then(q, i + 1), pos' = First(q, i + 1), frames' = frames
  PROVE  FlowInv' /\ Steered
<1>1. /\ prog[q].kind = "if" /\ q \in DOMAIN prog /\ prog \in Programs /\ Depth \in Nat /\ Depth > 0
      /\ q = Owner(Depth) /\ IsPath(q) /\ IsPath(pos) /\ DescentInv /\ BlocksInv
  BY AtEndFacts
<1>2. /\ i \in Nat \ {0} /\ prog[q].guards \in Nat
      /\ Parts(prog[q]) = prog[q].guards + (IF prog[q].hasElse THEN 1 ELSE 0)
  BY IfShape
<1>3. /\ i + 1 \in Nat \ {0} /\ i + 1 \in 1..Parts(prog[q]) /\ i + 1 <= prog[q].guards
      /\ i + 1 \in 1..prog[q].guards /\ i <= prog[q].guards
  BY <1>2
<1>4. PICK p \in Nat : p = i + 1 BY <1>3
<1>5. PICK m, B : m = Merge(q) /\ B = BranchIfOpen(blocks, insert, Br(Silent, Merge(q)))
  OBVIOUS
<1>6. /\ m \in DOMAIN blocks /\ m # insert /\ ~Terminated(B, m) /\ Droppable(q) = {m}
      /\ m[1] = q /\ m[2] = "merge" /\ Sound(B)
  BY <1>5, PartEnd
<1>7. /\ DOMAIN B = DOMAIN blocks /\ insert \in DOMAIN blocks
      /\ Flows(insert, B[insert]) /\ Terminated(B, insert)
      /\ \A b \in DOMAIN blocks \ {insert} : B[b] = blocks[b]
  BY <1>5, PartFlows
<1>8. PICK f, t, g : f = FalseBlock(q, i) /\ t = Then(q, p) /\ g = FalseBlock(q, p)
  OBVIOUS
<1>9. /\ f = <<q, "false", i>> /\ f[1] = q /\ f[2] = "false" /\ f[3] = i /\ f # m
      /\ t = <<q, "then", p>> /\ t[1] = q /\ t[2] = "then" /\ t[3] = p /\ t # m
      /\ g = m \/ (g = <<q, "false", p>> /\ g[1] = q /\ g[2] = "false" /\ g[3] = p)
  BY <1>5, <1>6, <1>8 DEF FalseBlock, Then
<1>10. t \in Names /\ g \in Names
  <2>1. m \in Names BY <1>6, <1>7 DEF Sound
  <2>2. QED BY <1>1, <1>4, <1>9, <2>1 DEF Names, Roles
<1>11. \A b \in {t, g} \ {m} : b \notin DOMAIN blocks
  <2>1. /\ Len(q) < Len(pos) /\ p > pos[Len(q) + 1] /\ Len(q) <= Len(pos)
        /\ \A j \in 1..Len(q) : q[j] = pos[j]
    <3>1. Len(pos) = 2 * Depth + 1 /\ Len(pos) \in Nat /\ Len(pos) > 1
      BY <1>1 DEF DescentInv
    <3>2. Len(q) = Len(pos) - 2 /\ \A j \in 1..(Len(pos) - 2) : q[j] = pos[j]
      BY <1>1, <3>1, OuterFacts
    <3>3. i = pos[Len(pos) - 1] BY DEF Part
    <3>4. PICK l \in Nat, k \in Nat : l = Len(pos) /\ k = Len(q) /\ k = l - 2 /\ k + 1 = l - 1
      BY <3>1, <3>2
    <3>5. pos[k + 1] = i BY <3>3, <3>4
    <3>6. QED BY <1>2, <1>4, <3>2, <3>4, <3>5
  <2>2. ~Begun(Append(q, p), pos) BY <1>1, <2>1, Unbegun
  <2>3. QED BY <1>1, <1>9, <2>2 DEF BlocksInv, Mark
<1>12. /\ \A b \in Ahead(q, i) : blocks[b].code = <<>> /\ b \in DOMAIN blocks
                                  /\ ~Terminated(blocks, b) /\ b # insert
       /\ f \in Ahead(q, i)
  BY <1>1, <1>3, <1>8, DueAtEnd DEF Ahead
<1>13. PICK S : S = {t, g} \ {m}
  OBVIOUS
<1>14. PICK C : C = Created(B, S)
  OBVIOUS
<1>15. /\ Sound(C) /\ DOMAIN C = DOMAIN blocks \union S
       /\ \A b \in DOMAIN blocks : C[b] = B[b]
       /\ \A b \in S : C[b].code = <<>> /\ C[b].end = Open /\ Flows(b, C[b])
  <2>1. S \in SUBSET Names /\ \A b \in S : b \in S \ DOMAIN B
    BY <1>7, <1>10, <1>11, <1>13
  <2>2. Sound(C) /\ DOMAIN C = DOMAIN B \union S /\ \A b \in DOMAIN B : C[b] = B[b]
    BY <1>6, <1>14, <2>1, CreatedFacts
  <2>3. \A b \in S : C[b].code = <<>> /\ C[b].end = Open /\ Flows(b, C[b])
    BY <1>14, <2>1, CreatedFlows
  <2>4. QED BY <1>7, <2>2, <2>3
<1>16. f \in DOMAIN C /\ C[f] = blocks[f] /\ C[f].code = <<>> /\ f # insert /\ f \in DOMAIN blocks
  BY <1>7, <1>12, <1>15
<1>17. PICK e : e = Event(q, p)
  OBVIOUS
<1>18. PICK end : end = CondBr(e, t, g)
  OBVIOUS
<1>19. end.op = "cond_br" /\ end.event = e /\ end.to[1] = t /\ end.to[2] = g /\ end # Open
  BY <1>18 DEF CondBr, Open
<1>20. Starts(f) = e BY <1>4, <1>9, <1>17 DEF Starts
<1>21. EndFlows(end, e)
  <2>1. Allowed(e) /\ Ada!IsTest(e) /\ ~Ada!IsFinal(e)
    BY <1>1, <1>17, StepFacts
  <2>2. p \in 1..prog[q].guards BY <1>3, <1>4
  <2>3. Follows(e, TRUE) = Starts(t) /\ Follows(e, FALSE) = Starts(g)
    BY <1>1, <1>8, <1>17, <2>2, FollowsIs
  <2>4. QED BY <1>19, <2>1, <2>3 DEF EndFlows
<1>22. blocks' = Ended(C, f, end)
  <2>1. blocks' = Tested(B, q, p, f) BY <1>4, <1>5, <1>8
  <2>2. QED BY <1>5, <1>8, <1>13, <1>14, <1>17, <1>18, <2>1 DEF Tested
<1>23. /\ Flows(f, blocks'[f]) /\ Terminated(blocks', f) /\ DOMAIN blocks' = DOMAIN C
       /\ blocks'[f].end = end
       /\ \A c \in DOMAIN C \ {f} : blocks'[c] = C[c]
  <2>1. Due(Starts(f), C[f].code, e) /\ Sound(C) /\ f \in DOMAIN C /\ end # Open
    BY <1>15, <1>16, <1>19, <1>20, DueAtStart
  <2> DEFINE E == Ended(C, f, end)
  <2>2. /\ Flows(f, E[f]) /\ Terminated(E, f) /\ DOMAIN E = DOMAIN C
        /\ \A c \in DOMAIN C \ {f} : E[c] = C[c]
    BY <1>21, <2>1, EndedFlows
  <2>3. blocks' = E /\ E[f].end = end
    <3>1. E[f].end = end BY <2>1, EndIs
    <3>2. QED BY <1>22, <3>1
  <2> HIDE DEF E
  <2>4. QED BY <2>2, <2>3
<1>24. /\ DOMAIN blocks \subseteq DOMAIN blocks'
       /\ blocks'[insert] = B[insert] /\ Terminated(blocks', insert)
       /\ \A b \in DOMAIN blocks \ {insert, f} : blocks'[b] = blocks[b]
       /\ \A b \in S : b \in DOMAIN blocks' /\ blocks'[b].code = <<>> /\ Flows(b, blocks'[b])
                       /\ ~Terminated(blocks', b)
  <2>1. \A b \in S : b # f BY <1>11, <1>13, <1>16
  <2>2. QED BY <1>7, <1>15, <1>16, <1>23, <2>1 DEF Terminated
<1>25. \A b \in DOMAIN blocks :
         /\ Same(b) \/ b = insert \/ (b[1] = q /\ b[2] # "label")
         /\ Terminated(blocks, b) => b \in DOMAIN blocks' /\ Terminated(blocks', b)
  <2> TAKE b \in DOMAIN blocks
  <2>1. CASE b = f BY <1>9, <1>23, <1>24, <2>1
  <2>2. CASE b = insert BY <1>24, <2>2
  <2>3. CASE b \notin {f, insert} BY <1>24, <2>3 DEF Same, Terminated
  <2>4. QED BY <2>1, <2>2, <2>3
<1>26. \A b \in DOMAIN blocks' :
         /\ (b \in DOMAIN blocks /\ Same(b)) \/ Flows(b, blocks'[b])
         /\ b \notin DOMAIN blocks => b[2] # "label"
  <2> TAKE b \in DOMAIN blocks'
  <2>1. CASE b \in S BY <1>9, <1>13, <1>24, <2>1
  <2>2. CASE b = f BY <1>9, <1>23, <2>2
  <2>3. CASE b = insert BY <1>7, <1>24, <2>3
  <2>4. CASE b \notin {f, insert} /\ b \in DOMAIN blocks
    BY <1>24, <2>4 DEF Same
  <2>5. b \in DOMAIN blocks \union S BY <1>15, <1>23
  <2>6. QED BY <1>7, <1>16, <2>1, <2>2, <2>3, <2>4, <2>5
<1>27. insert' = t /\ insert'[1] = q /\ pos' = First(q, p) BY <1>4, <1>8, <1>9
<1>28. DueIn(blocks', insert', Lands(pos'))
  <2>1. blocks'[t].code = <<>> BY <1>9, <1>13, <1>24
  <2>2. DueIn(blocks', t, Starts(t)) BY <2>1, DueBlank
  <2>3. Starts(t) = Lands(First(q, p)) BY <1>9 DEF Starts
  <2>4. QED BY <1>27, <2>2, <2>3
<1>29. \A c \in Ahead(q, i + 1) : blocks'[c].code = <<>>
  <2>1. Ahead(q, i + 1) \subseteq {m, g}
    BY <1>1, <1>4, <1>6, <1>8 DEF Ahead, Closing
  <2>2. m \in Ahead(q, i) BY <1>6 DEF Ahead, Closing
  <2>3. blocks'[m].code = <<>> BY <1>6, <1>9, <1>12, <1>24, <2>2
  <2>4. g # m => blocks'[g].code = <<>> BY <1>13, <1>24
  <2>5. QED BY <2>1, <2>3, <2>4
<1>30. Steers(Ahead(q, i), Ahead(q, i + 1))
  <2>1. Ahead(q, i) = {m, f} /\ Ahead(q, i + 1) = {m, g} /\ pos \notin Labels(prog)
    BY <1>1, <1>3, <1>4, <1>6, <1>8 DEF Ahead, Closing, AtEndOf, Labels
  <2>2. ~Terminated(blocks', m) /\ ~Quiet(blocks'[m])
    BY <1>6, <1>7, <1>9, <1>24 DEF Quiet, Terminated, Open
  <2>3. Kept(insert) \/ Shuts(insert)
    <3>1. Sound(blocks) /\ Br(Silent, m) # Open BY <1>1 DEF BlocksInv, Br, Open
    <3>2. insert \in DOMAIN blocks' /\ blocks'[insert] = BranchIfOpen(blocks, insert, Br(Silent, m))[insert]
      BY <1>5, <1>7, <1>24
    <3>3. QED BY <1>7, <2>2, <3>1, <3>2, BackShuts
  <2>4. Shuts(f)
    <3>1. f \in Branched(blocks)
      <4>1. \A k \in 1..Depth : f \notin Droppable(Owner(k))
        BY <1>9 DEF Droppable, Merge, StepBlock, Block
      <4>2. QED BY <1>9, <1>16, <4>1 DEF IInv, OrphanInv
    <3>2. QED BY <1>9, <1>19, <1>23, <3>1 DEF Shuts, Quiet
  <2>5. \A b \in S : Titled(b) /\ Awaits(b, Ahead(q, i + 1))
    <3> TAKE b \in S
    <3>1. b = t \/ (b = g /\ g # m) BY <1>13
    <3>2. Titled(b) BY <1>9, <3>1 DEF Titled
    <3>3. QED BY <1>24, <1>27, <2>1, <3>1, <3>2 DEF Awaits
  <2>6. \A b \in DOMAIN blocks' : b \in S \/ b \in DOMAIN blocks
    BY <1>15, <1>23
  <2>7. \A b \in DOMAIN blocks' :
          (b \in DOMAIN blocks /\ b \notin Ahead(q, i) /\ Kept(b)) \/ Awaits(b, Ahead(q, i + 1)) \/ Shuts(b)
    <3> TAKE b \in DOMAIN blocks'
    <3>1. CASE b = m BY <2>1, <2>2, <3>1 DEF Awaits
    <3>2. CASE b = insert BY <1>6, <1>7, <1>16, <2>1, <2>3, <3>2
    <3>3. CASE b \notin {m, f, insert} /\ b \in DOMAIN blocks
      BY <1>24, <2>1, <3>3 DEF Kept, Same
    <3>4. QED BY <2>4, <2>5, <2>6, <3>1, <3>2, <3>3
  <2>8. Rests(insert) BY <1>24 DEF Rests
  <2>9. QED BY <1>24, <2>1, <2>5, <2>6, <2>7, <2>8 DEF Steers
<1>31. QED BY <1>3, <1>24, <1>25, <1>26, <1>27, <1>28, <1>29, <1>30, FlowsPart

LEMMA LeaveIfPartFlows ==
  ASSUME IInv, FlowInv, LeaveIfPart
  PROVE  FlowInv' /\ (PassInv => Steered)
<1>1. AtEndOf("if") /\ prog' = prog BY DEF LeaveIfPart, Control, Outside
<1>2. PICK q, i : q = Outer(pos) /\ i = Part(pos)
  OBVIOUS
<1>3. CASE /\ i < prog[q].guards
           /\ blocks' = Tested(BranchIfOpen(blocks, insert, Br(Silent, Merge(q))), q, i + 1,
                               FalseBlock(q, i))
           /\ insert' = Then(q, i + 1)
           /\ pos' = First(q, i + 1)
           /\ UNCHANGED frames
  BY <1>1, <1>2, <1>3, GuardFlows
<1>4. CASE /\ i = prog[q].guards /\ prog[q].hasElse
           /\ blocks' = BranchIfOpen(blocks, insert, Br(Silent, Merge(q)))
           /\ insert' = FalseBlock(q, i)
           /\ pos' = First(q, i + 1)
           /\ UNCHANGED frames
  BY <1>1, <1>2, <1>4, ElseFlows
<1>5. CASE /\ i = Parts(prog[q])
           /\ MergeAt(BranchIfOpen(blocks, insert, Br(Silent, Merge(q))), Merge(q), Frame.block)
           /\ LeaveTo(After(q))
  <2>1. PICK B : B = BranchIfOpen(blocks, insert, Br(Silent, Merge(q)))
    OBVIOUS
  <2>2. Br(Silent, Merge(q)) # Open /\ EndFlows(Br(Silent, Merge(q)), Lands(pos))
    BY <1>1, <1>2, <2>1, PartFlows
  <2>3. PICK t : t = Frame.block
    OBVIOUS
  <2>4. t \in DOMAIN blocks /\ Terminated(blocks, t)
    <3>1. /\ Frame.block \in DOMAIN blocks /\ Frame = frames[Depth] /\ Depth \in Nat /\ Depth > 0
          /\ prog[q].kind = "if" /\ q = Owner(Depth)
      BY <1>1, <1>2, AtEndFacts
    <3>2. Depth \in 1..Depth BY <3>1
    <3>3. Terminated(blocks, frames[Depth].block)
      BY <3>1, <3>2 DEF FlowInv, ClosedInv
    <3>4. QED BY <2>3, <3>1, <3>3
  <2>5. MergeAt(B, Merge(q), t) /\ "if" \in {"if", "loop", "while"}
    BY <1>5, <2>1, <2>3
  <2>6. PICK end : end = Br(Silent, Merge(q))
    OBVIOUS
  <2>7. /\ end # Open /\ EndFlows(end, Lands(pos)) /\ B = BranchIfOpen(blocks, insert, end)
    BY <2>1, <2>2, <2>6
  <2>8. Ahead(q, Part(pos)) = {Merge(q)}
    <3>1. prog[q].kind = "if" /\ i \in Nat BY <1>1, <1>2, AtEndFacts, IfShape
    <3>2. /\ prog[q].guards \in Nat
          /\ Parts(prog[q]) = prog[q].guards + (IF prog[q].hasElse THEN 1 ELSE 0)
      BY <1>1, <1>2, IfShape
    <3>3. prog[q].hasElse => ~(i <= prog[q].guards) BY <1>5, <3>2
    <3>4. ~prog[q].hasElse => FalseBlock(q, i) = Merge(q)
      <4>1. ~prog[q].hasElse => ~(i < prog[q].guards) BY <1>5, <3>2
      <4>2. QED BY <4>1 DEF FalseBlock
    <3>5. QED
      BY <1>2, <3>1, <3>3, <3>4 DEF Ahead, Closing, Droppable, LoopKinds
  <2>9. QED BY <1>1, <1>2, <1>5, <2>3, <2>4, <2>5, <2>6, <2>7, <2>8, MergeFlows
<1>6. \/ /\ i < prog[q].guards
         /\ blocks' = Tested(BranchIfOpen(blocks, insert, Br(Silent, Merge(q))), q, i + 1,
                             FalseBlock(q, i))
         /\ insert' = Then(q, i + 1)
         /\ pos' = First(q, i + 1)
         /\ UNCHANGED frames
      \/ /\ i = prog[q].guards /\ prog[q].hasElse
         /\ blocks' = BranchIfOpen(blocks, insert, Br(Silent, Merge(q)))
         /\ insert' = FalseBlock(q, i)
         /\ pos' = First(q, i + 1)
         /\ UNCHANGED frames
      \/ /\ i = Parts(prog[q])
         /\ MergeAt(BranchIfOpen(blocks, insert, Br(Silent, Merge(q))), Merge(q), Frame.block)
         /\ LeaveTo(After(q))
  BY <1>2 DEF LeaveIfPart
<1>7. QED BY <1>3, <1>4, <1>5, <1>6

(* Steps that emit nothing.                                                *)
LEMMA StillFlows ==
  ASSUME FlowInv, UNCHANGED <<prog, genVars>>
  PROVE  FlowInv'
<1>1. /\ prog' = prog /\ pos' = pos /\ insert' = insert /\ blocks' = blocks /\ frames' = frames
  BY DEF genVars
<1>2. Depth' = Depth /\ \A i : Owner(i)' = Owner(i) /\ PartOf(i)' = PartOf(i)
  BY <1>1 DEF Depth, Owner, PartOf
<1>3. /\ \A b : Terminated(blocks, b)' = Terminated(blocks, b) /\ Blank(blocks, b)' = Blank(blocks, b)
      /\ \A q, i : Ahead(q, i)' = Ahead(q, i)
      /\ \A q : Body(q)' = Body(q) /\ Precedes(q, pos)' = Precedes(q, pos)
      /\ \A q, r : Within(q, r)' = Within(q, r)
  BY <1>1 DEF Terminated, Blank, Open, Silent, Ada!Idle, Ada!Event, Ahead, Closing, Droppable, Merge,
    StepBlock, FalseBlock, Body, Block, Precedes, Within
<1>4. CodeInv' BY <1>1, FlowsPrimed DEF FlowInv, CodeInv
<1>5. CursorInv'
  <2>1. Depth > 0 => DueIn(blocks', insert', Lands(pos'))
    BY <1>1 DEF FlowInv, CursorInv
  <2>2. (Depth > 0 => DueIn(blocks, insert, Lands(pos)))'
    BY <1>1, <1>2, <2>1, FlowsPrimed
  <2>3. ASSUME NEW i \in 2..Depth, prog[Owner(i)].kind = "subp"
        PROVE  DueIn(blocks, frames[i].block, Lands(Owner(i)))'
    <3>1. DueIn(blocks, frames[i].block, Lands(Owner(i)))
      BY <2>3 DEF FlowInv, CursorInv
    <3>2. DueIn(blocks', frames'[i].block, Lands(Owner(i)'))
      BY <1>1, <1>2, <3>1
    <3>3. QED BY <1>1, <3>2, FlowsPrimed
  <2>4. QED BY <1>1, <1>2, <2>2, <2>3 DEF CursorInv
<1>6. FreshInv' BY <1>1, <1>2, <1>3 DEF FlowInv, FreshInv
<1>7. HomeInv' BY <1>1, <1>2, <1>3 DEF FlowInv, HomeInv
<1>8. ClosedInv' BY <1>1, <1>2, <1>3 DEF FlowInv, ClosedInv
<1>9. QED BY <1>4, <1>5, <1>6, <1>7, <1>8 DEF FlowInv

LEMMA RunKeeps ==
  ASSUME Run
  PROVE  UNCHANGED <<prog, genVars>> /\ pc \in {"described", "running"} /\ pc' \in {"running", "stopped"}
<1>1. CASE Begin BY <1>1 DEF Begin, Emitted
<1>2. CASE Execute BY <1>2 DEF Execute, Emitted
<1>3. CASE Branch BY <1>3 DEF Branch, Emitted, AtEnd
<1>4. CASE CondBranch BY <1>4 DEF CondBranch, Emitted, AtEnd
<1>5. CASE ReturnOp BY <1>5 DEF ReturnOp, Emitted, AtEnd
<1>6. QED BY <1>1, <1>2, <1>3, <1>4, <1>5 DEF Run

LEMMA SilentFlows ==
  ASSUME FlowInv, Refuse \/ Verify \/ DescribeLabels \/ Run \/ UNCHANGED vars
  PROVE  FlowInv' /\ UNCHANGED <<prog, genVars>>
<1>1. UNCHANGED <<prog, genVars>>
  <2>1. CASE Refuse BY <2>1 DEF Refuse
  <2>2. CASE Verify BY <2>2 DEF Verify
  <2>3. CASE DescribeLabels BY <2>3 DEF DescribeLabels
  <2>4. CASE Run BY <2>4, RunKeeps
  <2>5. CASE UNCHANGED vars BY <2>5 DEF vars
  <2>6. QED BY <2>1, <2>2, <2>3, <2>4, <2>5
<1>2. QED BY <1>1, StillFlows

LEMMA InitFlowInv == Init => FlowInv
<1> SUFFICES ASSUME Init PROVE FlowInv
  OBVIOUS
<1>1. Depth = 0 /\ DOMAIN blocks = {} /\ 1..Depth = {} /\ 2..Depth = {} /\ ~(Depth > 0)
  BY DEF Init, Depth
<1>2. QED BY <1>1 DEF FlowInv, CodeInv, CursorInv, FreshInv, HomeInv, ClosedInv

LEMMA NextFlows ==
  ASSUME IInv, FlowInv, [Next]_vars
  PROVE  FlowInv' /\ (PassInv /\ PassedInv => Steered \/ UNCHANGED <<prog, genVars>>)
<1>1. CASE SkipUnreachable BY <1>1, SkipFlows
<1>2. CASE EmitAct BY <1>2, ActFlows
<1>3. CASE EmitReturn BY <1>3, ReturnFlows
<1>4. CASE EmitGoto BY <1>4, GotoFlows
<1>5. CASE EmitLabel BY <1>5, LabelFlows
<1>6. CASE EmitExit BY <1>6, ExitFlows
<1>7. CASE EnterIf BY <1>7, IfFlows
<1>8. CASE LeaveIfPart BY <1>8, LeaveIfPartFlows
<1>9. CASE EnterLoop BY <1>9, LoopFlows
<1>10. CASE LeaveLoop BY <1>10, LeaveLoopFlows
<1>11. CASE EnterFor BY <1>11, ForFlows
<1>12. CASE LeaveFor BY <1>12, LeaveForFlows
<1>13. CASE EnterBlock BY <1>13, BlockFlows
<1>14. CASE LeaveBlock BY <1>14, LeaveBlockFlows
<1>15. CASE EnterSubp BY <1>15, SubpFlows
<1>16. CASE LeaveSubp BY <1>16, LeaveSubpFlows
<1>17. CASE Refuse \/ Verify \/ DescribeLabels \/ Run \/ UNCHANGED vars
  BY <1>17, SilentFlows
<1>18. QED
  BY <1>1, <1>2, <1>3, <1>4, <1>5, <1>6, <1>7, <1>8, <1>9, <1>10, <1>11, <1>12, <1>13,
     <1>14, <1>15, <1>16, <1>17 DEF Next, Emit

LEMMA NextFlowInv == IInv /\ FlowInv /\ [Next]_vars => FlowInv'
BY NextFlows

LEMMA FlowInvariance == Spec => []FlowInv
BY InitFlowInv, NextFlowInv, Invariance, PTL DEF Spec

-----------------------------------------------------------------------------
(* A run of what was emitted *)

(* What is due next in a run, as Ada has it.                               *)
Coming(e) ==
  IF at = Silent THEN \E q \in Subps(prog) : e = Lands(First(q, 1))
  ELSE ~Ada!IsFinal(at) /\ e = Follows(at, took)

(* A block does what is due when control reaches it, which is due[i] before*)
(* operation i + 1, and due[Len(code)] at its end.                         *)
Told(b, due) ==
  /\ Leads(Starts(b), blocks[b].code, due)
  /\ EndFlows(blocks[b].end, due[Len(blocks[b].code)])

(* Before a run nothing has happened; in it the next operation, or the end *)
(* of the block, is what Ada has next.                                     *)
RunInv ==
  /\ pc \notin {"running", "stopped"} => at = Silent
  /\ pc = "running" =>
       /\ here \in [block : DOMAIN blocks, op : Nat \ {0}]
       /\ here.op <= Len(blocks[here.block].code) + 1
       /\ \E due : Told(here.block, due) /\ Coming(due[here.op - 1])

(* A step of a run that is one of Ada's.                                   *)
LEMMA Happening ==
  ASSUME NEW e, Coming(e), at' = e, prog' = prog,
         IF Ada!IsTest(e) THEN took' \in BOOLEAN ELSE took' = TRUE
  PROVE  Ada!Next
<1>1. PICK s : s = e
  OBVIOUS
<1>2. Ada!Happens(e) BY DEF Ada!Happens
<1>3. CASE at = Silent
  <2>1. PICK q \in Subps(prog) : e = Lands(First(q, 1)) BY <1>3 DEF Coming
  <2>2. Ada!Subps(prog) = Subps(prog) /\ \A r, i : Ada!First(r, i) = First(r, i)
    BY DEF Ada!Subps, Subps, Ada!First, First
  <2>3. at = Ada!Idle BY <1>3 DEF Silent
  <2>4. QED BY <1>2, <2>1, <2>2, <2>3 DEF Ada!Next, Ada!Begin, Lands
<1>4. CASE at # Silent
  <2>1. ~Ada!IsFinal(at) /\ e = Follows(at, took) /\ at # Ada!Idle
    BY <1>4 DEF Coming, Silent
  <2>2. QED BY <1>2, <2>1 DEF Ada!Next, Ada!Step, Follows
<1>5. QED BY <1>3, <1>4

(* What is due of the state after a step that leaves what was emitted.     *)
LEMMA RunsOn ==
  ASSUME UNCHANGED <<prog, genVars>>, pc' = "running",
         NEW b \in DOMAIN blocks, NEW n \in Nat \ {0}, here' = [block |-> b, op |-> n],
         n <= Len(blocks[b].code) + 1,
         NEW due, Told(b, due), NEW e, e = due[n - 1],
         \/ Coming(e) /\ UNCHANGED <<at, took>>
         \/ at' # Silent /\ ~Ada!IsFinal(at') /\ e = Follows(at', took')
  PROVE  RunInv'
<1>1. prog' = prog /\ blocks' = blocks BY DEF genVars
<1>2. Told(b, due)'
  <2>1. PICK s : s = Starts(b)
    OBVIOUS
  <2>2. Starts(b)' = s BY <1>1, <2>1, FlowsKept
  <2>3. PICK code, end : code = blocks[b].code /\ end = blocks[b].end
    OBVIOUS
  <2>4. Leads(s, code, due)' /\ EndFlows(end, due[Len(code)])'
    <3>1. Leads(s, code, due) /\ EndFlows(end, due[Len(code)])
      BY <2>1, <2>3 DEF Told
    <3>2. Leads(s, code, due)'
      BY <1>1, <3>1, FollowsKept DEF Leads, Silent, Ada!Idle, Ada!Event
    <3>3. PICK d : d = due[Len(code)]
      OBVIOUS
    <3>4. \A c : Starts(c)' = Starts(c) BY <1>1, FlowsKept
    <3>5. EndFlows(end, d)'
      BY <1>1, <3>1, <3>3, <3>4, FollowsKept DEF EndFlows, Silent, Ada!Idle, Ada!Event
    <3>6. QED BY <3>2, <3>3, <3>5
  <2>5. QED BY <1>1, <2>2, <2>3, <2>4 DEF Told
<1>3. Coming(e)'
  <2>1. /\ \A q : Lands(q)' = Lands(q)
        /\ \A c, o : Follows(c, o)' = Follows(c, o)
        /\ \A c : Ada!IsFinal(c)' = Ada!IsFinal(c)
        /\ Subps(prog)' = Subps(prog)
    BY <1>1, FollowsKept DEF Subps
  <2>2. PICK a, o : a = at' /\ o = took'
    OBVIOUS
  <2>3. CASE Coming(e) /\ UNCHANGED <<at, took>>
    BY <1>1, <2>1, <2>3 DEF Coming, Silent, Ada!Idle, Ada!Event
  <2>4. CASE a # Silent /\ ~Ada!IsFinal(a) /\ e = Follows(a, o)
    <3>1. Ada!IsFinal(at)' = Ada!IsFinal(a) /\ Follows(at, took)' = Follows(a, o)
      BY <1>1, <2>2, LandsKept DEF Ada!IsFinal, Follows, Ada!Successor
    <3>2. QED BY <2>2, <2>4, <3>1 DEF Coming, Silent, Ada!Idle, Ada!Event
  <2>5. QED BY <2>2, <2>3, <2>4
<1>4. here'.block = b /\ here'.op = n /\ here' \in [block : DOMAIN blocks', op : Nat \ {0}]
  BY <1>1
<1>5. QED BY <1>1, <1>2, <1>3, <1>4 DEF RunInv

(* Control reaches a block with what is due there.                         *)
LEMMA Reached ==
  ASSUME IInv, FlowInv, UNCHANGED <<prog, genVars>>, pc' = "running",
         NEW b \in DOMAIN blocks, GoTo(b), NEW e, e = Starts(b),
         \/ Coming(e) /\ UNCHANGED <<at, took>>
         \/ at' # Silent /\ ~Ada!IsFinal(at') /\ e = Follows(at', took')
  PROVE  RunInv'
<1>1. PICK d : Due(Starts(b), blocks[b].code, d) /\ EndFlows(blocks[b].end, d)
  BY DEF FlowInv, CodeInv, Flows
<1>2. PICK due : Leads(Starts(b), blocks[b].code, due) /\ due[Len(blocks[b].code)] = d
  BY <1>1 DEF Due
<1>3. Told(b, due) BY <1>1, <1>2 DEF Told
<1>4. PICK n \in Nat \ {0} : n = 1 /\ n - 1 = 0
  OBVIOUS
<1>5. e = due[n - 1] BY <1>2, <1>4 DEF Leads
<1>6. n <= Len(blocks[b].code) + 1
  <2>1. Len(blocks[b].code) \in Nat
    <3>1. blocks[b].code \in Seq(Events) BY NodeFacts DEF IInv, BlocksInv
    <3>2. QED BY <3>1
  <2>2. QED BY <1>4, <2>1
<1>7. here' = [block |-> b, op |-> n] BY <1>4 DEF GoTo
<1>8. QED BY <1>3, <1>5, <1>6, <1>7, RunsOn

LEMMA BeginRuns ==
  ASSUME IInv, FlowInv, RunInv, Begin
  PROVE  RunInv' /\ UNCHANGED <<prog, at, took>>
<1>1. /\ pc = "described" /\ pc' = "running" /\ UNCHANGED <<prog, genVars>>
      /\ at' = at /\ took' = took
  BY DEF Begin, Emitted
<1>2. PICK q \in Subps(prog) : Entry(q) \in DOMAIN blocks /\ GoTo(Entry(q))
  BY DEF Begin
<1>3. PICK b \in DOMAIN blocks : b = Entry(q) BY <1>2
<1>4. PICK e : e = Starts(b)
  OBVIOUS
<1>5. e = Lands(First(q, 1)) BY <1>3, <1>4 DEF Starts, Entry, Block
<1>6. Coming(e) BY <1>1, <1>5 DEF RunInv, Coming
<1>7. RunInv' BY <1>1, <1>2, <1>3, <1>4, <1>6, Reached
<1>8. QED BY <1>1, <1>7

(* In a run, at an operation or at the end of a block.                     *)
LEMMA Running ==
  ASSUME IInv, RunInv, pc = "running"
  PROVE  /\ here.block \in DOMAIN blocks /\ here.op \in Nat \ {0}
         /\ here = [block |-> here.block, op |-> here.op]
         /\ here.op <= Len(blocks[here.block].code) + 1
         /\ Len(blocks[here.block].code) \in Nat
         /\ blocks[here.block].end \in Ends
         /\ Range(blocks[here.block].end.to) \subseteq DOMAIN blocks
<1>1. here \in [block : DOMAIN blocks, op : Nat \ {0}] /\ here.op <= Len(blocks[here.block].code) + 1
  BY DEF RunInv
<1>2. PICK b \in DOMAIN blocks : b = here.block BY <1>1
<1>3. blocks[b].code \in Seq(Events) /\ blocks[b].end \in Ends
  BY NodeFacts DEF IInv, BlocksInv
<1>4. Range(blocks[b].end.to) \subseteq DOMAIN blocks
  BY DEF IInv, BlocksInv, Sound, Branched
<1>5. Len(blocks[b].code) \in Nat BY <1>3
<1>6. QED BY <1>1, <1>2, <1>3, <1>4, <1>5

LEMMA ExecuteRuns ==
  ASSUME IInv, FlowInv, RunInv, Execute
  PROVE  RunInv' /\ (Ada!Next \/ UNCHANGED <<prog, at, took>>)
<1>1. /\ pc = "running" /\ pc' = "running" /\ UNCHANGED <<prog, genVars>> /\ prog' = prog
      /\ here' = [here EXCEPT !.op = here.op + 1] /\ ~(here.op > Len(blocks[here.block].code))
  BY DEF Execute, Emitted, AtEnd
<1>2. PICK b \in DOMAIN blocks, n \in Nat \ {0} : b = here.block /\ n = here.op
  BY <1>1, Running
<1>3. PICK l \in Nat : l = Len(blocks[b].code) BY <1>1, <1>2, Running
<1>4. PICK m \in Nat \ {0} : m = n + 1 BY <1>2
<1>5. n <= l /\ m <= l + 1 /\ m - 1 = n /\ n \in 1..l BY <1>1, <1>2, <1>3, <1>4
<1>6. here' = [block |-> b, op |-> m]
  <2>1. here = [block |-> b, op |-> n] BY <1>1, <1>2, Running
  <2>2. QED BY <1>1, <1>4, <2>1
<1>7. PICK due : Told(b, due) /\ Coming(due[n - 1]) BY <1>1, <1>2 DEF RunInv
<1>8. PICK e, d : e = due[n - 1] /\ d = due[m - 1]
  OBVIOUS
<1>9. PICK c : c = blocks[b].code[n]
  OBVIOUS
<1>10. IF c = Silent THEN d = e
       ELSE c = e /\ Plain(c) /\ d = Follows(c, TRUE)
  <2>1. IF c = Silent THEN due[n] = due[n - 1]
        ELSE c = due[n - 1] /\ Plain(c) /\ due[n] = Follows(c, TRUE)
    BY <1>3, <1>5, <1>7, <1>9 DEF Told, Leads
  <2>2. QED BY <1>5, <1>8, <2>1
<1>11. IF c = Silent THEN UNCHANGED <<at, took>> ELSE at' = c /\ took' = TRUE
  BY <1>2, <1>9 DEF Execute
<1>12. m <= Len(blocks[b].code) + 1 BY <1>3, <1>5
<1>13. CASE c = Silent
  <2>1. Coming(d) /\ UNCHANGED <<at, took>> BY <1>7, <1>8, <1>10, <1>11, <1>13
  <2>2. RunInv' BY <1>1, <1>6, <1>7, <1>8, <1>12, <2>1, RunsOn
  <2>3. QED BY <1>1, <2>1, <2>2
<1>14. CASE c # Silent
  <2>1. /\ Coming(e) /\ at' = e /\ took' = TRUE /\ e # Silent
        /\ ~Ada!IsTest(e) /\ ~Ada!IsFinal(e) /\ d = Follows(e, TRUE)
    BY <1>7, <1>8, <1>10, <1>11, <1>14 DEF Plain
  <2>2. Ada!Next BY <1>1, <2>1, Happening
  <2>3. at' # Silent /\ ~Ada!IsFinal(at') /\ d = Follows(at', took') BY <2>1
  <2>4. RunInv' BY <1>1, <1>6, <1>7, <1>8, <1>12, <2>3, RunsOn
  <2>5. QED BY <2>2, <2>4
<1>15. QED BY <1>13, <1>14

(* At the end of a block: what is due there is Ada's next step, and what   *)
(* follows it is due where the terminator leads.                           *)
LEMMA AtTheEnd ==
  ASSUME IInv, RunInv, AtEnd
  PROVE  \E d : Coming(d) /\ EndFlows(End, d)
<1>1. pc = "running" /\ here.op > Len(blocks[here.block].code) BY DEF AtEnd
<1>2. PICK b \in DOMAIN blocks, n \in Nat \ {0} : b = here.block /\ n = here.op
  BY <1>1, Running
<1>3. PICK l \in Nat : l = Len(blocks[b].code) BY <1>1, <1>2, Running
<1>4. n <= l + 1 /\ n > l BY <1>1, <1>2, <1>3, Running
<1>5. n - 1 = l BY <1>4
<1>6. PICK due : Told(b, due) /\ Coming(due[n - 1]) BY <1>1, <1>2 DEF RunInv
<1>7. PICK d : d = due[l]
  OBVIOUS
<1>8. Coming(d) BY <1>5, <1>6, <1>7
<1>9. EndFlows(blocks[b].end, d) BY <1>3, <1>6, <1>7 DEF Told
<1>10. QED BY <1>2, <1>8, <1>9 DEF End

(* A terminator leads to blocks that were emitted.                         *)
LEMMA EndLeads ==
  ASSUME IInv, RunInv, AtEnd
  PROVE  /\ End.op = "br" => End.to[1] \in DOMAIN blocks
         /\ End.op = "cond_br" => End.to[1] \in DOMAIN blocks /\ End.to[2] \in DOMAIN blocks
<1>1. pc = "running" BY DEF AtEnd
<1>2. PICK end \in Ends : end = End /\ Range(end.to) \subseteq DOMAIN blocks
  BY <1>1, Running DEF End
<1>3. end.to \in Seq(Names) /\ Len(end.to) = Ways(end.op) BY DEF Ends
<1>4. \A i \in DOMAIN end.to : end.to[i] \in DOMAIN blocks BY <1>2 DEF Range
<1>5. CASE end.op = "br"
  <2>1. 1 \in DOMAIN end.to BY <1>3, <1>5 DEF Ways
  <2>2. QED BY <1>2, <1>4, <1>5, <2>1
<1>6. CASE end.op = "cond_br"
  <2>1. 1 \in DOMAIN end.to /\ 2 \in DOMAIN end.to BY <1>3, <1>6 DEF Ways
  <2>2. QED BY <1>2, <1>4, <1>6, <2>1
<1>7. QED BY <1>2, <1>5, <1>6

LEMMA BranchRuns ==
  ASSUME IInv, FlowInv, RunInv, Branch
  PROVE  RunInv' /\ (Ada!Next \/ UNCHANGED <<prog, at, took>>)
<1>1. /\ AtEnd /\ End.op = "br" /\ UNCHANGED <<prog, genVars>> /\ prog' = prog
      /\ pc' = "running" /\ GoTo(End.to[1])
      /\ IF End.event = Silent THEN UNCHANGED <<at, took>> ELSE at' = End.event /\ took' = TRUE
  BY DEF Branch, AtEnd, Emitted
<1>2. PICK d : Coming(d) /\ EndFlows(End, d) BY <1>1, AtTheEnd
<1>3. PICK b \in DOMAIN blocks : b = End.to[1] BY <1>1, EndLeads
<1>4. PICK e : e = Starts(b)
  OBVIOUS
<1>5. IF End.event = Silent THEN e = d
      ELSE End.event = d /\ Plain(d) /\ e = Follows(d, TRUE)
  BY <1>1, <1>2, <1>3, <1>4 DEF EndFlows
<1>6. CASE End.event = Silent
  <2>1. Coming(e) /\ UNCHANGED <<at, took>> BY <1>1, <1>2, <1>5, <1>6
  <2>2. RunInv' BY <1>1, <1>3, <1>4, <2>1, Reached
  <2>3. QED BY <1>1, <2>1, <2>2
<1>7. CASE End.event # Silent
  <2>1. /\ at' = d /\ took' = TRUE /\ d # Silent /\ ~Ada!IsTest(d) /\ ~Ada!IsFinal(d)
        /\ e = Follows(d, TRUE)
    BY <1>1, <1>5, <1>7 DEF Plain
  <2>2. Ada!Next BY <1>1, <1>2, <2>1, Happening
  <2>3. at' # Silent /\ ~Ada!IsFinal(at') /\ e = Follows(at', took') BY <2>1
  <2>4. RunInv' BY <1>1, <1>3, <1>4, <2>3, Reached
  <2>5. QED BY <2>2, <2>4
<1>8. QED BY <1>6, <1>7

LEMMA CondBranchRuns ==
  ASSUME IInv, FlowInv, RunInv, CondBranch
  PROVE  RunInv' /\ Ada!Next
<1>1. /\ AtEnd /\ End.op = "cond_br" /\ UNCHANGED <<prog, genVars>> /\ prog' = prog
      /\ pc' = "running" /\ at' = End.event /\ took' \in BOOLEAN
      /\ GoTo(End.to[IF took' THEN 1 ELSE 2])
  BY DEF CondBranch, AtEnd, Emitted
<1>2. PICK d : Coming(d) /\ EndFlows(End, d) BY <1>1, AtTheEnd
<1>3. /\ End.event = d /\ Allowed(d) /\ Ada!IsTest(d) /\ ~Ada!IsFinal(d)
      /\ Starts(End.to[1]) = Follows(d, TRUE) /\ Starts(End.to[2]) = Follows(d, FALSE)
  BY <1>1, <1>2 DEF EndFlows
<1>4. PICK o \in BOOLEAN : o = took' BY <1>1
<1>5. PICK b \in DOMAIN blocks : b = End.to[IF o THEN 1 ELSE 2]
  BY <1>1, EndLeads
<1>6. PICK e : e = Starts(b)
  OBVIOUS
<1>7. e = Follows(d, o) BY <1>3, <1>5, <1>6
<1>8. at' = d /\ d # Silent BY <1>1, <1>3 DEF Allowed
<1>9. GoTo(b) BY <1>1, <1>4, <1>5
<1>10. Ada!Next BY <1>1, <1>2, <1>3, <1>8, Happening
<1>11. at' # Silent /\ ~Ada!IsFinal(at') /\ e = Follows(at', took')
  BY <1>3, <1>4, <1>7, <1>8
<1>12. RunInv' BY <1>1, <1>6, <1>9, <1>11, Reached
<1>13. QED BY <1>10, <1>12

LEMMA ReturnRuns ==
  ASSUME IInv, FlowInv, RunInv, ReturnOp
  PROVE  RunInv' /\ Ada!Next
<1>1. /\ AtEnd /\ End.op = "return" /\ prog' = prog
      /\ pc' = "stopped" /\ at' = End.event /\ took' = TRUE
  BY DEF ReturnOp, AtEnd, Emitted
<1>2. PICK d : Coming(d) /\ EndFlows(End, d) BY <1>1, AtTheEnd
<1>3. End.event = d /\ ~Ada!IsTest(d) BY <1>1, <1>2 DEF EndFlows
<1>4. Ada!Next BY <1>1, <1>2, <1>3, Happening
<1>5. QED BY <1>1, <1>4 DEF RunInv

(* Emission and the verifier come before anything runs.                    *)
LEMMA EmitBefore ==
  ASSUME Emit
  PROVE  /\ UNCHANGED <<prog, at, took>>
         /\ pc \notin {"running", "stopped"} /\ pc' \notin {"running", "stopped"}
<1> DEFINE Before == /\ UNCHANGED <<prog, at, took>>
                     /\ pc \notin {"running", "stopped"} /\ pc' \notin {"running", "stopped"}
<1>1. ASSUME pc = "generate", Outside PROVE Before BY <1>1 DEF Outside, runVars
<1>2. ASSUME SkipUnreachable \/ EmitAct \/ EmitReturn \/ EmitGoto \/ EmitLabel \/ EmitExit
             \/ EnterIf \/ EnterLoop \/ EnterFor \/ EnterBlock \/ EnterSubp
      PROVE  Before
  <2>1. pc = "generate" /\ Outside
    <3>1. CASE SkipUnreachable BY <3>1 DEF SkipUnreachable, Control
    <3>2. CASE EmitAct BY <3>2 DEF EmitAct, Visiting, Control
    <3>3. CASE EmitReturn BY <3>3 DEF EmitReturn, Visiting, Control
    <3>4. CASE EmitGoto BY <3>4 DEF EmitGoto, Visiting, Control
    <3>5. CASE EmitLabel BY <3>5 DEF EmitLabel
    <3>6. CASE EmitExit BY <3>6 DEF EmitExit, Visiting, Control
    <3>7. CASE EnterIf BY <3>7 DEF EnterIf, Visiting, Control
    <3>8. CASE EnterLoop BY <3>8 DEF EnterLoop, Visiting, Control
    <3>9. CASE EnterFor BY <3>9 DEF EnterFor, Visiting, Control
    <3>10. CASE EnterBlock BY <3>10 DEF EnterBlock, Visiting, Control
    <3>11. CASE EnterSubp BY <3>11 DEF EnterSubp
    <3>12. QED
      BY <1>2, <3>1, <3>2, <3>3, <3>4, <3>5, <3>6, <3>7, <3>8, <3>9, <3>10, <3>11
  <2>2. QED BY <1>1, <2>1
<1>3. ASSUME LeaveIfPart \/ LeaveLoop \/ LeaveFor \/ LeaveBlock \/ LeaveSubp
      PROVE  Before
  <2>1. pc = "generate" /\ Outside
    <3>1. CASE LeaveIfPart BY <3>1 DEF LeaveIfPart, AtEndOf, Control
    <3>2. CASE LeaveLoop BY <3>2 DEF LeaveLoop, AtEndOf, Control
    <3>3. CASE LeaveFor BY <3>3 DEF LeaveFor, AtEndOf, Control
    <3>4. CASE LeaveBlock BY <3>4 DEF LeaveBlock, AtEndOf, Control
    <3>5. CASE LeaveSubp BY <3>5 DEF LeaveSubp, AtEndOf
    <3>6. QED BY <1>3, <3>1, <3>2, <3>3, <3>4, <3>5
  <2>2. QED BY <1>1, <2>1
<1>4. ASSUME Refuse PROVE Before BY <1>4 DEF Refuse, runVars, Visiting
<1>5. ASSUME Verify PROVE Before BY <1>5 DEF Verify, runVars
<1>6. ASSUME DescribeLabels PROVE Before BY <1>6 DEF DescribeLabels, runVars
<1>7. QED BY <1>2, <1>3, <1>4, <1>5, <1>6 DEF Emit

LEMMA InitRunInv == Init => RunInv
BY DEF Init, RunInv

(* Each step is one of Ada's, or nothing happens in it.                    *)
LEMMA NextRunInv ==
  IInv /\ FlowInv /\ RunInv /\ [Next]_vars => RunInv' /\ [Ada!Next]_<<prog, at, took>>
<1> SUFFICES ASSUME IInv, FlowInv, RunInv, [Next]_vars
             PROVE  RunInv' /\ (Ada!Next \/ UNCHANGED <<prog, at, took>>)
  OBVIOUS
<1>1. CASE Emit BY <1>1, EmitBefore DEF RunInv, Silent, Ada!Idle, Ada!Event
<1>2. CASE Begin BY <1>2, BeginRuns
<1>3. CASE Execute BY <1>3, ExecuteRuns
<1>4. CASE Branch BY <1>4, BranchRuns
<1>5. CASE CondBranch BY <1>5, CondBranchRuns
<1>6. CASE ReturnOp BY <1>6, ReturnRuns
<1>7. CASE UNCHANGED vars
  <2>1. /\ UNCHANGED <<prog, genVars>> /\ prog' = prog /\ at' = at /\ took' = took
        /\ pc' = pc /\ here' = here
    BY <1>7 DEF vars, runVars
  <2>2. CASE pc = "running"
    <3>1. PICK b \in DOMAIN blocks, n \in Nat \ {0} :
            here' = [block |-> b, op |-> n] /\ b = here.block /\ n = here.op
      BY <2>1, <2>2, Running
    <3>2. n <= Len(blocks[b].code) + 1 BY <2>2, <3>1, Running
    <3>3. PICK due : Told(b, due) /\ Coming(due[n - 1])
      BY <2>2, <3>1 DEF RunInv
    <3>4. PICK e : e = due[n - 1]
      OBVIOUS
    <3>5. RunInv' BY <2>1, <2>2, <3>1, <3>2, <3>3, <3>4, RunsOn
    <3>6. QED BY <2>1, <3>5
  <2>3. CASE pc # "running"
    BY <2>1, <2>3 DEF RunInv, Silent, Ada!Idle, Ada!Event
  <2>4. QED BY <2>2, <2>3
<1>8. QED BY <1>1, <1>2, <1>3, <1>4, <1>5, <1>6, <1>7 DEF Next, Run

LEMMA AdaWellFormed ==
  ASSUME WellFormed(prog)
  PROVE  Ada!WellFormed(prog)
<1>1. /\ Ada!Subps(prog) = Subps(prog) /\ Ada!Labels(prog) = Labels(prog)
      /\ \A q : Ada!Part(q) = Part(q) /\ Ada!IsPath(q) = IsPath(q)
      /\ Ada!LoopKinds = LoopKinds /\ Ada!Kinds = Kinds
  BY DEF Ada!Subps, Subps, Ada!Labels, Labels, Ada!Part, Part, Ada!IsPath, IsPath, Ada!LoopKinds,
    LoopKinds, Ada!Kinds, Kinds
<1>2. \A s : Ada!Parts(s) = Parts(s) BY <1>1 DEF Ada!Parts, Parts
<1>3. \A q : Ada!Enclosing(q) = Enclosing(q) BY DEF Ada!Enclosing, Enclosing
<1>4. \A l : Ada!Region(prog, l) = Region(prog, l)
  BY <1>3, AdaNames DEF Ada!Region, Region
<1>5. \A q : Ada!Visible(prog, q) = Visible(prog, q)
  BY <1>1, <1>3, <1>4 DEF Ada!Visible, Visible
<1>6. \A l, m : Ada!Homographs(prog, l, m) = Homographs(prog, l, m)
  BY <1>4 DEF Ada!Homographs, Homographs
<1>7. \A q : Ada!Named(prog, q) = Named(prog, q) BY AdaNames
<1>8. Ada!Top = Top /\ \A q : Ada!After(q) = After(q) /\ Ada!Outer(q) = Outer(q)
  BY AdaTerms
<1>9. \A q, i : Ada!First(q, i) = First(q, i) BY AdaTerms
<1>10. Ada!Top \in Ada!Subps(prog) BY <1>1, <1>8 DEF WellFormed
<1>11. ASSUME NEW q \in DOMAIN prog
       PROVE  /\ Ada!IsPath(q) /\ prog[q].kind \in Ada!Kinds
              /\ prog[q].kind = "if" => prog[q].guards \in Nat \ {0} /\ prog[q].hasElse \in BOOLEAN
              /\ \A i \in 1..Ada!Parts(prog[q]) : Ada!First(q, i) \in DOMAIN prog
  BY <1>1, <1>2, <1>9 DEF WellFormed
<1>12. ASSUME NEW q \in DOMAIN prog \ {Ada!Top}
       PROVE  /\ Ada!Outer(q) \in DOMAIN prog
              /\ Ada!Part(q) \in 1..Ada!Parts(prog[Ada!Outer(q)])
              /\ q[Len(q)] > 1 => [q EXCEPT ![Len(q)] = @ - 1] \in DOMAIN prog
              /\ prog[q].kind = "subp" =>
                   /\ prog[Ada!Outer(q)].kind \in {"block", "subp"}
                   /\ Ada!After(q) \in DOMAIN prog
                   /\ \A n \in 1..q[Len(q)] : [q EXCEPT ![Len(q)] = n] \in Ada!Subps(prog)
              /\ prog[q].kind = "goto" =>
                   /\ Ada!Visible(prog, q) # {}
                   /\ Len(Ada!Named(prog, q)) <= Len(q)
                   /\ SubSeq(q, 1, Len(Ada!Named(prog, q)) - 1)
                        = SubSeq(Ada!Named(prog, q), 1, Len(Ada!Named(prog, q)) - 1)
  <2>1. q \in DOMAIN prog \ {Top} BY <1>8
  <2>2. /\ Outer(q) \in DOMAIN prog
        /\ Part(q) \in 1..Parts(prog[Outer(q)])
        /\ q[Len(q)] > 1 => [q EXCEPT ![Len(q)] = @ - 1] \in DOMAIN prog
        /\ prog[q].kind = "subp" =>
             /\ prog[Outer(q)].kind \in {"block", "subp"}
             /\ After(q) \in DOMAIN prog
             /\ \A n \in 1..q[Len(q)] : [q EXCEPT ![Len(q)] = n] \in Subps(prog)
    BY <2>1 DEF WellFormed
  <2>3. prog[q].kind = "goto" =>
          /\ Visible(prog, q) # {}
          /\ Len(Named(prog, q)) <= Len(q)
          /\ SubSeq(q, 1, Len(Named(prog, q)) - 1)
               = SubSeq(Named(prog, q), 1, Len(Named(prog, q)) - 1)
    BY <2>1 DEF WellFormed
  <2>4. QED BY <1>1, <1>2, <1>5, <1>7, <1>8, <2>2, <2>3
<1>13. ASSUME NEW l \in Ada!Labels(prog), NEW m \in Ada!Labels(prog), Ada!Homographs(prog, l, m)
       PROVE  l = m
  BY <1>1, <1>6, <1>13 DEF WellFormed
<1>14. Ada!IsFiniteSet(DOMAIN prog)
  BY DEF WellFormed, IsFiniteSet, Ada!IsFiniteSet
<1>15. QED BY <1>10, <1>11, <1>12, <1>13, <1>14 DEF Ada!WellFormed

LEMMA InitAda == Init => Ada!Init
<1> SUFFICES ASSUME Init PROVE Ada!Init
  OBVIOUS
<1>1. prog \in Programs /\ at = Silent /\ took = TRUE BY DEF Init
<1>2. WellFormed(prog) BY <1>1, ProgramsWellFormed
<1>3. Ada!WellFormed(prog) /\ at = Ada!Idle
  BY <1>1, <1>2, AdaWellFormed DEF Silent
<1>4. QED BY <1>1, <1>3 DEF Ada!Init

(* For every program, whatever its bodies, loops, jumps and unreachable    *)
(* statements, accepted or not: a run of what was emitted performs its     *)
(* acts, tests, jumps and returns in the order Ada gives them, no test has *)
(* its outcomes crossed, and none is left out, repeated or added.          *)
THEOREM AdaOrderKept == Spec => ImplementsAdaStatements
<1>1. IInv /\ FlowInv /\ RunInv /\ [Next]_vars => RunInv' /\ [Ada!Next]_Ada!vars
  BY NextRunInv DEF Ada!vars
<1>2. QED
  BY <1>1, InitRunInv, InitAda, Invariance, FlowInvariance, PTL DEF Spec, ImplementsAdaStatements, Ada!Spec

LEMMA OutPrecedes ==
  ASSUME NEW q, IsPath(q), Len(q) > 1
  PROVE  /\ Precedes(q, After(Outer(q)))
         /\ Precedes(q, First(Outer(q), Part(q) + 1))
<1> DEFINE n == Len(q)
           o == Outer(q)
           m == n - 2
<1>1. n \in Nat /\ n >= 3 /\ \A j \in 1..n : q[j] \in Nat BY PathFacts
<1>2. m \in 1..n /\ m \in Nat /\ m >= 1 BY <1>1
<1>3. IsPath(o) /\ Len(o) = m /\ \A j \in 1..m : o[j] = q[j] BY OuterFacts
<1>4. Len(After(o)) = m /\ After(o)[m] = o[m] + 1 /\ \A j \in 1..(m - 1) : After(o)[j] = o[j]
  BY <1>3, AfterFacts
<1>5. q[m] < After(o)[m] BY <1>1, <1>2, <1>3, <1>4
<1>6. \A j \in 1..(m - 1) : q[j] = After(o)[j] BY <1>2, <1>3, <1>4
<1>7. Precedes(q, After(o)) BY <1>2, <1>4, <1>5, <1>6 DEF Precedes
<1> DEFINE p == Part(q) + 1
           f == First(o, p)
<1>8. m + 1 \in 1..n /\ n - 1 = m + 1 /\ Part(q) = q[m + 1] /\ p \in Nat \ {0}
  BY <1>1 DEF Part
<1>9. Len(f) = m + 2 /\ f[m + 1] = p /\ \A j \in 1..m : f[j] = o[j]
  <2>1. IsPath(o) /\ p \in Nat \ {0} /\ Len(o) = m BY <1>3, <1>8
  <2> HIDE DEF o, p, m
  <2>2. Len(f) = Len(o) + 2 /\ f[Len(o) + 1] = p /\ \A j \in 1..Len(o) : f[j] = o[j]
    BY <2>1, FirstFacts
  <2>3. QED BY <2>1, <2>2
<1>10. q[m + 1] < f[m + 1] /\ m + 1 <= Len(f) /\ (m + 1) - 1 = m
  BY <1>1, <1>2, <1>8, <1>9
<1>11. \A j \in 1..m : q[j] = f[j] BY <1>3, <1>9
<1>12. Precedes(q, f) BY <1>8, <1>10, <1>11 DEF Precedes
<1>13. QED BY <1>7, <1>12

-----------------------------------------------------------------------------
(* Programs are finite, and so is every way through one *)

LEMMA FiniteProgram ==
  ASSUME prog \in Programs
  PROVE  IsFiniteSet(Ada!Inside) /\ IsFiniteSet(Ada!Steps)
<1>1. IsFiniteSet(DOMAIN prog) BY ProgramsWellFormed DEF WellFormed
<1> DEFINE ends == {After(q) : q \in DOMAIN prog}
           behind == [q \in DOMAIN prog |-> After(q)]
<1>2. behind \in Surjection(DOMAIN prog, ends) BY DEF Surjection
<1>3. IsFiniteSet(ends) BY <1>1, <1>2, FS_Surjection
<1>4. IsFiniteSet(DOMAIN prog \union ends) BY <1>1, <1>3, FS_Union
<1>5. Ada!Inside \in SUBSET (DOMAIN prog \union ends) BY InsideAre
<1>6. IsFiniteSet(Ada!Inside) BY <1>4, <1>5, FS_Subset
<1> DEFINE steps == [q \in DOMAIN prog |-> {Event(q, i) : i \in 1..Ada!StepCount(prog[q])}]
           all == {steps[q] : q \in DOMAIN prog}
<1>7. steps \in Surjection(DOMAIN prog, all) BY DEF Surjection
<1>8. IsFiniteSet(all) BY <1>1, <1>7, FS_Surjection
<1>9. ASSUME NEW q \in DOMAIN prog PROVE IsFiniteSet(steps[q])
  <2> DEFINE count == Ada!StepCount(prog[q])
             step == [i \in 1..count |-> Event(q, i)]
  <2>1. count \in Nat BY ProgramFacts DEF Ada!StepCount
  <2>2. IsFiniteSet(1..count) BY <2>1, FS_Interval
  <2>3. step \in Surjection(1..count, steps[q]) BY DEF Surjection
  <2>4. QED BY <2>2, <2>3, FS_Surjection
<1>10. IsFiniteSet(UNION all) BY <1>8, <1>9, FS_UNION
<1>11. Ada!Steps = UNION all BY AdaTerms DEF Ada!Steps
<1>12. QED BY <1>6, <1>10, <1>11

LEMMA StepIs ==
  ASSUME NEW e
  PROVE  e \in Ada!Steps
           <=> \E q \in DOMAIN prog : \E i \in 1..Ada!StepCount(prog[q]) : e = Event(q, i)
BY AdaTerms DEF Ada!Steps

(* Control that reaches a position comes to a step: what it passes on the  *)
(* way lies further on in the program each time.                           *)
LEMMA LandsOnStep ==
  ASSUME prog \in Programs, NEW place \in Ada!Inside
  PROVE  Lands(place) \in Ada!Steps
<1> DEFINE W == {q \in Ada!Inside : Lands(q) \notin Ada!Steps}
           past == [q \in W |-> {r \in Ada!Inside : Begun(r, q)}]
<1> SUFFICES ASSUME W # {} PROVE FALSE
  OBVIOUS
<1>1. ASSUME NEW q \in W PROVE \E t \in W : Onward(q, t)
  <2>1. q \in Ada!Inside /\ IsPath(q) /\ Len(q) > 1 /\ Outer(q) \in DOMAIN prog
    BY InsideFacts
  <2>2. CASE q \in DOMAIN prog
    <3>1. q # Top /\ prog[q].kind \in {"if"} => prog[q].guards \in Nat \ {0}
      BY <2>2, ProgramFacts
    <3>2. q # Top BY <2>1, InsideAre
    <3>3. CASE prog[q].kind \in {"label", "subp"}
      <4>1. After(q) \in Ada!Inside /\ Lands(q) = Lands(After(q))
        BY <2>2, <3>2, <3>3, InsideFacts, LandsIs
      <4>2. QED BY <4>1 DEF Onward
    <3>4. CASE prog[q].kind \in {"block", "loop"}
      <4>1. 1 \in 1..Parts(prog[q]) BY <3>4 DEF Parts, LoopKinds
      <4>2. First(q, 1) \in Ada!Inside /\ Lands(q) = Lands(First(q, 1))
        BY <2>2, <3>4, <4>1, InsideFacts, LandsIs
      <4>3. 1 \in Nat \ {0}
        OBVIOUS
      <4>4. Onward(q, First(q, 1)) BY <4>3 DEF Onward
      <4>5. QED BY <4>2, <4>4
    <3>5. CASE prog[q].kind \notin {"label", "subp", "block", "loop"}
      <4>1. Lands(q) = Event(q, 1) BY <2>2, <3>5, LandsIs
      <4>2. 1 \in 1..Ada!StepCount(prog[q])
        BY <3>1, <3>2, <3>5 DEF Ada!StepCount
      <4>3. QED BY <2>2, <4>1, <4>2, StepIs
    <3>6. QED BY <3>3, <3>4, <3>5
  <2>3. CASE q \notin DOMAIN prog
    <3> DEFINE o == Outer(q)
    <3>1. PICK r \in DOMAIN prog : q = After(r) /\ r # Top
      BY <2>1, <2>3, InsideAre
    <3>2. Outer(r) \in DOMAIN prog /\ Part(r) \in 1..Parts(prog[Outer(r)]) /\ Len(r) > 1 /\ IsPath(r)
      BY <3>1, ProgramFacts
    <3>3. o = Outer(r)
      <4>1. Len(After(r)) = Len(r) /\ Len(r) - 2 \in 0..(Len(r) - 1)
        BY <3>2, AfterFacts, PathFacts
      <4>2. SubSeq(After(r), 1, Len(r) - 2) = SubSeq(r, 1, Len(r) - 2)
        BY <3>2, <4>1, AfterFacts
      <4>3. QED BY <3>1, <4>1, <4>2 DEF Outer
    <3>4. prog[o].kind # "label" BY <3>2, <3>3 DEF Parts, LoopKinds
    <3>5. CASE prog[o].kind \in {"if", "block"}
      <4>1. o # Top BY <3>5, ProgramFacts
      <4>2. After(o) \in Ada!Inside /\ Lands(q) = Lands(After(o))
        BY <2>1, <2>3, <3>5, <4>1, InsideFacts, LandsIs
      <4>3. QED BY <2>1, <4>2 DEF Onward
    <3>6. CASE prog[o].kind = "for"
      <4>1. Lands(q) = Event(o, 2) BY <2>1, <2>3, <3>6, LandsIs
      <4>2. 2 \in 1..Ada!StepCount(prog[o]) BY <3>6 DEF Ada!StepCount
      <4>3. QED BY <2>1, <4>1, <4>2, StepIs
    <3>7. CASE prog[o].kind \notin {"if", "block", "for"}
      <4>1. Lands(q) = Event(o, 1) BY <2>1, <2>3, <3>7, LandsIs
      <4>2. 1 \in 1..Ada!StepCount(prog[o]) BY <3>4, <3>7 DEF Ada!StepCount
      <4>3. QED BY <2>1, <4>1, <4>2, StepIs
    <3>8. QED BY <3>5, <3>6, <3>7
  <2>4. QED BY <2>2, <2>3
<1>2. past \in [W -> SUBSET Ada!Inside]
  OBVIOUS
<1>3. PICK q \in W : \A t \in W : past[q] \subseteq past[t] => past[t] = past[q]
  <2> HIDE DEF past, W
  <2>1. QED BY <1>2, FiniteProgram, Largest
<1>4. PICK t \in W : Onward(q, t) BY <1>1
<1>5. ASSUME NEW r \in Ada!Inside PROVE r \in Seq(Nat) /\ IsPath(r)
  BY InsideFacts, PathFacts
<1>6. past[q] \subseteq past[t] BY <1>4, <1>5, OrderKept
<1>7. q \in past[t]
  <2>1. IsPath(q) /\ q \in Seq(Nat) BY <1>5
  <2>2. Begun(q, t)
    <3>1. ASSUME t = After(q) PROVE Begun(q, t)
      BY <2>1, <3>1, LeftPrecedes DEF Begun
    <3>2. ASSUME NEW p \in Nat \ {0}, t = First(q, p) PROVE Begun(q, t)
      BY <2>1, <3>2, LeftPrecedes
    <3>3. ASSUME Len(q) > 1, t = After(Outer(q)) PROVE Begun(q, t)
      BY <2>1, <3>3, OutPrecedes DEF Begun
    <3>4. ASSUME Len(q) > 1, t = First(Outer(q), Part(q) + 1) PROVE Begun(q, t)
      BY <2>1, <3>4, OutPrecedes DEF Begun
    <3>5. QED BY <1>4, <3>1, <3>2, <3>3, <3>4 DEF Onward
  <2>3. QED BY <2>2
<1>8. ~Begun(q, q) BY <1>5, NotBegun
<1>9. QED BY <1>3, <1>4, <1>6, <1>7, <1>8

LEMMA AdaLaw ==
  \A q : Ada!Illegal(prog, q) <=> Illegal(prog, q)
<1>1. \A S : Ada!Innermost(S) = Innermost(S) BY AdaNames
<1>2. \A q : Ada!Enclosing(q) = Enclosing(q) BY DEF Ada!Enclosing, Enclosing
<1>3. Ada!Subps(prog) = Subps(prog) BY DEF Ada!Subps, Subps
<1>4. \A q : Ada!EnclosingSubpBody(prog, q) = EnclosingSubpBody(prog, q)
  BY <1>1, <1>2, <1>3 DEF Ada!EnclosingSubpBody, EnclosingSubpBody
<1>5. QED BY <1>4, AdaNames DEF Ada!Illegal, Illegal

(* The statements around one are statements, and some are innermost.       *)
LEMMA AroundFacts ==
  ASSUME prog \in Programs, NEW q \in DOMAIN prog
  PROVE  /\ Enclosing(q) \subseteq DOMAIN prog
         /\ \A S \in SUBSET Enclosing(q) : S # {} => Innermost(S) \in S
<1> DEFINE Far(r) == ~(Enclosing(r) \subseteq DOMAIN prog)
           T == {Len(r) : r \in {r \in DOMAIN prog : Far(r)}}
<1>1. \A r \in DOMAIN prog : IsPath(r) /\ r \in Seq(Nat) /\ Len(r) \in Nat
  BY ProgramFacts, PathFacts
<1>2. ASSUME T # {} PROVE FALSE
  <2>1. T \in SUBSET Nat BY <1>1
  <2>2. PICK n \in T : \A m \in T : n <= m BY <1>2, <2>1, LeastNat
  <2>3. PICK r \in DOMAIN prog : Far(r) /\ Len(r) = n BY <2>2
  <2>4. PICK k \in 1..(n - 2) : k % 2 = 1 /\ SubSeq(r, 1, k) \notin DOMAIN prog
    BY <2>3 DEF Enclosing
  <2>5. n \in Nat /\ n > 1 /\ n % 2 = 1
    <3>1. Len(r) % 2 = 1 /\ Len(r) \in Nat BY <1>1 DEF IsPath
    <3>2. n \in Nat /\ n > 1 BY <2>3, <2>4, <3>1
    <3>3. QED BY <2>3, <3>1, <3>2
  <2>6. r # Top
    <3>1. Len(r) = n /\ Len(Top) = 1 /\ n # 1 BY <2>3, <2>5, TopFacts
    <3> HIDE DEF T, Far
    <3>2. QED BY <3>1
  <2>7. Outer(r) \in DOMAIN prog BY <2>6, ProgramFacts
  <2>8. k # n - 2 BY <2>3, <2>4, <2>7 DEF Outer
  <2>9. k <= n - 4
    <3>1. PICK i \in Nat : n = 2 * i + 1
      <4>1. n = 2 * (n \div 2) + (n % 2) /\ n \div 2 \in Nat BY <2>5
      <4>2. QED BY <2>5, <4>1
    <3>2. PICK j \in Nat : k = 2 * j + 1
      <4>1. k \in Nat BY <2>4, <2>5
      <4>2. k = 2 * (k \div 2) + (k % 2) /\ k \div 2 \in Nat BY <4>1
      <4>3. QED BY <2>4, <4>2
    <3>3. j < i - 1 BY <2>4, <2>8, <3>1, <3>2
    <3>4. QED BY <3>1, <3>2, <3>3
  <2>10. IsPath(Outer(r)) /\ Len(Outer(r)) = n - 2 /\ SubSeq(Outer(r), 1, k) = SubSeq(r, 1, k)
    <3>1. k \in 0..(Len(r) - 2) BY <2>3, <2>4, <2>5
    <3>2. QED BY <1>1, <2>3, <2>5, <3>1, OuterFacts
  <2>11. k \in 1..(Len(Outer(r)) - 2) BY <2>4, <2>5, <2>9, <2>10
  <2>12. Far(Outer(r)) BY <2>4, <2>10, <2>11 DEF Enclosing
  <2>13. n - 2 \in T BY <2>7, <2>10, <2>12
  <2> HIDE DEF T
  <2>14. n <= n - 2 BY <2>2, <2>13
  <2>15. QED BY <2>5, <2>14
<1>3. Enclosing(q) \subseteq DOMAIN prog BY <1>2
<1>4. ASSUME NEW S \in SUBSET Enclosing(q), S # {} PROVE Innermost(S) \in S
  <2> DEFINE U == {Len(r) : r \in S}
             n == Len(q)
  <2>1. n \in Nat BY <1>1
  <2>2. \A r \in S : Len(r) \in 0..n
    <3> TAKE r \in S
    <3>1. PICK k \in 1..(n - 2) : r = SubSeq(q, 1, k) BY DEF Enclosing
    <3>2. Len(r) = k BY <1>1, <3>1
    <3>3. QED BY <2>1, <3>1, <3>2
  <2>3. U \in SUBSET (0..n) /\ U # {} BY <1>4, <2>2
  <2>4. PICK x \in U : \A y \in U : y <= x BY <2>1, <2>3, Greatest
  <2>5. \E r \in S : \A t \in S : Len(t) <= Len(r) BY <2>4
  <2>6. QED BY <2>5 DEF Innermost
<1>5. QED BY <1>3, <1>4

(* What Ada has after a step it allows is a step of the program again.     *)
LEMMA NextOnStep ==
  ASSUME prog \in Programs, NEW e \in Ada!Steps
  PROVE  Ada!NextSteps(e) \in SUBSET Ada!Steps
<1> SUFFICES ASSUME ~Ada!IsFinal(e), ~Illegal(prog, e.stmt),
                    NEW o \in (IF Ada!IsTest(e) THEN BOOLEAN ELSE {TRUE})
             PROVE  Follows(e, o) \in Ada!Steps
  BY AdaTerms, AdaLaw DEF Ada!NextSteps, Follows
<1>0. PICK q \in DOMAIN prog : \E i \in 1..Ada!StepCount(prog[q]) : e = Event(q, i)
  BY StepIs
<1>1. PICK i \in 1..Ada!StepCount(prog[q]) : e = Event(q, i) BY <1>0
<1>2. e.stmt = q /\ e.step = i /\ o \in BOOLEAN BY <1>1 DEF Event, Ada!Event
<1>3. prog[q].kind \notin {"label", "block", "return", "subp"}
  BY <1>1, <1>2 DEF Ada!StepCount, Ada!IsFinal
<1>4. prog[q].kind \in {"act", "goto", "exit", "if", "loop", "while", "for"}
  BY <1>3, ProgramsWellFormed DEF WellFormed, Kinds, LoopKinds
<1>5. q # Top BY <1>3, ProgramFacts
<1>6. Lands(After(q)) \in Ada!Steps BY <1>5, InsideFacts, LandsOnStep
<1>7. \A k \in 1..Parts(prog[q]) : Lands(First(q, k)) \in Ada!Steps
  BY InsideFacts, LandsOnStep
<1>8. CASE prog[q].kind = "act"
  <2>1. i = 1 /\ ~Ada!IsTest(e)
    BY <1>1, <1>2, <1>8 DEF Ada!StepCount, Ada!IsTest
  <2>2. QED BY <1>1, <1>6, <1>8, <2>1, FollowsIs
<1>9. CASE prog[q].kind = "goto"
  <2>1. i = 1 /\ ~Ada!IsTest(e)
    BY <1>1, <1>2, <1>9 DEF Ada!StepCount, Ada!IsTest
  <2>2. Named(prog, q) \in DOMAIN prog /\ prog[Named(prog, q)].kind = "label"
    BY <1>9, NamedFacts
  <2>3. Named(prog, q) \in DOMAIN prog \ {Top} BY <2>2, ProgramFacts
  <2>4. Lands(Named(prog, q)) \in Ada!Steps BY <2>3, InsideFacts, LandsOnStep
  <2>5. QED BY <1>1, <1>9, <2>1, <2>4, FollowsIs
<1>10. CASE prog[q].kind = "exit"
  <2> DEFINE S == ExitableLoops(prog, q)
  <2>1. i = 1 BY <1>1, <1>10 DEF Ada!StepCount
  <2>2. S # {} BY <1>2, <1>10 DEF Illegal
  <2>3. S \in SUBSET Enclosing(q) BY DEF ExitableLoops
  <2>4. Innermost(S) \in S /\ Enclosing(q) \subseteq DOMAIN prog
    BY <2>2, <2>3, AroundFacts
  <2>5. prog[Innermost(S)].kind \in LoopKinds BY <2>4 DEF ExitableLoops
  <2>6. Innermost(S) \in DOMAIN prog \ {Top}
    BY <2>3, <2>4, <2>5, ProgramFacts DEF LoopKinds
  <2>7. Lands(After(Innermost(S))) \in Ada!Steps
    BY <2>6, InsideFacts, LandsOnStep
  <2>8. QED BY <1>1, <1>2, <1>6, <1>10, <2>1, <2>7, FollowsIs
<1>11. CASE prog[q].kind = "if"
  <2>1. prog[q].guards \in Nat \ {0} /\ prog[q].hasElse \in BOOLEAN
    BY <1>11, ProgramFacts
  <2>2. i \in 1..prog[q].guards BY <1>1, <1>11 DEF Ada!StepCount
  <2> DEFINE g == prog[q].guards
  <2>0. Parts(prog[q]) = IF prog[q].hasElse THEN g + 1 ELSE g + 0
    BY <1>11, <2>1 DEF Parts, LoopKinds
  <2>3. i \in 1..Parts(prog[q]) BY <2>0, <2>1, <2>2
  <2>4. Starts(Then(q, i)) \in Ada!Steps BY <1>7, <2>3 DEF Starts, Then
  <2>5. Starts(FalseBlock(q, i)) \in Ada!Steps
    <3>1. CASE i < prog[q].guards
      <4>1. i + 1 \in 1..prog[q].guards BY <2>1, <2>2, <3>1
      <4>2. Event(q, i + 1) \in Ada!Steps
        BY <1>11, <4>1, StepIs DEF Ada!StepCount
      <4>3. QED BY <3>1, <4>2 DEF Starts, FalseBlock
    <3>2. CASE ~(i < prog[q].guards) /\ prog[q].hasElse
      <4>1. i + 1 \in 1..Parts(prog[q])
        <5> HIDE DEF g
        <5>1. i = g /\ Parts(prog[q]) = g + 1 /\ g \in Nat \ {0}
          BY <2>0, <2>1, <2>2, <3>2 DEF g
        <5>2. QED BY <5>1
      <4>2. Lands(First(q, i + 1)) \in Ada!Steps BY <1>7, <4>1
      <4>3. QED BY <3>2, <4>2 DEF Starts, FalseBlock
    <3>3. CASE ~(i < prog[q].guards) /\ ~prog[q].hasElse
      BY <1>6, <3>3 DEF Starts, FalseBlock, Merge, Block
    <3>4. QED BY <3>1, <3>2, <3>3
  <2>6. QED BY <1>1, <1>2, <1>11, <2>2, <2>4, <2>5, FollowsIs
<1>12. CASE prog[q].kind \in {"loop", "while", "for"}
  <2>1. 1 \in 1..Parts(prog[q]) BY <1>12 DEF Parts, LoopKinds
  <2>2. /\ Starts(Body(q)) \in Ada!Steps /\ Starts(InitBlock(q)) \in Ada!Steps
        /\ Starts(Merge(q)) \in Ada!Steps
    BY <1>6, <1>7, <2>1 DEF Starts, Body, InitBlock, Merge, Block
  <2>3. CASE prog[q].kind = "for"
    <3>1. i \in {1, 2, 3} BY <1>1, <2>3 DEF Ada!StepCount
    <3>2. i = 3 => o = TRUE
      <4>1. i = 3 => ~Ada!IsTest(e) BY <1>2, <2>3 DEF Ada!IsTest
      <4>2. QED BY <4>1
    <3>3. 3 \in 1..Ada!StepCount(prog[q]) BY <2>3 DEF Ada!StepCount
    <3>4. Event(q, 3) \in Ada!Steps BY <3>3, StepIs
    <3>5. QED BY <1>1, <1>2, <2>2, <2>3, <3>1, <3>2, <3>4, FollowsIs
  <2>4. CASE prog[q].kind = "while"
    <3>1. i = 1 BY <1>1, <2>4 DEF Ada!StepCount
    <3>2. QED BY <1>1, <1>2, <2>2, <2>4, <3>1, FollowsIs
  <2>5. CASE prog[q].kind = "loop"
    <3>1. i = 1 /\ ~Ada!IsTest(e)
      BY <1>1, <1>2, <2>5 DEF Ada!StepCount, Ada!IsTest
    <3>2. QED BY <1>1, <2>2, <2>5, <3>1, FollowsIs
  <2>6. QED BY <1>12, <2>3, <2>4, <2>5
<1>13. QED BY <1>4, <1>8, <1>9, <1>10, <1>11, <1>12

(* Steps that go on among themselves.                                      *)
Closed(Z) == \A e \in Z : Ada!NextSteps(e) \subseteq Z

(* What control may reach is the least such set around where it starts.    *)
Least(start, R) ==
  /\ R \in SUBSET Ada!Steps /\ start \subseteq R /\ Closed(R)
  /\ \A Z : Closed(Z) /\ start \subseteq Z => R \subseteq Z

LEMMA ReachIs ==
  ASSUME prog \in Programs, NEW start \in SUBSET Ada!Steps
  PROVE  Least(start, Ada!Reach(start))
<1> DEFINE P == SUBSET Ada!Steps
           More(S) == S \union UNION {Ada!NextSteps(e) : e \in S}
           stop == {S \in P : More(S) = S}
           next == [S \in P \ stop |-> More(S)]
           val == [S \in stop |-> S]
           G(g) == [S \in P |-> IF More(S) = S THEN S ELSE g[More(S)]]
<1>1. ASSUME NEW S \in P PROVE More(S) \in P BY NextOnStep
<1>2. PICK f \in [P -> P] : \A S \in P : f[S] = IF S \in stop THEN val[S] ELSE f[next[S]]
  <2>1. next \in [P \ stop -> P] /\ val \in [stop -> P] /\ stop \in SUBSET P /\ {} \in P
    BY <1>1
  <2> HIDE DEF P, stop, next, val
  <2>2. PassedOn(P, stop, next, val, P) BY <2>1, WalkExists
  <2>3. QED BY <2>2 DEF PassedOn
<1>3. f = G(f)
  <2>1. ASSUME NEW S \in P PROVE f[S] = G(f)[S] BY <1>2
  <2>2. f = [S \in P |-> f[S]] /\ G(f) = [S \in P |-> G(f)[S]]
    OBVIOUS
  <2>3. QED BY <2>1, <2>2
<1> DEFINE Grow == CHOOSE g : g = G(g)
<1>4. Grow = G(Grow)
  <2> HIDE DEF G
  <2>1. QED BY <1>3
<1>5. \A S : Ada!Reach(S) = Grow[S] BY DEF Ada!Reach
<1> HIDE DEF Grow
<1>6. ASSUME NEW S \in P PROVE Grow[S] = IF More(S) = S THEN S ELSE Grow[More(S)]
  BY <1>4
<1> DEFINE W == {S \in P : ~Least(S, Grow[S])}
           part == [S \in W |-> S]
<1>7. ASSUME W # {} PROVE FALSE
  <2>1. part \in [W -> SUBSET Ada!Steps]
    OBVIOUS
  <2>2. PICK S \in W : \A T \in W : part[S] \subseteq part[T] => part[T] = part[S]
    <3> HIDE DEF W, part
    <3>1. QED BY <1>7, <2>1, FiniteProgram, Largest
  <2>3. S \in P /\ ~Least(S, Grow[S])
    OBVIOUS
  <2>4. CASE More(S) = S
    <3>1. Grow[S] = S BY <1>6, <2>3, <2>4
    <3>2. Closed(S) BY <2>4 DEF Closed
    <3>3. QED BY <2>3, <3>1, <3>2 DEF Least
  <2>5. CASE More(S) # S
    <3>1. PICK T : T = More(S)
      OBVIOUS
    <3>2. T \in P /\ S \subseteq T /\ T # S BY <1>1, <2>3, <2>5, <3>1
    <3>3. Grow[S] = Grow[T] BY <1>6, <2>3, <2>5, <3>1
    <3>4. T \notin W BY <2>2, <3>2
    <3>5. Least(T, Grow[T]) BY <3>2, <3>4
    <3>6. ASSUME NEW Z, Closed(Z), S \subseteq Z PROVE T \subseteq Z
      BY <3>1, <3>6 DEF Closed
    <3>7. Least(S, Grow[T])
      <4> HIDE DEF P, W, More
      <4>1. QED BY <3>2, <3>5, <3>6 DEF Least
    <3>8. QED BY <2>3, <3>3, <3>7
  <2>6. QED BY <2>4, <2>5
<1>8. QED BY <1>5, <1>7

-----------------------------------------------------------------------------
(* Why a program is accepted, or refused *)

NamesInv == \A b \in DOMAIN blocks : Titled(b)

(* The blocks that may be open: the one inserted into, those of statements *)
(* around still to come to, those gone back to behind nested bodies, those *)
(* of labels ahead, and those where a function ends without a return.      *)
Expected(b) ==
  \/ b = insert
  \/ \E i \in 1..Depth : b \in Ahead(Owner(i), PartOf(i))
  \/ \E i \in 2..Depth : prog[Owner(i)].kind = "subp" /\ b = frames[i].block
  \/ b[2] = "label" /\ Announced(b[1], pos)
  \/ DeadEnd(b, blocks[b].code)
ShutInv == \A b \in DOMAIN blocks : Terminated(blocks, b) \/ Expected(b)

(* What lowering takes to be reachable is, from the entries and the labels.*)
Roots ==
  {Lands(First(q, 1)) : q \in {s \in Subps(prog) : Entry(s) \in DOMAIN blocks}}
    \union {Lands(l) : l \in Labels(prog)}
Sought(b) == b[2] \in {"entry", "label"} \/ b \in Branched(blocks)
LiveInv ==
  \A Z : Closed(Z) /\ Roots \subseteq Z => \A b \in DOMAIN blocks : Sought(b) => Starts(b) \in Z

VerdictInv == PassInv /\ NamesInv /\ PassedInv /\ ShutInv /\ LiveInv

(* Sequences have no gaps: where one has ended no label follows.           *)
LEMMA NoneBehind ==
  ASSUME DescentInv, pos \notin DOMAIN prog, NEW l \in Labels(prog), Len(l) = Len(pos)
  PROVE  ~Announced(l, pos)
<1> SUFFICES ASSUME Announced(l, pos) PROVE FALSE
  OBVIOUS
<1>1. prog \in Programs /\ IsPath(pos) /\ l \in DOMAIN prog /\ prog[l].kind = "label"
  BY PositionFacts DEF DescentInv, Labels
<1>2. IsPath(l) /\ l # Top BY <1>1, ProgramFacts
<1>3. PICK n \in Nat : n = Len(pos) /\ n = Len(l) /\ n > 1
  BY <1>1, <1>2, PathFacts, ProgramFacts
<1>4. pos \in Seq(Nat) /\ l \in Seq(Nat) /\ pos[n] \in Nat \ {0} /\ l[n] \in Nat \ {0}
  BY <1>1, <1>2, <1>3, PathFacts
<1>5. PICK x \in Nat \ {0}, y \in Nat \ {0} : x = pos[n] /\ y = l[n] BY <1>4
<1>6. x <= y /\ \A j \in 1..(n - 1) : pos[j] = l[j]
  BY <1>3, <1>5 DEF Announced, Beside
<1> DEFINE At(k) == [pos EXCEPT ![n] = k]
<1>7. At(y) = l /\ At(x) = pos
  <2>1. DOMAIN pos = 1..n /\ DOMAIN l = 1..n /\ pos = [j \in 1..n |-> pos[j]] /\ l = [j \in 1..n |-> l[j]]
    BY <1>3, <1>4
  <2>2. \A j \in 1..n : l[j] = IF j = n THEN y ELSE pos[j] BY <1>3, <1>5, <1>6
  <2>3. QED BY <1>5, <2>1, <2>2
<1> DEFINE T == {k \in Nat : k >= x /\ At(k) \in DOMAIN prog}
<1>8. y \in T /\ T \in SUBSET Nat BY <1>1, <1>6, <1>7
<1>9. PICK z \in T : \A k \in T : z <= k
  <2> HIDE DEF T
  <2>1. QED BY <1>8, LeastNat
<1>10. z \in Nat /\ z > x /\ z - 1 >= x /\ z - 1 \in Nat /\ ~(z <= z - 1)
  <2>1. z \in Nat /\ z >= x /\ z # x BY <1>7, <1>9
  <2> HIDE DEF T, At
  <2>2. QED BY <1>5, <2>1
<1>11. At(z) # Top /\ At(z) \in DOMAIN prog /\ Len(At(z)) = n /\ At(z)[n] = z
  BY <1>3, <1>4, <1>9, TopFacts
<1>12. [At(z) EXCEPT ![n] = z - 1] \in DOMAIN prog
  <2>1. WellFormed(prog) BY <1>1, ProgramsWellFormed
  <2>2. PICK q : q = At(z)
    OBVIOUS
  <2>3. q \in DOMAIN prog \ {Top} /\ Len(q) = n /\ q[n] = z /\ z > 1
    BY <1>5, <1>10, <1>11, <2>2
  <2>4. [q EXCEPT ![Len(q)] = @ - 1] \in DOMAIN prog
    BY <2>1, <2>3 DEF WellFormed
  <2>5. QED BY <2>2, <2>3, <2>4
<1>13. [At(z) EXCEPT ![n] = z - 1] = At(z - 1) BY <1>3, <1>4
<1>14. QED BY <1>9, <1>10, <1>12, <1>13

(* The first position in a part, and one further in.                       *)
LEMMA LabelFirst ==
  ASSUME NEW r, IsPath(r), NEW p \in Nat \ {0}, NEW l, IsPath(l)
  PROVE  /\ Passed(l, First(r, p)) => Passed(l, r)
         /\ Announced(l, r) => Announced(l, First(r, p))
<1>1. PICK n \in Nat \ {0}, m \in Nat \ {0} : n = Len(r) /\ m = Len(l)
  BY PathFacts
<1>2. PICK t : t = First(r, p)
  OBVIOUS
<1>3. Len(t) = n + 2 /\ t[n + 2] = 1 /\ \A j \in 1..n : t[j] = r[j]
  BY <1>1, <1>2, FirstFacts
<1>4. l[m] \in Nat \ {0} /\ n % 2 = 1 /\ m % 2 = 1
  BY <1>1, PathFacts DEF IsPath
<1>5. CASE m <= n
  <2>1. t[m] = r[m] /\ \A j \in 1..(m - 1) : t[j] = r[j] BY <1>3, <1>5
  <2>2. QED BY <1>1, <1>2, <1>3, <1>5, <2>1 DEF Passed, Announced, Beside
<1>6. CASE m > n
  <2>1. m # n + 1 BY <1>4
  <2>2. ~(l[m] < t[m]) \/ m > n + 2 BY <1>3, <1>4, <1>6, <2>1
  <2>3. QED BY <1>1, <1>2, <1>3, <1>6, <2>2 DEF Passed, Announced, Beside
<1>7. QED BY <1>5, <1>6

LEMMA LabelOuter ==
  ASSUME NEW q, IsPath(q), Len(q) > 1, NEW l, IsPath(l)
  PROVE  /\ Passed(l, Outer(q)) => Passed(l, q)
         /\ Announced(l, q) => Len(l) = Len(q) \/ Announced(l, Outer(q))
<1>1. PICK n \in Nat \ {0}, m \in Nat \ {0} : n = Len(q) /\ m = Len(l)
  BY PathFacts
<1>2. PICK t : t = Outer(q)
  OBVIOUS
<1>3. Len(t) = n - 2 /\ \A j \in 1..(n - 2) : t[j] = q[j]
  BY <1>1, <1>2, OuterFacts
<1>4. n % 2 = 1 /\ m % 2 = 1 BY <1>1, PathFacts DEF IsPath
<1>5. CASE m <= n - 2
  <2>1. t[m] = q[m] /\ m <= n /\ \A j \in 1..(m - 1) : t[j] = q[j]
    BY <1>3, <1>5
  <2>2. QED BY <1>1, <1>2, <1>3, <1>5, <2>1 DEF Passed, Announced, Beside
<1>6. CASE m > n - 2
  <2>1. m # n - 1 BY <1>4
  <2>2. ~(m <= n - 2) /\ (m = n \/ ~(m <= n)) BY <1>6, <2>1
  <2>3. QED BY <1>1, <1>2, <1>3, <2>2 DEF Passed, Announced, Beside
<1>7. QED BY <1>5, <1>6

(* A label is passed only where it stands, and stays ahead till then.      *)
LEMMA LabelsOn ==
  ASSUME DescentInv, Turns, NEW l \in Labels(prog)
  PROVE  /\ Passed(l, pos') => Passed(l, pos) \/ l = pos
         /\ Announced(l, pos) /\ l # pos => Announced(l, pos')
<1>1. prog \in Programs /\ IsPath(pos) /\ l \in DOMAIN prog /\ prog[l].kind = "label"
  BY PositionFacts DEF DescentInv, Labels
<1>2. IsPath(l) BY <1>1, ProgramFacts
<1>3. PICK t : t = pos'
  OBVIOUS
<1>4. CASE pos \in DOMAIN prog
  <2>1. t = After(pos) \/ t = First(pos, 1) BY <1>3, <1>4 DEF Turns
  <2>2. QED BY <1>1, <1>2, <1>3, <2>1, LabelAfter, LabelFirst
<1>5. CASE pos \notin DOMAIN prog
  <2>1. PICK r, p : r = Outer(pos) /\ p = Part(pos)
    OBVIOUS
  <2>2. Depth > 0 /\ (t = After(r) \/ t = First(r, p + 1))
    BY <1>3, <1>5, <2>1 DEF Turns
  <2>3. /\ Depth \in 1..Depth /\ Len(pos) > 1 /\ r = Owner(Depth) /\ p = PartOf(Depth)
    BY <2>1, <2>2, PositionFacts
  <2>4. r \in DOMAIN prog /\ IsPath(r) /\ p \in 1..Parts(prog[r])
    BY <2>3, PositionFacts DEF DescentInv
  <2>5. l # r /\ p + 1 \in Nat \ {0}
    <3>1. Parts(prog[l]) = 0 BY <1>1 DEF Parts, LoopKinds
    <3>2. Parts(prog[r]) \in Nat BY <1>1, <2>4, ProgramFacts DEF Parts
    <3>3. p \in Nat /\ p >= 1 /\ Parts(prog[r]) >= 1 BY <2>4, <3>2
    <3>4. QED BY <3>1, <3>3
  <2>6. Passed(l, t) => Passed(l, r)
    BY <1>2, <2>2, <2>4, <2>5, LabelAfter, LabelFirst
  <2>7. Announced(l, r) => Announced(l, t)
    BY <1>2, <2>2, <2>4, <2>5, LabelAfter, LabelFirst
  <2>8. Announced(l, pos) => Len(l) # Len(pos) BY <1>5, NoneBehind
  <2>9. QED BY <1>1, <1>2, <1>3, <2>1, <2>3, <2>6, <2>7, <2>8, LabelOuter
<1>6. QED BY <1>4, <1>5

(* Steps among which one leads to the next: with what is due first, all    *)
(* that a block comes to are among them, and what it leads to.             *)
LEMMA Along ==
  ASSUME NEW Z, Closed(Z), NEW b, Starts(b) \in Z, NEW code \in Seq(Events), NEW d,
         Due(Starts(b), code, d)
  PROVE  d \in Z
<1>1. PICK due : Leads(Starts(b), code, due) /\ due[Len(code)] = d BY DEF Due
<1>2. PICK n \in Nat : n = Len(code)
  OBVIOUS
<1> DEFINE T == {i \in 0..n : due[i] \notin Z}
<1>3. CASE T = {} BY <1>1, <1>2, <1>3
<1>4. CASE T # {}
  <2>1. T \in SUBSET Nat
    OBVIOUS
  <2>2. PICK i \in T : \A j \in T : i <= j
    <3> HIDE DEF T
    <3>1. QED BY <1>4, <2>1, LeastNat
  <2>3. i \in 1..n /\ i - 1 \in 0..n /\ due[i - 1] \in Z /\ due[i] \notin Z
    <3>1. i # 0 BY <1>1 DEF Leads
    <3>2. i - 1 \in 0..n /\ ~(i <= i - 1) BY <1>2, <3>1
    <3>3. i - 1 \notin T BY <2>2, <3>2
    <3>4. QED BY <3>1, <3>2, <3>3
  <2>4. CASE code[i] = Silent BY <1>1, <1>2, <2>3, <2>4 DEF Leads
  <2>5. CASE code[i] # Silent
    <3>1. PICK e : e = code[i]
      OBVIOUS
    <3>2. e = due[i - 1] /\ Plain(e) /\ due[i] = Follows(e, TRUE)
      BY <1>1, <1>2, <2>3, <2>5, <3>1 DEF Leads
    <3>3. Follows(e, TRUE) \in Ada!NextSteps(e)
      BY <3>2, AdaLaw DEF Plain, Allowed, Follows, Ada!NextSteps
    <3>4. QED BY <2>3, <3>2, <3>3 DEF Closed
  <2>6. QED BY <2>4, <2>5
<1>5. QED BY <1>3, <1>4

LEMMA AlongEnd ==
  ASSUME NEW Z, Closed(Z), NEW d \in Z, NEW end \in Ends, EndFlows(end, d)
  PROVE  \A c \in Range(end.to) : Starts(c) \in Z
<1>1. Allowed(d) /\ ~Ada!IsFinal(d) =>
        \A o \in IF Ada!IsTest(d) THEN BOOLEAN ELSE {TRUE} : Follows(d, o) \in Z
  <2> SUFFICES ASSUME Allowed(d), ~Ada!IsFinal(d),
                      NEW o \in IF Ada!IsTest(d) THEN BOOLEAN ELSE {TRUE}
               PROVE  Follows(d, o) \in Z
    OBVIOUS
  <2>1. Follows(d, o) \in Ada!NextSteps(d)
    BY AdaLaw DEF Allowed, Follows, Ada!NextSteps
  <2>2. QED BY <2>1 DEF Closed
<1>2. Len(end.to) = Ways(end.op) /\ Range(end.to) = {end.to[i] : i \in 1..Len(end.to)}
      /\ end.op \in {"none", "br", "cond_br", "return"}
  BY DEF Ends, Range
<1>3. CASE end.op = "br"
  <2>1. Range(end.to) = {end.to[1]} BY <1>2, <1>3 DEF Ways
  <2>2. Starts(end.to[1]) \in Z BY <1>1, <1>3 DEF EndFlows, Plain
  <2>3. QED BY <2>1, <2>2
<1>4. CASE end.op = "cond_br"
  <2>1. Range(end.to) = {end.to[1], end.to[2]} BY <1>2, <1>4 DEF Ways
  <2>2. Starts(end.to[1]) \in Z /\ Starts(end.to[2]) \in Z
    BY <1>1, <1>4 DEF EndFlows
  <2>3. QED BY <2>1, <2>2
<1>5. CASE end.op \in {"none", "return"} BY <1>2, <1>5 DEF Ways
<1>6. QED BY <1>2, <1>3, <1>4, <1>5

(* Emission goes on only where lowering has come to.                       *)
LEMMA InsertSought ==
  ASSUME IInv, Depth > 0
  PROVE  insert \in DOMAIN blocks /\ Sought(insert)
<1>1. DescentInv /\ Depth \in Nat /\ insert \in DOMAIN blocks /\ Inserted(insert, pos)
  BY PositionFacts DEF IInv, InsertInv
<1>2. ASSUME NEW i \in 1..Depth PROVE insert \notin Droppable(Owner(i))
  <2> SUFFICES ASSUME insert \in Droppable(Owner(i)) PROVE FALSE
    OBVIOUS
  <2>1. insert \in Ahead(Owner(i), PartOf(i)) /\ Depth \in 1..Depth
    BY <1>1 DEF Ahead, Closing
  <2>2. QED BY <1>1, <2>1, AheadApart
<1>3. QED BY <1>1, <1>2 DEF IInv, OrphanInv, Sought

-----------------------------------------------------------------------------
LEMMA RulesKept ==
  ASSUME prog' = prog
  PROVE  /\ \A Z : Closed(Z)' <=> Closed(Z)
         /\ \A b : Titled(b)' <=> Titled(b)
         /\ \A b, code : DeadEnd(b, code)' <=> DeadEnd(b, code)
         /\ Labels(prog)' = Labels(prog) /\ Subps(prog)' = Subps(prog)
<1>1. \A e, o : Ada!Successor(e, o)' = Ada!Successor(e, o)
  BY FollowsKept DEF Follows
<1>2. \A Z : Closed(Z)' <=> Closed(Z)
  BY <1>1, FollowsKept DEF Closed, Ada!NextSteps
<1>3. Labels(prog)' = Labels(prog) /\ Subps(prog)' = Subps(prog)
  BY DEF Labels, Subps
<1>4. \A b : Titled(b)' <=> Titled(b) BY <1>3 DEF Titled, Entry, Block
<1>5. \A b, code : DeadEnd(b, code)' <=> DeadEnd(b, code)
  BY <1>3, FlowsKept DEF DeadEnd, Event, Ada!Event
<1>6. QED BY <1>2, <1>3, <1>4, <1>5

LEMMA PassCarried ==
  ASSUME IInv', PassInv, NEW n, NEW d, NEW S, NEW A, Carry(n, d, S, A)
  PROVE  PassInv'
<1>1. \A b \in DOMAIN blocks' :
        (b \in DOMAIN blocks /\ Kept(b)) \/ ~Terminated(blocks', b) \/ Shuts(b)
  BY DEF Carry, Steers, Awaits
<1>2. \A b \in DOMAIN blocks' : Quiet(blocks'[b]) =>
        \/ ~Quiet(blocks'[blocks'[b].end.to[1]])
        \/ b \in DOMAIN blocks /\ Quiet(blocks[b]) /\ blocks'[b].end = blocks[b].end
  <2> TAKE b \in DOMAIN blocks'
  <2> HAVE Quiet(blocks'[b])
  <2>1. Terminated(blocks', b) BY DEF Quiet, Terminated, Open
  <2>2. QED BY <1>1, <2>1 DEF Shuts, Kept, Same
<1>3. ASSUME NEW X, Circle(blocks', X) PROVE X = {}
  <2>1. \A b \in X : b \in DOMAIN blocks' /\ Quiet(blocks'[b]) /\ Quiet(blocks'[blocks'[b].end.to[1]])
    BY <1>3 DEF Circle
  <2>2. \A b \in X : b \in DOMAIN blocks /\ Quiet(blocks[b]) /\ blocks'[b].end = blocks[b].end
    BY <1>2, <2>1
  <2>3. Circle(blocks, X) BY <1>3, <2>2 DEF Circle
  <2>4. QED BY <2>3 DEF PassInv
<1>4. \A b \in DOMAIN blocks' : b[2] = "header" => blocks'[b].end.op = "cond_br"
  <2> TAKE b \in DOMAIN blocks'
  <2> HAVE b[2] = "header"
  <2>1. insert' # b
    <3>1. insert'[2] # "header" BY DEF IInv, InsertInv, Inserted, NoBlock
    <3>2. QED BY <3>1
  <2>2. b \notin A BY AheadFacts DEF Carry
  <2>3. ~Awaits(b, A) BY <2>1, <2>2 DEF Awaits
  <2>4. (b \in DOMAIN blocks /\ Kept(b)) \/ Shuts(b) BY <2>3 DEF Carry, Steers
  <2>5. QED BY <2>4 DEF PassInv, Kept, Same, Shuts
<1>5. \A X : Circle(blocks, X)' <=> Circle(blocks', X)
  BY DEF Circle, Quiet, Silent, Ada!Idle, Ada!Event
<1>6. QED BY <1>3, <1>4, <1>5 DEF PassInv

LEMMA NamesCarried ==
  ASSUME NamesInv, NEW n, NEW d, NEW S, NEW A, Carry(n, d, S, A)
  PROVE  NamesInv'
<1>1. prog' = prog /\ \A b \in DOMAIN blocks' \ DOMAIN blocks : Titled(b)
  BY DEF Carry, Moved, Steers
<1>2. QED BY <1>1, RulesKept DEF NamesInv

LEMMA PassedCarried ==
  ASSUME DescentInv, PassedInv, NEW n, NEW d, NEW S, NEW A, Carry(n, d, S, A)
  PROVE  PassedInv'
<1>1. prog' = prog /\ Turns /\ Steers(S, A) BY DEF Carry, Moved
<1>2. ASSUME NEW l \in Labels(prog), Passed(l, pos') PROVE Block(l, "label") \in DOMAIN blocks'
  <2>1. CASE l = pos BY <1>1, <2>1 DEF Steers
  <2>2. CASE l # pos
    <3>1. Block(l, "label") \in DOMAIN blocks
      BY <1>1, <1>2, <2>2, LabelsOn DEF PassedInv
    <3>2. Block(l, "label")[2] = "label" BY DEF Block
    <3>3. QED BY <1>1, <3>1, <3>2 DEF Steers
  <2>3. QED BY <2>1, <2>2
<1>3. \A l : Passed(l, pos)' <=> Passed(l, pos') BY DEF Passed, Beside
<1>4. QED BY <1>1, <1>2, <1>3, RulesKept DEF PassedInv, Block

(* What may be open after a step.                                          *)
LEMMA ExpectedNow ==
  ASSUME prog' = prog, NEW d, Depth' = d, NEW b
  PROVE  /\ b = insert' => Expected(b)'
         /\ \A i \in 1..d : b \in Ahead(Owner(i)', PartOf(i)') => Expected(b)'
         /\ \A i \in 2..d : prog[Owner(i)'].kind = "subp" /\ b = frames'[i].block => Expected(b)'
         /\ b[2] = "label" /\ Announced(b[1], pos') => Expected(b)'
         /\ DeadEnd(b, blocks'[b].code) => Expected(b)'
<1>1. \A q, i : Ahead(q, i)' = Ahead(q, i)
  BY DEF Ahead, Closing, Droppable, FalseBlock, Merge, StepBlock, Block
<1>2. \A l : Announced(l, pos)' <=> Announced(l, pos') BY DEF Announced, Beside
<1>3. DeadEnd(b, blocks[b].code)' <=> DeadEnd(b, blocks'[b].code) BY RulesKept
<1>4. b = insert' => Expected(b)' BY DEF Expected
<1>5. \A i \in 1..d : b \in Ahead(Owner(i)', PartOf(i)') => Expected(b)'
  BY <1>1 DEF Expected
<1>6. \A i \in 2..d : prog[Owner(i)'].kind = "subp" /\ b = frames'[i].block => Expected(b)'
  BY DEF Expected
<1>7. b[2] = "label" /\ Announced(b[1], pos') => Expected(b)'
  BY <1>2 DEF Expected
<1>8. DeadEnd(b, blocks'[b].code) => Expected(b)' BY <1>3 DEF Expected
<1>9. QED BY <1>4, <1>5, <1>6, <1>7, <1>8

LEMMA ShutCarried ==
  ASSUME DescentInv, NamesInv, ShutInv, NEW n, NEW d, NEW S, NEW A, Carry(n, d, S, A)
  PROVE  ShutInv'
<1>1. /\ prog' = prog /\ Turns /\ Steers(S, A) /\ Depth' = d /\ Depth \in Nat
      /\ n \in Nat /\ d \in Nat /\ n <= d /\ n <= Depth
      /\ \A i \in 1..n : Owner(i)' = Owner(i) /\ PartOf(i)' = PartOf(i) /\ frames'[i] = frames[i]
  BY PositionFacts DEF Carry, Moved
<1>2. ASSUME NEW b \in DOMAIN blocks', ~Terminated(blocks', b)
      PROVE  Expected(b)'
  <2>1. CASE Awaits(b, A)
    <3>1. b \in A => d \in 1..d /\ A = Ahead(Owner(d)', PartOf(d)')
      BY <1>1 DEF Carry
    <3>2. CASE b \in A BY <1>1, <3>1, <3>2, ExpectedNow
    <3>3. CASE b \notin A
      <4>1. b = insert' \/ (b[2] = "label" /\ Announced(b[1], pos'))
        BY <2>1, <3>3 DEF Awaits
      <4>2. (b = insert' => Expected(b)') /\ (b[2] = "label" /\ Announced(b[1], pos') => Expected(b)')
        BY <1>1, ExpectedNow
      <4>3. QED BY <4>1, <4>2
    <3>4. QED BY <3>2, <3>3
  <2>2. CASE b = insert BY <1>1, <1>2, <2>2, ExpectedNow DEF Steers, Rests
  <2>3. CASE b # insert /\ ~Awaits(b, A)
    <3>1. b \in DOMAIN blocks /\ b \notin S /\ blocks'[b] = blocks[b]
      BY <1>1, <1>2, <2>3 DEF Steers, Shuts, Kept, Same
    <3>2. Expected(b) BY <1>2, <3>1 DEF ShutInv, Terminated
    <3>3. \A i \in 1..Depth : i \in 1..n \/ (i = Depth /\ n # Depth)
      BY <1>1 DEF Carry
    <3>4. CASE \E i \in 1..Depth : b \in Ahead(Owner(i), PartOf(i))
      <4>1. PICK i \in 1..Depth : b \in Ahead(Owner(i), PartOf(i)) BY <3>4
      <4>2. i \in 1..n BY <3>1, <3>3, <4>1 DEF Carry
      <4>3. i \in 1..d BY <1>1, <4>2
      <4>4. QED BY <1>1, <4>1, <4>2, <4>3, ExpectedNow
    <3>5. CASE \E i \in 2..Depth : prog[Owner(i)].kind = "subp" /\ b = frames[i].block
      <4>1. PICK i \in 2..Depth : prog[Owner(i)].kind = "subp" /\ b = frames[i].block
        BY <3>5
      <4>2. CASE i \in 1..n
        <5>1. i \in 2..d BY <1>1, <4>2
        <5>2. QED BY <1>1, <4>1, <4>2, <5>1, ExpectedNow
      <4>3. CASE i \notin 1..n
        <5>1. i = Depth /\ n # Depth BY <3>3, <4>3
        <5>2. b = insert' BY <4>1, <5>1 DEF Carry
        <5>3. QED BY <1>1, <5>2, ExpectedNow
      <4>4. QED BY <4>2, <4>3
    <3>6. CASE b[2] = "label" /\ Announced(b[1], pos)
      <4>1. PICK l \in Labels(prog) : b = Block(l, "label")
        BY <3>1, <3>6 DEF NamesInv, Titled
      <4>2. b[1] = l BY <4>1 DEF Block
      <4>3. CASE l = pos
        <5>1. b = insert' BY <1>1, <4>1, <4>3 DEF Steers
        <5>2. QED BY <1>1, <5>1, ExpectedNow
      <4>4. CASE l # pos
        <5>1. Announced(b[1], pos') BY <1>1, <3>6, <4>2, <4>4, LabelsOn
        <5>2. QED BY <1>1, <3>6, <5>1, ExpectedNow
      <4>5. QED BY <4>3, <4>4
    <3>7. CASE DeadEnd(b, blocks[b].code) BY <1>1, <3>1, <3>7, ExpectedNow
    <3>8. QED BY <2>3, <3>2, <3>4, <3>5, <3>6, <3>7 DEF Expected
  <2>4. QED BY <2>1, <2>2, <2>3
<1>3. \A b : Terminated(blocks, b)' <=> Terminated(blocks', b)
  BY DEF Terminated, Open, Silent, Ada!Idle, Ada!Event
<1>4. QED BY <1>2, <1>3 DEF ShutInv

LEMMA LiveCarried ==
  ASSUME IInv, IInv', FlowInv', LiveInv, NamesInv', NEW n, NEW d, NEW S, NEW A, Carry(n, d, S, A)
  PROVE  LiveInv'
<1>1. prog' = prog /\ prog \in Programs /\ Steers(S, A) /\ Sound(blocks) /\ DescentInv
  BY DEF Carry, Moved, IInv, DescentInv, BlocksInv
<1>2. /\ \A b : Starts(b)' = Starts(b)
      /\ \A b : Flows(b, blocks[b])' <=> Flows(b, blocks'[b])
      /\ Branched(blocks)' = Branched(blocks')
      /\ \A q : Lands(q)' = Lands(q)
      /\ \A B : Sound(B)' <=> Sound(B)
  BY <1>1, FlowsKept, FlowsPrimed, FollowsKept, EndsKept DEF Branched, Sound, Nodes, Names, Events,
     Silent, Ada!Idle, Ada!Event
<1> SUFFICES ASSUME NEW Z, Closed(Z), Roots' \subseteq Z, NEW b \in DOMAIN blocks', Sought(b)'
             PROVE  Starts(b) \in Z
  BY <1>1, <1>2, RulesKept DEF LiveInv
<1>3. ASSUME NEW q \in Subps(prog), Entry(q) \in DOMAIN blocks' PROVE Lands(First(q, 1)) \in Z
  BY <1>1, <1>2, <1>3, RulesKept DEF Roots, Entry, Block, First
<1>4. ASSUME NEW l \in Labels(prog) PROVE Lands(l) \in Z
  BY <1>1, <1>2, RulesKept DEF Roots
<1>5. Roots \subseteq Z
  <2>1. \A q : Entry(q)[2] = "entry" BY DEF Entry, Block
  <2>2. QED BY <1>1, <1>3, <1>4, <2>1 DEF Roots, Steers
<1>6. \A c \in DOMAIN blocks : Sought(c) => Starts(c) \in Z BY <1>5 DEF LiveInv
<1>7. CASE b[2] = "entry"
  <2>1. PICK q \in Subps(prog) : b = Entry(q)
    BY <1>1, <1>7, RulesKept DEF NamesInv, Titled
  <2>2. Starts(b) = Lands(First(q, 1)) BY <2>1 DEF Starts, Entry, Block
  <2>3. QED BY <1>3, <2>1, <2>2
<1>8. CASE b[2] = "label"
  <2>1. PICK l \in Labels(prog) : b = Block(l, "label")
    BY <1>1, <1>8, RulesKept DEF NamesInv, Titled
  <2>2. Starts(b) = Lands(l) BY <1>1, <2>1, LabelStarts DEF Labels
  <2>3. QED BY <1>4, <2>2
<1>9. ASSUME NEW c \in DOMAIN blocks', Starts(c) \in Z
      PROVE  \A t \in Range(blocks'[c].end.to) : Starts(t) \in Z
  <2>1. Sound(blocks') /\ Flows(c, blocks'[c])
    BY <1>2 DEF IInv, BlocksInv, FlowInv, CodeInv
  <2>2. blocks'[c].code \in Seq(Events) /\ blocks'[c].end \in Ends
    BY <2>1, NodeFacts
  <2>3. PICK x : Due(Starts(c), blocks'[c].code, x) /\ EndFlows(blocks'[c].end, x)
    BY <2>1 DEF Flows
  <2>4. x \in Z BY <1>9, <2>2, <2>3, Along
  <2>5. QED BY <2>2, <2>3, <2>4, AlongEnd
<1>10. insert \in DOMAIN blocks' => Starts(insert) \in Z
  <2>1. CASE Depth > 0 BY <1>6, <2>1, InsertSought
  <2>2. CASE ~(Depth > 0)
    <3>1. insert = NoBlock BY <1>1, <2>2, PositionFacts DEF IInv, InsertInv
    <3>2. NoBlock \notin Names BY DEF NoBlock, Names, Roles
    <3>3. DOMAIN blocks' \subseteq Names
      BY <1>2 DEF IInv, BlocksInv, Sound, Names
    <3>4. QED BY <3>1, <3>2, <3>3
  <2>3. QED BY <2>1, <2>2
<1>11. CASE b \in Branched(blocks')
  <2>1. PICK c \in DOMAIN blocks' : b \in Range(blocks'[c].end.to)
    BY <1>11 DEF Branched
  <2>2. \A t \in Branched(blocks) : t \in DOMAIN blocks /\ Starts(t) \in Z
    BY <1>1, <1>6 DEF Sound, Sought
  <2>3. CASE c \in DOMAIN blocks /\ Kept(c)
    <3>1. blocks'[c].end = blocks[c].end BY <2>3 DEF Kept, Same
    <3>2. b \in Branched(blocks) BY <2>1, <2>3, <3>1 DEF Branched
    <3>3. QED BY <2>2, <3>2
  <2>4. CASE Awaits(c, A) BY <2>1, <2>4 DEF Awaits, Terminated, Open, Range
  <2>5. CASE Shuts(c)
    <3>1. Starts(c) \in Z BY <1>9, <1>10, <2>2, <2>5 DEF Shuts
    <3>2. QED BY <1>9, <2>1, <3>1
  <2>6. QED BY <1>1, <2>3, <2>4, <2>5 DEF Steers
<1>12. QED BY <1>2, <1>7, <1>8, <1>11 DEF Sought

(* At first nothing is emitted and no label passed.                        *)
LEMMA InitVerdict == Init => VerdictInv
<1> SUFFICES ASSUME Init PROVE VerdictInv
  OBVIOUS
<1>1. DOMAIN blocks = {} /\ pos = Top /\ prog \in Programs BY DEF Init
<1>2. PassedInv
  <2> SUFFICES ASSUME NEW l \in Labels(prog), Passed(l, pos) PROVE FALSE
    BY DEF PassedInv
  <2>1. l \in DOMAIN prog BY DEF Labels
  <2>2. IsPath(l) BY <1>1, <2>1, ProgramFacts
  <2>3. PICK m \in Nat \ {0} : m = Len(l) /\ l[m] \in Nat \ {0}
    BY <2>2, PathFacts
  <2>4. Len(pos) = 1 /\ pos[1] = 1 BY <1>1 DEF Top
  <2>5. QED BY <2>3, <2>4 DEF Passed, Beside
<1>3. QED
  BY <1>1, <1>2 DEF VerdictInv, PassInv, Circle, NamesInv, ShutInv, LiveInv

LEMMA VerdictUnchanged ==
  ASSUME VerdictInv, UNCHANGED <<prog, genVars>>
  PROVE  VerdictInv'
<1>1. /\ prog' = prog /\ blocks' = blocks /\ pos' = pos /\ insert' = insert
      /\ frames' = frames
  BY DEF genVars
<1>2. PassInv' /\ NamesInv' /\ PassedInv'
  BY <1>1, RulesKept DEF VerdictInv, PassInv, Circle, Quiet, NamesInv, PassedInv, Passed, Beside,
     Block, Silent, Ada!Idle, Ada!Event
<1>3. \A b : Expected(b) => Expected(b)'
  <2> SUFFICES ASSUME NEW b, Expected(b) PROVE Expected(b)'
    OBVIOUS
  <2>1. /\ Depth' = Depth
        /\ \A i : Owner(i)' = Owner(i) /\ PartOf(i)' = PartOf(i) /\ frames'[i] = frames[i]
        /\ \A q, i : Ahead(q, i)' = Ahead(q, i)
    BY <1>1 DEF Depth, Owner, PartOf, Ahead, Closing, Droppable, FalseBlock, Merge, StepBlock, Block
  <2>2. Announced(b[1], pos)' <=> Announced(b[1], pos)
    BY <1>1 DEF Announced, Beside
  <2>3. DeadEnd(b, blocks[b].code)' <=> DeadEnd(b, blocks[b].code)
    BY <1>1, RulesKept
  <2>4. QED BY <1>1, <2>1, <2>2, <2>3 DEF Expected
<1>4. ShutInv'
  BY <1>1, <1>3 DEF VerdictInv, ShutInv, Terminated, Open, Silent, Ada!Idle, Ada!Event
<1>5. LiveInv'
  <2>1. Roots' = Roots
    BY <1>1, FollowsKept, RulesKept DEF Roots, Entry, Block, First
  <2>2. \A b : (Sought(b)' <=> Sought(b)) /\ Starts(b)' = Starts(b)
    BY <1>1, FlowsKept DEF Sought, Branched
  <2>3. QED BY <1>1, <2>1, <2>2, RulesKept DEF VerdictInv, LiveInv
<1>6. QED BY <1>2, <1>4, <1>5 DEF VerdictInv

LEMMA NextVerdict == IInv /\ IInv' /\ FlowInv /\ VerdictInv /\ [Next]_vars => VerdictInv'
<1> SUFFICES ASSUME IInv, IInv', FlowInv, VerdictInv, [Next]_vars PROVE VerdictInv'
  OBVIOUS
<1>1. FlowInv' /\ (Steered \/ UNCHANGED <<prog, genVars>>)
  BY NextFlows DEF VerdictInv
<1>2. CASE Steered
  <2>1. PICK n, d, S, A : Carry(n, d, S, A) BY <1>2 DEF Steered
  <2>2. PassInv' /\ NamesInv' /\ PassedInv'
    BY <2>1, PassCarried, NamesCarried, PassedCarried DEF VerdictInv, IInv
  <2>3. ShutInv' /\ LiveInv'
    BY <1>1, <2>1, <2>2, ShutCarried, LiveCarried DEF VerdictInv, IInv
  <2>4. QED BY <2>2, <2>3 DEF VerdictInv
<1>3. CASE UNCHANGED <<prog, genVars>> BY <1>3, VerdictUnchanged
<1>4. QED BY <1>1, <1>2, <1>3

LEMMA VerdictInvariance == Spec => []VerdictInv
<1>1. Spec => []IInv /\ []FlowInv BY Invariance, FlowInvariance, PTL
<1>2. QED BY <1>1, InitVerdict, NextVerdict, PTL DEF Spec

-----------------------------------------------------------------------------
(* The verdict *)

Forbidden(e) == Illegal(prog, e.stmt) \/ Ada!MissingReturn(e)

(* Wherever control may go from the entries and labels, it comes to a step *)
(* that Ada forbids.                                                       *)
Blamed == \A Z : Closed(Z) /\ Roots \subseteq Z => \E e \in Z : Forbidden(e)

LEMMA RefuseBlamed ==
  ASSUME IInv, FlowInv, LiveInv, Refuse
  PROVE  Blamed
<1>1. /\ pos \in DOMAIN prog /\ pos # Top /\ ~Terminated(blocks, insert)
      /\ \/ prog[pos].kind = "goto" /\ Crosses(pos)
         \/ prog[pos].kind = "exit" /\ Targets = {}
  <2>1. CASE Visiting("goto") /\ Crosses(pos) BY <2>1, VisitingFacts
  <2>2. CASE Visiting("exit") /\ Targets = {} BY <2>2, VisitingFacts
  <2>3. QED BY <2>1, <2>2 DEF Refuse
<1>2. PICK e \in Events : e = Event(pos, 1) BY <1>1, EventFacts
<1>3. Due(Starts(insert), blocks[insert].code, e) /\ Sound(blocks)
  BY <1>1, <1>2, DueHere
<1>4. DescentInv /\ LoopsInv /\ Depth > 0 BY <1>1, HereFacts DEF IInv
<1>5. Illegal(prog, pos) BY <1>1, <1>4, ExitMeets DEF Illegal, Crosses
<1>6. insert \in DOMAIN blocks /\ Sought(insert) BY <1>4, InsertSought
<1>7. blocks[insert].code \in Seq(Events) BY <1>3, <1>6, NodeFacts
<1>8. e.stmt = pos BY <1>2 DEF Event, Ada!Event
<1> SUFFICES ASSUME NEW Z, Closed(Z), Roots \subseteq Z PROVE \E x \in Z : Forbidden(x)
  BY DEF Blamed
<1>9. Starts(insert) \in Z BY <1>6 DEF LiveInv
<1>10. e \in Z BY <1>3, <1>7, <1>9, Along
<1>11. QED BY <1>5, <1>8, <1>10 DEF Forbidden

(* At the end only a function that may end without a return leaves a block *)
(* open.                                                                   *)
LEMMA VerifyBlamed ==
  ASSUME IInv, FlowInv, VerdictInv, pos = After(Top), NEW b \in DOMAIN blocks,
         ~Terminated(blocks, b)
  PROVE  Blamed
<1>1. DescentInv /\ Depth = 0 /\ prog \in Programs /\ Sound(blocks)
  BY PositionFacts DEF IInv, DescentInv, BlocksInv
<1>2. b # insert
  <2>1. insert = NoBlock BY <1>1 DEF IInv, InsertInv
  <2>2. NoBlock \notin Names BY DEF NoBlock, Names, Roles
  <2>3. QED BY <1>1, <2>1, <2>2, NodeFacts
<1>3. ASSUME b[2] = "label" PROVE ~Announced(b[1], pos)
  <2>1. PICK l \in Labels(prog) : b[1] = l
    BY <1>3 DEF VerdictInv, NamesInv, Titled, Block
  <2>2. IsPath(l) /\ pos \notin DOMAIN prog /\ Len(pos) = 1
    BY <1>1, <2>1, ProgramFacts, TopFacts DEF Labels
  <2>3. PICK m \in Nat : m = Len(l) /\ m >= 1 BY <2>2, PathFacts
  <2>4. CASE m = 1 BY <1>1, <2>1, <2>2, <2>3, <2>4, NoneBehind
  <2>5. CASE m > 1 BY <2>1, <2>2, <2>3, <2>5 DEF Announced, Beside
  <2>6. QED BY <2>3, <2>4, <2>5
<1>4. DeadEnd(b, blocks[b].code)
  <2>1. 1..Depth = {} /\ 2..Depth = {} BY <1>1
  <2>2. Expected(b) BY DEF VerdictInv, ShutInv
  <2>3. QED BY <1>2, <1>3, <2>1, <2>2 DEF Expected
<1>5. PICK q \in Subps(prog) :
        prog[q].isFunction /\ Due(Starts(b), blocks[b].code, Event(q, 1))
  BY <1>4 DEF DeadEnd
<1>6. PICK e : e = Event(q, 1)
  OBVIOUS
<1>7. e.stmt = q BY <1>6 DEF Event, Ada!Event
<1>8. Forbidden(e) BY <1>5, <1>7 DEF Forbidden, Ada!MissingReturn, Subps
<1>9. Sought(b) /\ blocks[b].code \in Seq(Events)
  <2>1. 1..Depth = {} BY <1>1
  <2>2. QED BY <1>1, <2>1, NodeFacts DEF IInv, OrphanInv, Sought
<1> SUFFICES ASSUME NEW Z, Closed(Z), Roots \subseteq Z PROVE \E x \in Z : Forbidden(x)
  BY DEF Blamed
<1>10. Starts(b) \in Z BY <1>9 DEF VerdictInv, LiveInv
<1>11. e \in Z BY <1>5, <1>6, <1>9, <1>10, Along
<1>12. QED BY <1>8, <1>11

OutcomeInv ==
  /\ pc = "failed" => Blamed
  /\ pc = "verified" => \A b \in DOMAIN blocks : Terminated(blocks, b)

(* Emission ends in two ways.                                              *)
LEMMA Outcomes ==
  ASSUME [Next]_vars, pc' \in {"failed", "verified"}
  PROVE  Refuse \/ Verify \/ UNCHANGED vars
<1> SUFFICES ASSUME Next PROVE Refuse \/ Verify
  OBVIOUS
<1>1. Control => pc' = pc BY DEF Control, Outside
<1>2. Outside => pc' = pc BY DEF Outside
<1>3. CASE Emit
  BY <1>1, <1>2, <1>3 DEF Emit, SkipUnreachable, EmitAct, EmitReturn, EmitGoto, EmitLabel, EmitExit,
     EnterIf, LeaveIfPart, EnterLoop, LeaveLoop, EnterFor, LeaveFor, EnterBlock, LeaveBlock,
     EnterSubp, LeaveSubp, DescribeLabels, Visiting, AtEndOf
<1>4. CASE Run
  BY <1>4 DEF Run, Begin, Execute, Branch, CondBranch, ReturnOp, AtEnd
<1>5. QED BY <1>3, <1>4 DEF Next

LEMMA NextOutcome == IInv /\ FlowInv /\ VerdictInv /\ OutcomeInv /\ [Next]_vars => OutcomeInv'
<1> SUFFICES ASSUME IInv, FlowInv, VerdictInv, OutcomeInv, [Next]_vars,
                    pc' \in {"failed", "verified"}
             PROVE  OutcomeInv'
  BY DEF OutcomeInv
<1>1. prog' = prog /\ blocks' = blocks
  BY Outcomes DEF Refuse, Verify, vars, genVars
<1>2. Blamed' <=> Blamed
  <2>1. Roots' = Roots
    BY <1>1, FollowsKept, RulesKept DEF Roots, Entry, Block, First
  <2>2. \A e : Forbidden(e)' <=> Forbidden(e)
    BY <1>1 DEF Forbidden, Ada!MissingReturn
  <2>3. QED BY <1>1, <2>1, <2>2, RulesKept DEF Blamed
<1>3. \A b : Terminated(blocks, b)' <=> Terminated(blocks, b)
  BY <1>1 DEF Terminated, Open, Silent, Ada!Idle, Ada!Event
<1>4. CASE Refuse
  <2>1. Blamed /\ pc' = "failed" BY <1>4, RefuseBlamed DEF VerdictInv, Refuse
  <2>2. QED BY <1>2, <2>1 DEF OutcomeInv
<1>5. CASE Verify
  <2>1. pos = After(Top)
        /\ pc' = IF \A b \in DOMAIN blocks : Terminated(blocks, b) THEN "verified" ELSE "failed"
    BY <1>5 DEF Verify
  <2>2. QED BY <1>1, <1>2, <1>3, <2>1, VerifyBlamed DEF OutcomeInv
<1>6. CASE UNCHANGED vars BY <1>1, <1>2, <1>3, <1>6 DEF OutcomeInv, vars
<1>7. QED BY <1>4, <1>5, <1>6, Outcomes

(* The steps emitted; a block that has its end, as one of those that emit  *)
(* them, with d due when control comes to its end.                         *)
Taken ==
  {e \in Events : e # Silent /\ \E b \in DOMAIN blocks :
     e = blocks[b].end.event \/ \E i \in 1..Len(blocks[b].code) : e = blocks[b].code[i]}

Tells(b, node, d) ==
  /\ Due(Starts(b), node.code, d) /\ EndFlows(node.end, d)
  /\ node.code \in Seq(Events) /\ node.end \in Ends /\ node.end.op # "none"
  /\ \A i \in 1..Len(node.code) : node.code[i] \in Taken \union {Silent}
  /\ node.end.event \in Taken \union {Silent}
  /\ \A i \in 1..Ways(node.end.op) : node.end.to[i] \in DOMAIN blocks

LEMMA BlockTells ==
  ASSUME Sound(blocks), CodeInv, NEW b \in DOMAIN blocks, Terminated(blocks, b)
  PROVE  \E d : Tells(b, blocks[b], d)
<1>1. PICK node \in Nodes : node = blocks[b] BY NodeFacts
<1>2. PICK d : Due(Starts(b), node.code, d) /\ EndFlows(node.end, d)
  BY <1>1 DEF CodeInv, Flows
<1>3. node.code \in Seq(Events) /\ node.end \in Ends BY DEF Nodes
<1>4. node.end.op # "none" BY <1>1, <1>3 DEF Ends, Terminated
<1>5. \A i \in 1..Len(node.code) : node.code[i] \in Taken \union {Silent}
  <2>1. \A i \in 1..Len(node.code) : node.code[i] \in Events BY <1>3
  <2>2. QED BY <1>1, <2>1 DEF Taken
<1>6. node.end.event \in Taken \union {Silent} BY <1>1, <1>3 DEF Taken, Ends
<1>7. \A i \in 1..Ways(node.end.op) : node.end.to[i] \in DOMAIN blocks
  <2>1. node.end.to \in Seq(Names) /\ Len(node.end.to) = Ways(node.end.op)
    BY <1>3 DEF Ends
  <2>2. Range(node.end.to) \subseteq DOMAIN blocks BY <1>1, NodeFacts DEF Sound
  <2>3. \A i \in 1..Len(node.end.to) : node.end.to[i] \in Range(node.end.to)
    BY <2>1 DEF Range
  <2>4. QED BY <2>1, <2>2, <2>3
<1>8. QED BY <1>1, <1>2, <1>3, <1>4, <1>5, <1>6, <1>7 DEF Tells

(* Operations of a set: with what is due after them, or not with what is   *)
(* due first, all that is due on the way is in it, or nothing is.          *)
LEMMA Ladder ==
  ASSUME NEW Z, NEW s, NEW code \in Seq(Events), NEW due, Leads(s, code, due),
         \A i \in 1..Len(code) : code[i] \in Z \union {Silent}
  PROVE  /\ s \notin Z => due[Len(code)] \notin Z /\ \A i \in 1..Len(code) : code[i] = Silent
         /\ due[Len(code)] \in Z => \A i \in 0..Len(code) : due[i] \in Z
<1>1. PICK n \in Nat : n = Len(code)
  OBVIOUS
<1>2. due[0] = s /\ \A i \in 1..n : IF code[i] = Silent THEN due[i] = due[i - 1]
                                    ELSE code[i] = due[i - 1] /\ due[i - 1] \in Z
  BY <1>1 DEF Leads
<1>3. ASSUME s \notin Z PROVE \A i \in 0..n : due[i] \notin Z
  <2> DEFINE T == {i \in 0..n : due[i] \in Z}
  <2> SUFFICES ASSUME T # {} PROVE FALSE
    OBVIOUS
  <2>0. T \in SUBSET Nat
    OBVIOUS
  <2>1. PICK m \in T : \A i \in T : m <= i BY <2>0, LeastNat
  <2>2. m \in 0..n /\ due[m] \in Z /\ m # 0 BY <1>2, <1>3
  <2>3. m \in 1..n /\ m - 1 \in 0..n /\ ~(m <= m - 1) BY <2>2
  <2>4. due[m - 1] \notin Z BY <2>1, <2>3
  <2>5. QED BY <1>2, <2>2, <2>3, <2>4
<1>4. ASSUME due[n] \in Z PROVE \A i \in 0..n : due[i] \in Z
  <2> DEFINE T == {i \in 0..n : due[i] \notin Z}
  <2> SUFFICES ASSUME T # {} PROVE FALSE
    OBVIOUS
  <2>1. PICK m \in T : \A i \in T : i <= m BY Greatest
  <2>2. m + 1 \in 1..n /\ m + 1 \in 0..n /\ m + 1 \notin T /\ (m + 1) - 1 = m
    BY <1>4, <2>1
  <2>3. QED BY <1>2, <2>1, <2>2
<1>5. ASSUME s \notin Z, NEW i \in 1..n PROVE code[i] = Silent
  <2>1. i - 1 \in 0..n BY <1>1
  <2>2. QED BY <1>2, <1>3, <1>5, <2>1
<1>6. n \in 0..n
  OBVIOUS
<1>7. QED BY <1>1, <1>3, <1>4, <1>5, <1>6

(* Where every block is ended each comes to a step emitted: others would   *)
(* only lead to each other.                                                *)
LEMMA AllTaken ==
  ASSUME Sound(blocks), CodeInv, PassInv, \A b \in DOMAIN blocks : Terminated(blocks, b)
  PROVE  \A b \in DOMAIN blocks : Starts(b) \in Taken
<1> DEFINE X == {b \in DOMAIN blocks : Starts(b) \notin Taken}
<1>1. ASSUME NEW b \in X PROVE Quiet(blocks[b]) /\ blocks[b].end.to[1] \in X
  <2>1. PICK node : node = blocks[b]
    OBVIOUS
  <2>2. PICK d : Tells(b, node, d) BY <2>1, BlockTells
  <2>3. PICK due : Leads(Starts(b), node.code, due) /\ due[Len(node.code)] = d
    BY <2>2 DEF Tells, Due
  <2>4. d \notin Taken /\ \A i \in 1..Len(node.code) : node.code[i] = Silent
    BY <2>2, <2>3, Ladder DEF Tells
  <2>5. node.end.op = "br" /\ node.end.event = Silent /\ Starts(node.end.to[1]) = d
    <3>1. node.end.event # d \/ d = Silent BY <2>2, <2>4 DEF Tells
    <3>2. Allowed(d) => d # Silent BY DEF Allowed
    <3>3. node.end.op \in {"br", "cond_br", "return"} BY <2>2 DEF Tells, Ends
    <3>4. EndFlows(node.end, d) BY <2>2 DEF Tells
    <3>5. QED BY <3>1, <3>2, <3>3, <3>4 DEF EndFlows, Plain
  <2>6. node.end.to[1] \in DOMAIN blocks BY <2>2, <2>5 DEF Tells, Ways
  <2>7. QED BY <2>1, <2>4, <2>5, <2>6 DEF Quiet
<1>2. Circle(blocks, X) BY <1>1 DEF Circle
<1>3. QED BY <1>2 DEF PassInv

(* What is emitted is what control comes to, and Ada allows it.            *)
LEMMA TakenClosed ==
  ASSUME Sound(blocks), CodeInv, PassInv, \A b \in DOMAIN blocks : Terminated(blocks, b)
  PROVE  Closed(Taken) /\ \A e \in Taken : Allowed(e)
<1> SUFFICES ASSUME NEW e \in Taken PROVE Allowed(e) /\ Ada!NextSteps(e) \subseteq Taken
  BY DEF Closed
<1>1. e # Silent BY DEF Taken
<1>2. Ada!NextSteps(e) \subseteq
        IF Ada!IsFinal(e) THEN {}
        ELSE {Follows(e, o) : o \in IF Ada!IsTest(e) THEN BOOLEAN ELSE {TRUE}}
  BY DEF Ada!NextSteps, Follows
<1>3. PICK b \in DOMAIN blocks :
        e = blocks[b].end.event \/ \E i \in 1..Len(blocks[b].code) : e = blocks[b].code[i]
  BY DEF Taken
<1>4. PICK node : node = blocks[b]
  OBVIOUS
<1>5. PICK d : Tells(b, node, d) BY <1>4, BlockTells
<1>6. PICK due : Leads(Starts(b), node.code, due) /\ due[Len(node.code)] = d
  BY <1>5 DEF Tells, Due
<1>7. \A i \in 1..Ways(node.end.op) : Starts(node.end.to[i]) \in Taken
  BY <1>5, AllTaken DEF Tells
<1>8. /\ node.end.op \in {"br", "cond_br", "return"} /\ EndFlows(node.end, d)
      /\ node.end.event \in Taken \union {Silent}
  BY <1>5 DEF Tells, Ends
<1>9. /\ node.end.op = "br" => Starts(node.end.to[1]) \in Taken
      /\ node.end.op = "cond_br" =>
           Starts(node.end.to[1]) \in Taken /\ Starts(node.end.to[2]) \in Taken
  BY <1>7 DEF Ways
<1>10. d \in Taken BY <1>8, <1>9 DEF EndFlows, Plain, Allowed
<1>11. CASE e = node.end.event
  <2>1. e = d /\ Allowed(d) BY <1>1, <1>8, <1>11 DEF EndFlows, Plain
  <2>2. CASE node.end.op = "br"
    BY <1>1, <1>2, <1>8, <1>9, <1>11, <2>1, <2>2 DEF EndFlows, Plain
  <2>3. CASE node.end.op = "cond_br"
    BY <1>2, <1>8, <1>9, <2>1, <2>3 DEF EndFlows
  <2>4. CASE node.end.op = "return" BY <1>2, <1>8, <2>1, <2>4 DEF EndFlows
  <2>5. QED BY <1>8, <2>2, <2>3, <2>4
<1>12. CASE \E i \in 1..Len(node.code) : e = node.code[i]
  <2>1. PICK i \in 1..Len(node.code) : e = node.code[i] BY <1>12
  <2>2. Plain(e) /\ due[i] = Follows(e, TRUE) BY <1>1, <1>6, <2>1 DEF Leads
  <2>3. due[i] \in Taken
    <3>1. \A j \in 0..Len(node.code) : due[j] \in Taken
      BY <1>5, <1>6, <1>10, Ladder DEF Tells
    <3>2. i \in 0..Len(node.code) BY <2>1
    <3>3. QED BY <3>1, <3>2
  <2>4. QED BY <1>2, <2>2, <2>3 DEF Plain
<1>13. QED BY <1>3, <1>4, <1>11, <1>12

LEMMA EntriesAre ==
  ASSUME prog \in Programs
  PROVE  /\ \A q \in Subps(prog) : Lands(First(q, 1)) \in Ada!Steps
         /\ \A l \in Labels(prog) : Lands(l) \in Ada!Steps
<1>1. ASSUME NEW q \in Subps(prog) PROVE First(q, 1) \in Ada!Inside
  <2>1. q \in DOMAIN prog /\ 1 \in 1..Parts(prog[q])
    BY DEF Subps, Parts, LoopKinds
  <2>2. QED BY <2>1, InsideFacts
<1>2. ASSUME NEW l \in Labels(prog) PROVE l \in Ada!Inside
  <2>1. l \in DOMAIN prog /\ l # Top BY ProgramFacts DEF Labels
  <2>2. QED BY <2>1, InsideFacts
<1>3. QED BY <1>1, <1>2, LandsOnStep

LEMMA OutcomeJust == IInv /\ FlowInv /\ VerdictInv /\ OutcomeInv => VerdictJustified
<1> SUFFICES ASSUME IInv, FlowInv, VerdictInv, OutcomeInv PROVE VerdictJustified
  OBVIOUS
<1>1. prog \in Programs /\ Sound(blocks) BY DEF IInv, DescentInv, BlocksInv
<1> DEFINE entries == {Lands(First(q, 1)) : q \in {s \in Subps(prog) : Entry(s) \in DOMAIN blocks}}
           reentries == {Lands(l) : l \in Labels(prog)}
<1>2. entries \subseteq Ada!Steps /\ reentries \subseteq Ada!Steps /\ Roots = entries \union reentries
  BY <1>1, EntriesAre DEF Roots
<1>3. /\ Least(entries, Ada!Reach(entries))
      /\ Least(entries \union reentries, Ada!Reach(entries \union reentries))
  BY <1>1, <1>2, ReachIs
<1>4. ASSUME pc = "verified", NEW e \in Ada!Reach(entries) PROVE ~Forbidden(e)
  <2>1. \A b \in DOMAIN blocks : Terminated(blocks, b) BY <1>4 DEF OutcomeInv
  <2>2. /\ Closed(Taken) /\ \A x \in Taken : Allowed(x)
        /\ \A b \in DOMAIN blocks : Starts(b) \in Taken
    BY <1>1, <2>1, TakenClosed, AllTaken DEF FlowInv, VerdictInv
  <2>3. \A q : Starts(Entry(q)) = Lands(First(q, 1))
    BY DEF Starts, Entry, Block
  <2>4. entries \subseteq Taken BY <2>2, <2>3
  <2>5. e \in Taken BY <1>3, <1>4, <2>2, <2>4 DEF Least
  <2>6. QED BY <2>2, <2>5 DEF Allowed, Forbidden
<1>5. ASSUME pc = "failed" PROVE \E e \in Ada!Reach(entries \union reentries) : Forbidden(e)
  BY <1>2, <1>3, <1>5 DEF OutcomeInv, Blamed, Least
<1>6. /\ entries = {Ada!Lands[First(q, 1)] : q \in {s \in Subps(prog) : Entry(s) \in DOMAIN blocks}}
      /\ reentries = {Ada!Lands[l] : l \in Labels(prog)}
  BY DEF Lands
<1> HIDE DEF entries, reentries
<1>7. QED BY <1>4, <1>5, <1>6 DEF VerdictJustified, Forbidden

(* A unit is accepted only when control, from the entries of its bodies,   *)
(* never comes to a goto or exit that Ada forbids, or to the end of a      *)
(* function; it is refused only when control does, from there or from a    *)
(* label.                                                                  *)
THEOREM VerdictSound == Spec => []VerdictJustified
<1>1. Init => OutcomeInv BY DEF Init, OutcomeInv
<1>2. Spec => []IInv /\ []FlowInv /\ []VerdictInv
  BY Invariance, FlowInvariance, VerdictInvariance, PTL
<1>3. Spec => []OutcomeInv BY <1>1, <1>2, NextOutcome, PTL DEF Spec
<1>4. QED BY <1>2, <1>3, OutcomeJust, PTL
=============================================================================
