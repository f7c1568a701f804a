---------------------------- MODULE Driver_proofs -----------------------------
(***************************************************************************)
(* Proofs about the driver: whatever the units, what MLIRGen emits for     *)
(* them and how many invocations there are, outputs are complete or gone,  *)
(* the passes lower everything, and a unit links with its bind module.     *)
(***************************************************************************)
EXTENDS Driver, SequenceTheorems, TLAPS

Compiling == {"passes", "output", "writing", "written", "kept"}
Opened == {"writing", "written", "kept"}

PassNames ==
  {"closure", "hoist", "calls", "indexing", "conversions", "mem2reg", "canonicalize",
   "references", "tollvm"}

(* The passes that have run.                                               *)
Passes == Pipeline(opts)
Ran == Len(Passes) - Len(todo)

(* What is gone once a pass has run.                                       *)
Cleared(pass) ==
  CASE pass = "closure" -> {"nested", "capture"}
    [] pass = "hoist" -> {"localtype"}
    [] pass = "calls" -> {"subp", "writable"}
    [] pass = "indexing" -> {"index"}
    [] pass = "conversions" -> {"convert"}
    [] pass = "references" -> {"object"}
    [] OTHER -> {}

(* The functions of a unit, under the names MLIRGen gives them and under   *)
(* those they have in machine code.                                        *)
Functions(u) == Generated(u, {}).provides
Hoisted(u) == Renamed("hoist", Functions(u))

Code(ops, provides, needs) == [ops |-> ops, provides |-> provides, needs |-> needs]

DriverInv ==
  /\ unit \in Units /\ runs \in 0..MaxRuns /\ opts \in Options
  /\ pc \in {"shell", "options", "parsed"} \cup Compiling
  /\ kept \in BOOLEAN /\ (kept => pc = "kept")
  /\ status \in {"idle", "succeeded", "failed", "killed"}
  /\ pc \in {"parsed"} \cup Compiling => ~(opts.emit = "ast" /\ opts.bind)
  /\ pc = "passes" => opts.emit # "ast"

PassesInv ==
  pc \in Compiling /\ opts.emit # "ast" =>
    /\ todo \in Seq(PassNames) /\ Ran \in 0..Len(Passes)
    /\ todo = SubSeq(Passes, Ran + 1, Len(Passes))
    /\ pc # "passes" => todo = <<>>
    /\ \A i \in 1..Ran : module.ops \cap Cleared(Passes[i]) = {}
    /\ \A i \in 1..Ran : Passes[i] = "tollvm" => module.ops = {"llvm"}

(* The module is that of the main program of a unit that can have one, or  *)
(* the unit's own, hoisted or not yet.                                     *)
ModuleInv ==
  pc \in Compiling /\ opts.emit # "ast" =>
    IF opts.bind
    THEN Bindable(unit) /\ module = BindModule(unit)
    ELSE module = Code(module.ops,
                       IF \E i \in 1..Ran : Passes[i] = "hoist"
                       THEN Hoisted(unit) ELSE Functions(unit),
                       {})

OutInv ==
  IF pc \in Opened THEN out = OutputPath(opts) ELSE out = NoFile

(* A complete output of a unit, and the file it may be in.                 *)
Complete(u, a) ==
  /\ a.form \in Actions /\ a.main \in BOOLEAN
  /\ a.main =>
       /\ Bindable(u)
       /\ a.module = Code(a.module.ops, BindModule(u).provides, BindModule(u).needs)
       /\ a.form = "mlir" => "llvm" \in a.module.ops
  /\ ~a.main /\ a.form # "ast" =>
       a.module = Code(a.module.ops,
                       IF a.form = "mlir" THEN Functions(u) ELSE Hoisted(u), {})

Named(f, a) ==
  f # Text => /\ a.form \in MachineCode
              /\ f[3] = Extension(a.form)
              /\ f[1] = IF a.main THEN "b_" ELSE ""

DirInv ==
  /\ \A f \in Files :
       \/ dir[f] = Absent
       \/ dir[f] = Partial /\ f = out /\ pc = "writing"
       \/ Complete(unit, dir[f]) /\ Named(f, dir[f])
  /\ pc \in {"written", "kept"} /\ out \in Files =>
       /\ Complete(unit, dir[out])
       /\ dir[out].form = opts.emit /\ dir[out].main = opts.bind

IInv == DriverInv /\ PassesInv /\ ModuleInv /\ OutInv /\ DirInv

-----------------------------------------------------------------------------
(* The pipelines *)

LEMMA PipelineMLIR ==
  ASSUME NEW o \in Options, o.emit = "mlir"
  PROVE  /\ Pipeline(o) \in Seq(PassNames)
         /\ \A i \in 1..Len(Pipeline(o)) : Pipeline(o)[i] \in {"mem2reg", "canonicalize"}
<1>1. CASE o.level >= 1
  <2>1. Pipeline(o) = <<"mem2reg", "canonicalize">>
    BY <1>1 DEF Pipeline, MLIRPasses, Promotion
  <2>2. QED
    BY <2>1 DEF PassNames
<1>2. CASE ~(o.level >= 1)
  BY <1>2 DEF Pipeline, MLIRPasses
<1>3. QED
  BY <1>1, <1>2

LEMMA PipelineBind ==
  ASSUME NEW o \in Options, o.emit # "mlir", o.bind
  PROVE  Pipeline(o) = <<>>
BY DEF Pipeline

LEMMA PipelineLevels ==
  ASSUME NEW o \in Options, o.emit # "mlir", ~o.bind
  PROVE  LET P == Pipeline(o) IN
         /\ P \in Seq(PassNames)
         /\ P[1] = "closure" /\ P[2] = "hoist" /\ P[3] = "calls"
         /\ P[4] = "indexing" /\ P[5] = "conversions"
         /\ \/ Len(P) = 7 /\ P[6] = "references" /\ P[7] = "tollvm"
            \/ /\ Len(P) = 11
               /\ P[6] = "mem2reg" /\ P[7] = "canonicalize" /\ P[8] = "references"
               /\ P[9] = "mem2reg" /\ P[10] = "canonicalize" /\ P[11] = "tollvm"
<1>1. o.level \in {0, 1}
  BY DEF Options
<1>2. Pipeline(o) = Lowering(o.level) \o MLIRPasses(o.level) \o <<"tollvm">>
  BY DEF Pipeline
<1>3. CASE o.level = 0
  <2>1. Pipeline(o) =
          (<<"closure", "hoist", "calls", "indexing", "conversions">> \o
           <<>> \o <<"references">>) \o <<>> \o <<"tollvm">>
    BY <1>2, <1>3 DEF Lowering, MLIRPasses
  <2>2. QED
    BY <2>1 DEF PassNames
<1>4. CASE o.level = 1
  <2>1. Pipeline(o) =
          (<<"closure", "hoist", "calls", "indexing", "conversions">> \o
           <<"mem2reg", "canonicalize">> \o <<"references">>) \o
          <<"mem2reg", "canonicalize">> \o <<"tollvm">>
    BY <1>2, <1>4 DEF Lowering, MLIRPasses, Promotion
  <2>2. QED
    BY <2>1 DEF PassNames
<1>5. QED
  BY <1>1, <1>3, <1>4

LEMMA PipelinePlaces ==
  ASSUME NEW o \in Options, o.emit # "mlir", ~o.bind,
         NEW i \in 1..Len(Pipeline(o))
  PROVE  LET P == Pipeline(o) IN
         \/ i = 1 /\ P[i] = "closure"
         \/ i = 2 /\ P[i] = "hoist"
         \/ i = 3 /\ P[i] = "calls"
         \/ i = 4 /\ P[i] = "indexing"
         \/ i = 5 /\ P[i] = "conversions"
         \/ i \in 6..10 /\ P[i] \in {"mem2reg", "canonicalize", "references"}
         \/ i \in 6..11 /\ i = Len(P) /\ P[i] = "tollvm"
<1>1. CASE Len(Pipeline(o)) = 7
  <2>1. i = 1 \/ i = 2 \/ i = 3 \/ i = 4 \/ i = 5 \/ i = 6 \/ i = 7
    BY <1>1
  <2>2. QED
    BY <1>1, <2>1, PipelineLevels
<1>2. CASE Len(Pipeline(o)) = 11
  <2>1. \/ i = 1 \/ i = 2 \/ i = 3 \/ i = 4 \/ i = 5 \/ i = 6 \/ i = 7 \/ i = 8
        \/ i = 9 \/ i = 10 \/ i = 11
    BY <1>2
  <2>2. QED
    BY <1>2, <2>1, PipelineLevels
<1>3. QED
  BY <1>1, <1>2, PipelineLevels

(* What a pass may introduce.                                              *)
Introduced(pass) ==
  CASE pass = "calls" -> {"func", "object", "convert"}
    [] pass = "indexing" -> {"offset"}
    [] pass = "references" -> {"memref"}
    [] pass = "tollvm" -> {"llvm"}
    [] OTHER -> {}

(* What the passes before it have cleared is all a pass rejects, and no    *)
(* later pass brings it back.                                              *)
LEMMA PipelineOrdered ==
  ASSUME NEW o \in Options, o.emit # "ast"
  PROVE  LET P == Pipeline(o) IN
         /\ P \in Seq(PassNames)
         /\ \A i \in 1..Len(P) : \A c \in Rejects(P[i]) :
              \E j \in 1..(i - 1) : c \in Cleared(P[j])
         /\ \A i, j \in 1..Len(P) :
              i < j => Cleared(P[i]) \cap Introduced(P[j]) = {}
<1> DEFINE P == Pipeline(o)
<1>1. CASE o.emit = "mlir"
  <2>1. \A pass \in {"mem2reg", "canonicalize"} : Rejects(pass) = {} /\ Introduced(pass) = {}
    BY DEF Rejects, Introduced
  <2>2. P \in Seq(PassNames)
    BY <1>1, PipelineMLIR
  <2>3. \A i \in 1..Len(P) : Rejects(P[i]) = {} /\ Introduced(P[i]) = {}
    BY <1>1, <2>1, PipelineMLIR
  <2>4. ASSUME NEW i \in 1..Len(P), NEW c \in Rejects(P[i])
        PROVE  \E j \in 1..(i - 1) : c \in Cleared(P[j])
    BY <2>3
  <2>5. ASSUME NEW i \in 1..Len(P), NEW j \in 1..Len(P), i < j
        PROVE  Cleared(P[i]) \cap Introduced(P[j]) = {}
    BY <2>3
  <2>6. QED
    BY <2>2, <2>4, <2>5
<1>2. CASE o.emit # "mlir" /\ o.bind
  <2>1. P = <<>> /\ 1..Len(P) = {}
    BY <1>2, PipelineBind
  <2>2. QED
    BY <2>1
<1>3. CASE o.emit # "mlir" /\ ~o.bind
  <2>1. P \in Seq(PassNames)
    BY <1>3, PipelineLevels
  <2>2. ASSUME NEW i \in 1..Len(P), NEW c \in Rejects(P[i])
        PROVE  \E j \in 1..(i - 1) : c \in Cleared(P[j])
    <3>1. /\ Cleared(P[1]) = {"nested", "capture"} /\ Cleared(P[2]) = {"localtype"}
          /\ Cleared(P[3]) = {"subp", "writable"} /\ Cleared(P[4]) = {"index"}
          /\ Cleared(P[5]) = {"convert"}
      BY <1>3, PipelineLevels DEF Cleared
    <3>2. P[i] \in {"hoist", "calls", "references", "tollvm"}
      BY DEF Rejects
    <3>3. CASE P[i] = "hoist"
      <4>1. c = "nested" /\ 1 \in 1..(i - 1)
        BY <1>3, <3>3, PipelineLevels DEF Rejects
      <4>2. QED
        BY <3>1, <4>1
    <3>4. CASE P[i] = "calls"
      <4>1. c \in {"nested", "capture"} /\ 1 \in 1..(i - 1)
        BY <1>3, <3>4, PipelineLevels DEF Rejects
      <4>2. QED
        BY <3>1, <4>1
    <3>5. CASE P[i] = "references"
      <4>1. c = "subp" /\ 3 \in 1..(i - 1)
        BY <1>3, <3>5, PipelineLevels DEF Rejects
      <4>2. QED
        BY <3>1, <4>1
    <3>6. CASE P[i] = "tollvm"
      <4>1. c \in {"nested", "capture", "localtype", "subp", "object", "index", "convert"}
        BY <3>6 DEF Rejects
      <4>2. \A n \in 1..5 : n \in 1..(i - 1)
        BY <1>3, <3>6, PipelineLevels
      <4>3. \E n \in 1..(i - 1) : P[n] = "references"
        BY <1>3, <3>6, PipelineLevels
      <4>4. Cleared("references") = {"object"}
        BY DEF Cleared
      <4>5. QED
        BY <3>1, <4>1, <4>2, <4>3, <4>4
    <3>7. QED
      BY <3>2, <3>3, <3>4, <3>5, <3>6
  <2>3. ASSUME NEW i \in 1..Len(P), NEW j \in 1..Len(P), i < j
        PROVE  Cleared(P[i]) \cap Introduced(P[j]) = {}
    <3>1. CASE P[j] = "calls"
      <4>1. j = 3
        BY <1>3, <3>1, PipelinePlaces
      <4>2. i = 1 \/ i = 2
        BY <2>3, <4>1
      <4>3. P[i] \in {"closure", "hoist"}
        BY <1>3, <4>2, PipelineLevels
      <4>4. QED
        BY <3>1, <4>3 DEF Cleared, Introduced
    <3>2. CASE P[j] # "calls"
      BY <2>1, <3>2 DEF Cleared, Introduced, PassNames
    <3>3. QED
      BY <3>1, <3>2
  <2>4. QED
    BY <2>1, <2>2, <2>3
<1>4. QED
  BY <1>1, <1>2, <1>3

(* The code for the machine is all of LLVM's dialect, and hoisted.         *)
LEMMA PipelineEnds ==
  ASSUME NEW o \in Options, o.emit # "mlir", ~o.bind
  PROVE  LET P == Pipeline(o) IN
         /\ \E i \in 1..Len(P) : P[i] = "tollvm"
         /\ \E i \in 1..Len(P) : P[i] = "hoist"
         /\ \A i \in 1..Len(P) : P[i] = "tollvm" => i = Len(P)
         /\ \A i \in 1..Len(P) : P[i] = "hoist" => i = 2
<1> DEFINE P == Pipeline(o)
<1>1. Len(P) \in {7, 11} /\ P[Len(P)] = "tollvm" /\ P[2] = "hoist"
  BY PipelineLevels
<1>2. \A i \in 1..Len(P) : P[i] = "tollvm" => i = Len(P)
  BY PipelinePlaces
<1>3. \A i \in 1..Len(P) : P[i] = "hoist" => i = 2
  BY PipelinePlaces
<1>4. QED
  BY <1>1, <1>2, <1>3

(* A pass leaves what it clears behind, and nothing but what it introduces *)
(* is new.                                                                 *)
LEMMA PassClears ==
  ASSUME NEW pass \in PassNames, NEW ops, NEW after \in Rewritten(pass, ops)
  PROVE  /\ after \cap Cleared(pass) = {}
         /\ after \subseteq ops \cup Introduced(pass)
         /\ pass = "tollvm" => after = {"llvm"}
         /\ pass \in {"mem2reg", "canonicalize"} /\ ops = {"llvm"} => after = {"llvm"}
BY DEF PassNames, Rewritten, Cleared, Introduced

-----------------------------------------------------------------------------
(* Output files *)

(* Without -o the file's name says whether it holds the unit's code or its *)
(* main program's, and whether it is an object or assembly; it is never    *)
(* the name a dump is given.                                               *)
LEMMA OutputPlace ==
  ASSUME NEW o \in Options
  PROVE  /\ OutputPath(o) \in Files \cup {Stdout} /\ OutputPath(o) # NoFile
         /\ Stdout \notin Files /\ NoFile \notin Files /\ Text \in Files
         /\ o.o # NoFile => OutputPath(o) = o.o
         /\ OutputPath(o) \in Files /\ (o.o = NoFile \/ OutputPath(o) # Text) =>
              /\ OutputPath(o) # Text
              /\ o.emit \in MachineCode
              /\ OutputPath(o)[3] = Extension(o.emit)
              /\ OutputPath(o)[1] = IF o.bind THEN "b_" ELSE ""
<1>1. /\ o.o \in {NoFile, Stdout, Text} /\ o.emit \in Actions /\ o.bind \in BOOLEAN
      /\ o.input \in Inputs
  BY DEF Options
<1>2. /\ Stdout \notin Files /\ NoFile \notin Files /\ Text \in Files
      /\ Stdout # NoFile /\ Text # NoFile /\ Stdout # Text
  BY DEF Files, FileName, Stdout, Stdin, NoFile, Text
<1>3. Extension(o.emit) \in {".o", ".s"} /\ Stem(o.input) \in {"u", "a"}
  BY DEF Extension, Stem
<1>4. CASE o.o = NoFile /\ o.emit \in MachineCode
  <2>1. PICK p, s, e : /\ p = IF o.bind THEN "b_" ELSE ""
                       /\ s = Stem(o.input) /\ e = Extension(o.emit)
    OBVIOUS
  <2>2. OutputPath(o) = FileName(p, s, e)
    BY <1>4, <2>1 DEF OutputPath
  <2>3. p \in {"", "b_"} /\ s \in {"u", "a"} /\ e \in {".o", ".s"}
    BY <1>3, <2>1
  <2>4. OutputPath(o) \in Files
    <3>1. FileName(p, s, e) \in Files
      BY <2>3 DEF Files, FileName
    <3>2. QED
      BY <2>2, <3>1
  <2>5. OutputPath(o)[3] = e /\ OutputPath(o)[1] = p /\ OutputPath(o) # Text
    <3>1. FileName(p, s, e)[3] = e /\ FileName(p, s, e)[1] = p
      BY DEF FileName
    <3>2. FileName(p, s, e) # Text
      BY <2>3 DEF FileName, Text
    <3>3. QED
      BY <2>2, <3>1, <3>2
  <2>6. QED
    BY <1>2, <1>4, <2>1, <2>4, <2>5
<1>5. CASE o.o = NoFile /\ o.emit \notin MachineCode
  BY <1>2, <1>5 DEF OutputPath
<1>6. CASE o.o # NoFile
  BY <1>1, <1>2, <1>6 DEF OutputPath
<1>7. QED
  BY <1>4, <1>5, <1>6

LEMMA DefaultsOption == Defaults \in Options
BY DEF Defaults, Options, Inputs, Actions, Stdin, Text, FileName, NoFile, None

(* Options that main has not refused.                                      *)
LEMMA Accepted ==
  ASSUME NEW o \in Options, ~Refused(o)
  PROVE  ~(o.emit = "ast" /\ o.bind) /\ (IsMLIRInput(o) => o.emit # "ast" /\ ~o.bind)
BY DEF Refused

LEMMA Artefacts ==
  ASSUME NEW u, NEW a, Complete(u, a)
  PROVE  a # Absent /\ a # Partial
BY DEF Complete, Actions, Absent, Partial

-----------------------------------------------------------------------------
(* The end of an invocation *)

(* A file is as before or gone, and none is partial.                       *)
Settled == \A f \in Files : dir'[f] = Absent \/ (dir'[f] = dir[f] /\ dir[f] # Partial)

LEMMA ReturnKeeps ==
  ASSUME IInv, NEW how \in {"succeeded", "failed", "killed"}, Return(how), Settled
  PROVE  IInv'
<1>1. /\ pc' = "shell" /\ status' = how /\ opts' = Defaults /\ out' = NoFile
      /\ kept' = FALSE /\ unit' = unit /\ runs' = runs
  BY DEF Return
<1>2. DriverInv'
  BY <1>1, DefaultsOption DEF IInv, DriverInv, Compiling
<1>3. PassesInv' /\ ModuleInv' /\ OutInv'
  BY <1>1 DEF PassesInv, ModuleInv, OutInv, Compiling, Opened
<1>4. DirInv'
  BY <1>1 DEF IInv, DirInv, Settled
<1>5. QED
  BY <1>2, <1>3, <1>4 DEF IInv

LEMMA DiscardSettles ==
  ASSUME IInv, Discard
  PROVE  Settled
<1>1. CASE out = NoFile \/ kept
  <2>1. dir' = dir /\ pc # "writing"
    BY <1>1, OutputPlace DEF Discard, IInv, DriverInv, OutInv, Opened
  <2>2. QED
    BY <2>1, Artefacts DEF IInv, DirInv, Settled
<1>2. CASE ~(out = NoFile \/ kept)
  <2>1. \A f \in Files : dir'[f] = IF f = out THEN Absent ELSE dir[f]
    BY <1>2 DEF Discard, SetFile
  <2>2. QED
    BY <2>1, Artefacts DEF IInv, DirInv, Settled
<1>3. QED
  BY <1>1, <1>2

LEMMA FailKeeps == IInv /\ Fail => IInv'
BY DiscardSettles, ReturnKeeps DEF Fail

LEMMA ExitKeeps == IInv /\ Exit => IInv'
<1> SUFFICES ASSUME IInv, Exit PROVE IInv'
  OBVIOUS
<1>1. pc = "kept" /\ dir' = dir /\ Return("succeeded")
  BY DEF Exit
<1>2. Settled
  BY <1>1, Artefacts DEF IInv, DirInv, Settled
<1>3. QED
  BY <1>1, <1>2, ReturnKeeps

LEMMA InterruptKeeps == IInv /\ Interrupt => IInv'
<1> SUFFICES ASSUME IInv, Interrupt PROVE IInv'
  OBVIOUS
<1>1. Return("killed")
  BY DEF Interrupt
<1>2. Settled
  <2>1. CASE out = NoFile
    <3>1. dir' = dir /\ pc # "writing"
      BY <2>1, OutputPlace DEF Interrupt, IInv, DriverInv, OutInv, Opened
    <3>2. QED
      BY <3>1, Artefacts DEF IInv, DirInv, Settled
  <2>2. CASE out # NoFile
    <3>1. \A f \in Files : dir'[f] = IF f = out THEN Absent ELSE dir[f]
      BY <2>2 DEF Interrupt, SetFile
    <3>2. QED
      BY <3>1, Artefacts DEF IInv, DirInv, Settled
  <2>3. QED
    BY <2>1, <2>2
<1>3. QED
  BY <1>1, <1>2, ReturnKeeps

-----------------------------------------------------------------------------
(* The steps before the output is open *)

(* Until then the directory is as it was.                                  *)
LEMMA DirKept ==
  ASSUME IInv, dir' = dir, unit' = unit, out' = out, pc \notin Opened, pc' \notin Opened
  PROVE  OutInv' /\ DirInv'
<1>1. OutInv'
  BY DEF IInv, OutInv
<1>2. DirInv'
  BY DEF IInv, DirInv, Opened
<1>3. QED
  BY <1>1, <1>2

LEMMA InvokeKeeps == IInv /\ Invoke => IInv'
<1> SUFFICES ASSUME IInv, Invoke PROVE IInv'
  OBVIOUS
<1>1. /\ pc = "shell" /\ pc' = "options" /\ opts' \in Options /\ runs' = runs + 1
      /\ runs < MaxRuns
      /\ dir' = dir /\ unit' = unit /\ out' = out /\ kept' = kept /\ status' = status
  BY DEF Invoke, Go
<1>2. DriverInv'
  <2>1. MaxRuns \in Nat
    BY UnitsAssumption
  <2>2. runs \in 0..MaxRuns
    BY DEF IInv, DriverInv
  <2>3. runs + 1 \in 0..MaxRuns
    BY <1>1, <2>1, <2>2
  <2>4. QED
    BY <1>1, <2>3 DEF IInv, DriverInv, Compiling
<1>3. PassesInv' /\ ModuleInv'
  BY <1>1 DEF PassesInv, ModuleInv, Compiling
<1>4. OutInv' /\ DirInv'
  BY <1>1, DirKept DEF Opened
<1>5. QED
  BY <1>2, <1>3, <1>4 DEF IInv

(* A module that is loaded has all the passes of the action before it.     *)
LEMMA LoadKeeps ==
  ASSUME IInv, NEW m, Load(m, Pipeline(opts)),
         pc \in {"options", "parsed"}, opts.emit # "ast",
         IF opts.bind THEN Bindable(unit) /\ m = BindModule(unit)
         ELSE m = Code(m.ops, Functions(unit), {})
  PROVE  IInv'
<1>1. /\ pc' = "passes" /\ module' = m /\ todo' = Pipeline(opts)
      /\ dir' = dir /\ unit' = unit /\ out' = out /\ kept' = kept
      /\ status' = status /\ runs' = runs /\ opts' = opts
  BY DEF Load, Go, request
<1>2. DriverInv'
  BY <1>1 DEF IInv, DriverInv, Compiling
<1>3. Pipeline(opts) \in Seq(PassNames)
  BY PipelineOrdered DEF IInv, DriverInv
<1>4. Passes' = Pipeline(opts) /\ Ran' = 0
  BY <1>1, <1>3 DEF Passes, Ran
<1>5. PassesInv'
  <2>1. SubSeq(Pipeline(opts), 1, Len(Pipeline(opts))) = Pipeline(opts)
    BY <1>3
  <2>2. Len(Pipeline(opts)) \in Nat
    BY <1>3
  <2>3. QED
    BY <1>1, <1>3, <1>4, <2>1, <2>2 DEF PassesInv
<1>6. ModuleInv'
  BY <1>1, <1>4 DEF ModuleInv
<1>7. OutInv' /\ DirInv'
  BY <1>1, DirKept DEF Opened
<1>8. QED
  BY <1>2, <1>5, <1>6, <1>7 DEF IInv

(* A dump that can be read back is of the unit's code before it is lowered.*)
LEMMA LoadMLIRFileKeeps == IInv /\ LoadMLIRFile => IInv'
<1> SUFFICES ASSUME IInv, LoadMLIRFile PROVE IInv'
  OBVIOUS
<1>1. CASE ~(opts.input # Source /\ Readable(dir[Text]))
  BY <1>1, FailKeeps DEF LoadMLIRFile
<1>2. CASE opts.input # Source /\ Readable(dir[Text])
  <2>1. /\ pc = "options" /\ ~Refused(opts) /\ IsMLIRInput(opts)
        /\ Load(dir[Text].module, Pipeline(opts))
    BY <1>2 DEF LoadMLIRFile
  <2>2. opts.emit # "ast" /\ ~opts.bind
    BY <2>1, Accepted DEF IInv, DriverInv
  <2>3. dir[Text].form = "mlir" /\ "llvm" \notin dir[Text].module.ops
    BY <1>2 DEF Readable
  <2>4. Text \in Files
    BY OutputPlace, DefaultsOption
  <2>5. dir[Text] # Absent /\ dir[Text] # Partial
    BY <2>3 DEF Absent, Partial
  <2>6. Complete(unit, dir[Text])
    BY <2>4, <2>5 DEF IInv, DirInv
  <2>7. dir[Text].module = Code(dir[Text].module.ops, Functions(unit), {})
    BY <2>3, <2>6 DEF Complete
  <2>8. QED
    BY <2>1, <2>2, <2>7, LoadKeeps
<1>3. QED
  BY <1>1, <1>2

LEMMA ParseKeeps == IInv /\ Parse => IInv'
<1> SUFFICES ASSUME IInv, Parse, ~Fail PROVE IInv'
  BY FailKeeps
<1>1. /\ pc = "options" /\ ~Refused(opts) /\ pc' = "parsed"
      /\ dir' = dir /\ unit' = unit /\ out' = out /\ kept' = kept
      /\ status' = status /\ runs' = runs /\ opts' = opts
  BY DEF Parse, Go, request
<1>2. DriverInv'
  BY <1>1, Accepted DEF IInv, DriverInv, Compiling
<1>3. PassesInv' /\ ModuleInv'
  BY <1>1 DEF PassesInv, ModuleInv, Compiling
<1>4. OutInv' /\ DirInv'
  BY <1>1, DirKept DEF Opened
<1>5. QED
  BY <1>2, <1>3, <1>4 DEF IInv

LEMMA DumpASTKeeps == IInv /\ DumpAST => IInv'
<1> SUFFICES ASSUME IInv, DumpAST PROVE IInv'
  OBVIOUS
<1>1. /\ pc = "parsed" /\ opts.emit = "ast" /\ pc' = "output"
      /\ dir' = dir /\ unit' = unit /\ out' = out /\ kept' = kept
      /\ status' = status /\ runs' = runs /\ opts' = opts
  BY DEF DumpAST, Go, request
<1>2. DriverInv'
  BY <1>1 DEF IInv, DriverInv, Compiling
<1>3. PassesInv' /\ ModuleInv'
  BY <1>1 DEF PassesInv, ModuleInv
<1>4. OutInv' /\ DirInv'
  BY <1>1, DirKept DEF Opened
<1>5. QED
  BY <1>2, <1>3, <1>4 DEF IInv

LEMMA BindKeeps == IInv /\ Bind => IInv'
<1> SUFFICES ASSUME IInv, Bind PROVE IInv'
  OBVIOUS
<1>1. pc = "parsed" /\ opts.emit # "ast" /\ opts.bind
  BY DEF Bind
<1>2. CASE Bindable(unit)
  BY <1>1, <1>2, LoadKeeps DEF Bind
<1>3. CASE ~Bindable(unit)
  BY <1>3, FailKeeps DEF Bind
<1>4. QED
  BY <1>2, <1>3

LEMMA MLIRGenKeeps == IInv /\ MLIRGen => IInv'
<1> SUFFICES ASSUME IInv, MLIRGen, ~Fail PROVE IInv'
  BY FailKeeps
<1>1. /\ pc = "parsed" /\ opts.emit # "ast" /\ ~opts.bind
      /\ \E ops \in Emitted : Load(Generated(unit, ops), Pipeline(opts))
  BY DEF MLIRGen
<1>2. PICK ops \in Emitted : Load(Generated(unit, ops), Pipeline(opts))
  BY <1>1
<1>3. Generated(unit, ops) = Code(Generated(unit, ops).ops, Functions(unit), {})
  BY DEF Generated, Code, Functions
<1>4. QED
  BY <1>1, <1>2, <1>3, LoadKeeps

-----------------------------------------------------------------------------
(* The passes *)

(* The passes left, after one of them.                                     *)
LEMMA Suffix ==
  ASSUME NEW S, NEW s \in Seq(S), NEW n \in 1..(Len(s) + 1),
         NEW t, t = SubSeq(s, n, Len(s)), t # <<>>
  PROVE  /\ n <= Len(s) /\ s[n] \in S
         /\ Head(t) = s[n] /\ Tail(t) \in Seq(S)
         /\ Tail(t) = SubSeq(s, n + 1, Len(s))
         /\ Len(Tail(t)) = Len(s) - n
<1> DEFINE u == SubSeq(s, n + 1, Len(s))
<1>1. Len(s) \in Nat /\ n \in Nat /\ n >= 1
  OBVIOUS
<1>2. n <= Len(s)
  BY <1>1, SubSeqEmpty
<1>3. /\ t \in Seq(S) /\ Len(t) = (Len(s) - n) + 1
      /\ \A i \in 1..Len(t) : t[i] = s[n + i - 1]
  BY <1>1, <1>2, SubSeqProperties
<1>4. /\ u \in Seq(S) /\ Len(u) = Len(s) - n
      /\ \A i \in 1..Len(u) : u[i] = s[(n + 1) + i - 1]
  <2>1. CASE n < Len(s)
    BY <1>1, <2>1, SubSeqProperties
  <2>2. CASE n = Len(s)
    <3>1. u = <<>>
      BY <1>1, <2>2, SubSeqEmpty
    <3>2. QED
      BY <1>1, <2>2, <3>1
  <2>3. QED
    BY <1>1, <1>2, <2>1, <2>2
<1>5. /\ Tail(t) \in Seq(S) /\ Len(Tail(t)) = Len(t) - 1
      /\ \A i \in 1..(Len(t) - 1) : Tail(t)[i] = t[i + 1]
  BY <1>3
<1>6. Tail(t) = u
  <2>1. Len(Tail(t)) = Len(u)
    BY <1>1, <1>3, <1>4, <1>5
  <2>2. ASSUME NEW i \in 1..Len(u)
        PROVE  Tail(t)[i] = u[i]
    <3>1. i \in 1..(Len(t) - 1) /\ i + 1 \in 1..Len(t)
      BY <1>1, <1>3, <1>4
    <3>2. Tail(t)[i] = s[n + (i + 1) - 1] /\ u[i] = s[(n + 1) + i - 1]
      BY <1>3, <1>4, <1>5, <3>1
    <3>3. n + (i + 1) - 1 = (n + 1) + i - 1
      BY <1>1, <3>1
    <3>4. QED
      BY <3>2, <3>3
  <2>3. QED
    BY <1>4, <1>5, <2>1, <2>2, SeqEqual
<1>7. Head(t) = s[n]
  <2>1. 1 \in 1..Len(t) /\ n + 1 - 1 = n
    BY <1>1, <1>2, <1>3
  <2>2. Head(t) = t[1]
    BY <1>3
  <2>3. QED
    BY <1>3, <2>1, <2>2
<1>8. Len(Tail(t)) = Len(s) - n
  BY <1>1, <1>3, <1>5
<1>9. n <= Len(s) /\ s[n] \in S
  <2>1. n \in 1..Len(s)
    BY <1>1, <1>2
  <2>2. QED
    BY <1>1, <2>1
<1>10. QED
  BY <1>5, <1>6, <1>7, <1>8, <1>9

(* A pass works on what the passes before it have left, takes its own      *)
(* constructs away and brings back none of theirs.                         *)
LEMMA RunPassKeeps == IInv /\ RunPass => IInv'
<1> SUFFICES ASSUME IInv, RunPass, ~Fail PROVE IInv'
  BY FailKeeps
<1> DEFINE P == Passes
<1>0. PICK n, pass : n = Ran + 1 /\ pass = Head(todo)
  OBVIOUS
<1>1. /\ pc = "passes" /\ todo # <<>> /\ todo' = Tail(todo) /\ pc' = "passes"
      /\ dir' = dir /\ unit' = unit /\ out' = out /\ kept' = kept
      /\ status' = status /\ runs' = runs /\ opts' = opts
  BY DEF RunPass, request
<1>2. PICK ops \in Rewritten(pass, module.ops) :
        module' = [ops |-> ops, needs |-> module.needs,
                   provides |-> Renamed(pass, module.provides)]
  BY <1>0 DEF RunPass
<1>3. opts \in Options /\ opts.emit # "ast"
  BY <1>1 DEF IInv, DriverInv
<1>4. /\ P \in Seq(PassNames) /\ Ran \in 0..Len(P) /\ n \in 1..(Len(P) + 1)
      /\ todo = SubSeq(P, n, Len(P))
  <2>1. P \in Seq(PassNames)
    BY <1>3, PipelineOrdered DEF Passes
  <2>2. Ran \in 0..Len(P) /\ todo = SubSeq(P, Ran + 1, Len(P))
    BY <1>1, <1>3 DEF IInv, PassesInv, Compiling
  <2>3. QED
    BY <1>0, <2>1, <2>2
<1>5. n \in 1..Len(P) /\ n = Ran + 1 /\ Ran \in Nat /\ Len(P) \in Nat /\ n \in Nat
  <2>1. n <= Len(P)
    BY <1>1, <1>4, Suffix
  <2>2. QED
    BY <1>0, <1>4, <2>1
<1>6. /\ pass = P[n] /\ pass \in PassNames
      /\ Tail(todo) \in Seq(PassNames)
      /\ Tail(todo) = SubSeq(P, n + 1, Len(P)) /\ Len(Tail(todo)) = Len(P) - n
  BY <1>0, <1>1, <1>4, Suffix
<1>7. Passes' = P /\ Ran' = n
  <2>1. Passes' = P
    BY <1>1 DEF Passes
  <2>2. Ran' = Len(P) - Len(Tail(todo))
    BY <1>1, <2>1 DEF Ran
  <2>3. Len(Tail(todo)) = Len(P) - n
    BY <1>6
  <2>4. \A a, b \in Nat : a - (a - b) = b
    OBVIOUS
  <2>5. Ran' = n
    BY <1>5, <2>2, <2>3, <2>4
  <2>6. QED
    BY <2>1, <2>5
<1>8. module'.ops = ops
  BY <1>2
<1>9. /\ ops \cap Cleared(pass) = {}
      /\ ops \subseteq module.ops \cup Introduced(pass)
      /\ pass = "tollvm" => ops = {"llvm"}
      /\ pass \in {"mem2reg", "canonicalize"} /\ module.ops = {"llvm"} => ops = {"llvm"}
  <2>1. pass \in PassNames
    BY <1>6
  <2>2. QED
    BY <2>1, PassClears
<1>10. DriverInv'
  BY <1>1 DEF IInv, DriverInv, Compiling
<1>11. PassesInv'
  <2>1. ASSUME NEW i \in 1..n
        PROVE  ops \cap Cleared(P[i]) = {}
    <3>1. CASE i = n
      BY <1>6, <1>9, <3>1
    <3>2. CASE i # n
      <4>1. i \in 1..Ran /\ i \in 1..Len(P) /\ i < n
        BY <1>5, <3>2
      <4>2. module.ops \cap Cleared(P[i]) = {}
        BY <1>1, <1>3, <4>1 DEF IInv, PassesInv, Compiling
      <4>3. Cleared(P[i]) \cap Introduced(pass) = {}
        BY <1>3, <1>5, <1>6, <4>1, PipelineOrdered DEF Passes
      <4>4. QED
        BY <1>9, <4>2, <4>3
    <3>3. QED
      BY <3>1, <3>2
  <2>2. ASSUME NEW i \in 1..n, P[i] = "tollvm"
        PROVE  ops = {"llvm"}
    <3>1. i \in 1..Len(P)
      BY <1>5
    <3>2. CASE opts.emit # "mlir" /\ ~opts.bind
      <4>1. i = Len(P)
        BY <1>3, <2>2, <3>1, <3>2, PipelineEnds DEF Passes
      <4>2. i = n
        BY <1>5, <4>1
      <4>3. QED
        BY <1>6, <1>9, <2>2, <4>2
    <3>3. CASE opts.emit # "mlir" /\ opts.bind
      BY <1>3, <3>1, <3>3, PipelineBind DEF Passes
    <3>4. CASE opts.emit = "mlir"
      BY <1>3, <2>2, <3>1, <3>4, PipelineMLIR DEF Passes
    <3>5. QED
      BY <3>2, <3>3, <3>4
  <2>3. n \in 0..Len(P)
    BY <1>5
  <2>4. QED
    BY <1>1, <1>6, <1>7, <1>8, <2>1, <2>2, <2>3 DEF PassesInv
<1>12. ModuleInv'
  <2>1. CASE opts.bind
    <3>1. Bindable(unit) /\ module = BindModule(unit)
      BY <1>1, <1>3, <2>1 DEF IInv, ModuleInv, Compiling
    <3>2. opts.emit = "mlir"
      BY <1>3, <1>4, <1>5, <2>1, PipelineBind DEF Passes
    <3>3. pass \in {"mem2reg", "canonicalize"}
      BY <1>3, <1>5, <1>6, <3>2, PipelineMLIR DEF Passes
    <3>4. \A s : Renamed(pass, s) = s
      BY <3>3 DEF Renamed
    <3>5. ops = {"llvm"}
      BY <1>9, <3>1, <3>3 DEF BindModule
    <3>6. module' = module
      BY <1>2, <3>1, <3>4, <3>5 DEF BindModule
    <3>7. QED
      BY <1>1, <2>1, <3>1, <3>6 DEF ModuleInv
  <2>2. CASE ~opts.bind
    <3> DEFINE before == \E i \in 1..Ran : P[i] = "hoist"
               after == \E i \in 1..n : P[i] = "hoist"
    <3>1. module = Code(module.ops,
                        IF before THEN Hoisted(unit) ELSE Functions(unit), {})
      BY <1>1, <1>3, <2>2 DEF IInv, ModuleInv, Compiling
    <3>2. after = (before \/ pass = "hoist")
      <4>1. \A i \in 1..n : i \in 1..Ran \/ i = n
        BY <1>5
      <4>2. \A i \in 1..Ran : i \in 1..n
        BY <1>5
      <4>3. n \in 1..n
        BY <1>5
      <4>4. QED
        BY <1>6, <4>1, <4>2, <4>3
    <3>3. pass = "hoist" => ~before
      <4>1. CASE opts.emit = "mlir"
        BY <1>3, <1>5, <1>6, <4>1, PipelineMLIR DEF Passes
      <4>2. CASE opts.emit # "mlir"
        <5>1. \A i \in 1..Len(P) : P[i] = "hoist" => i = 2
          BY <1>3, <2>2, <4>2, PipelineEnds DEF Passes
        <5>2. SUFFICES ASSUME pass = "hoist", NEW i \in 1..Ran, P[i] = "hoist"
                       PROVE  FALSE
          OBVIOUS
        <5>3. n = 2
          BY <1>5, <1>6, <5>1, <5>2
        <5>4. i \in 1..Len(P) /\ i < n
          BY <1>5
        <5>5. i = 2
          BY <5>1, <5>2, <5>4
        <5>6. QED
          BY <5>3, <5>4, <5>5
      <4>3. QED
        BY <4>1, <4>2
    <3>4. module' = Code(ops, Renamed(pass, IF before THEN Hoisted(unit)
                                             ELSE Functions(unit)), {})
      BY <1>2, <3>1 DEF Code
    <3>5. Renamed(pass, IF before THEN Hoisted(unit) ELSE Functions(unit))
            = IF after THEN Hoisted(unit) ELSE Functions(unit)
      <4>1. CASE pass = "hoist"
        BY <3>2, <3>3, <4>1 DEF Hoisted
      <4>2. CASE pass # "hoist"
        <5>1. \A s : Renamed(pass, s) = s
          BY <4>2 DEF Renamed
        <5>2. after = before
          BY <3>2, <4>2
        <5>3. QED
          BY <5>1, <5>2
      <4>3. QED
        BY <4>1, <4>2
    <3>6. (\E i \in 1..Ran : Passes[i] = "hoist")' = after
      BY <1>7
    <3>7. QED
      BY <1>1, <1>8, <2>2, <3>4, <3>5, <3>6 DEF ModuleInv
  <2>3. QED
    BY <2>1, <2>2
<1>13. OutInv' /\ DirInv'
  BY <1>1, DirKept DEF Opened
<1>14. QED
  BY <1>10, <1>11, <1>12, <1>13 DEF IInv

-----------------------------------------------------------------------------
(* The steps that write the output *)

LEMMA ReadyKeeps ==
  ASSUME IInv, pc = "passes", todo = <<>>, pc' = "output",
         UNCHANGED <<dir, module, todo, out, kept, status>>, UNCHANGED request
  PROVE  IInv'
<1>1. /\ dir' = dir /\ unit' = unit /\ out' = out /\ kept' = kept /\ module' = module
      /\ status' = status /\ runs' = runs /\ opts' = opts /\ todo' = todo
  BY DEF request
<1>2. DriverInv'
  BY <1>1 DEF IInv, DriverInv, Compiling
<1>3. Passes' = Passes /\ Ran' = Ran
  BY <1>1 DEF Passes, Ran
<1>4. PassesInv' /\ ModuleInv'
  BY <1>1, <1>3 DEF IInv, DriverInv, PassesInv, ModuleInv, Compiling
<1>5. OutInv' /\ DirInv'
  BY <1>1, DirKept DEF Opened
<1>6. QED
  BY <1>2, <1>4, <1>5 DEF IInv

LEMMA TranslateKeeps == IInv /\ Translate => IInv'
BY FailKeeps, ReadyKeeps DEF Translate, Go

LEMMA PrintMLIRKeeps == IInv /\ PrintMLIR => IInv'
BY ReadyKeeps DEF PrintMLIR, Go

(* From the opening of the output on, the module is the one to write.      *)
LEMMA ModuleKept ==
  ASSUME IInv, pc \in Compiling \ {"passes"}, pc' \in Compiling \ {"passes"},
         unit' = unit, module' = module, todo' = todo, opts' = opts
  PROVE  PassesInv' /\ ModuleInv'
<1>1. Passes' = Passes /\ Ran' = Ran
  BY DEF Passes, Ran
<1>2. QED
  BY <1>1 DEF IInv, PassesInv, ModuleInv

LEMMA OpenKeeps == IInv /\ Open => IInv'
<1> SUFFICES ASSUME IInv, Open PROVE IInv'
  OBVIOUS
<1>1. /\ pc = "output" /\ pc' = "writing" /\ out' = OutputPath(opts) /\ kept' = FALSE
      /\ unit' = unit /\ module' = module /\ todo' = todo /\ status' = status
      /\ runs' = runs /\ opts' = opts
      /\ \A f \in Files : dir'[f] = IF f = out' THEN Partial ELSE dir[f]
  BY DEF Open, Go, request, SetFile
<1>2. DriverInv'
  BY <1>1 DEF IInv, DriverInv, Compiling
<1>3. PassesInv' /\ ModuleInv'
  BY <1>1, ModuleKept DEF Compiling
<1>4. OutInv'
  BY <1>1 DEF OutInv, Opened
<1>5. DirInv'
  BY <1>1 DEF IInv, DirInv
<1>6. QED
  BY <1>2, <1>3, <1>4, <1>5 DEF IInv

(* What is written is complete, and in a file its name fits.               *)
LEMMA ArtefactComplete ==
  ASSUME IInv, pc = "writing"
  PROVE  /\ Complete(unit, Artefact)
         /\ Artefact.form = opts.emit /\ Artefact.main = opts.bind
         /\ out \in Files => Named(out, Artefact)
<1>1. /\ Artefact.form = opts.emit /\ Artefact.main = opts.bind
      /\ opts.emit = "mlir" => Artefact.module = module
      /\ opts.emit \notin {"ast", "mlir"} =>
           Artefact.module = Code({}, module.provides, module.needs)
  BY DEF Artefact, Code
<1>2. /\ opts \in Options /\ opts.emit \in Actions /\ opts.bind \in BOOLEAN
      /\ ~(opts.emit = "ast" /\ opts.bind) /\ pc \in Compiling
  BY DEF IInv, DriverInv, Options, Compiling
<1>3. CASE opts.bind
  <2>1. Bindable(unit) /\ module = BindModule(unit) /\ opts.emit # "ast"
    BY <1>2, <1>3 DEF IInv, ModuleInv
  <2>2. module = Code({"llvm"}, BindModule(unit).provides, BindModule(unit).needs)
    BY <2>1 DEF BindModule, Code
  <2>3. /\ module.ops = {"llvm"} /\ module.provides = BindModule(unit).provides
        /\ module.needs = BindModule(unit).needs
    BY <2>2 DEF Code
  <2>4. Artefact.module = Code(Artefact.module.ops, BindModule(unit).provides,
                               BindModule(unit).needs)
    <3>1. CASE opts.emit = "mlir"
      BY <1>1, <2>2, <2>3, <3>1
    <3>2. CASE opts.emit # "mlir"
      <4>1. Artefact.module = Code({}, BindModule(unit).provides, BindModule(unit).needs)
        BY <1>1, <2>1, <2>3, <3>2
      <4>2. Artefact.module.ops = {}
        BY <4>1 DEF Code
      <4>3. QED
        BY <4>1, <4>2
    <3>3. QED
      BY <3>1, <3>2
  <2>5. Artefact.form = "mlir" => "llvm" \in Artefact.module.ops
    BY <1>1, <2>3
  <2>6. Complete(unit, Artefact)
    BY <1>1, <1>2, <1>3, <2>1, <2>4, <2>5 DEF Complete
  <2>7. QED
    BY <1>1, <1>2, <2>6, OutputPlace DEF IInv, OutInv, Opened, Named
<1>4. CASE ~opts.bind
  <2> DEFINE hoisted == \E i \in 1..Ran : Passes[i] = "hoist"
  <2>1. opts.emit # "ast" =>
          module = Code(module.ops, IF hoisted THEN Hoisted(unit) ELSE Functions(unit), {})
    BY <1>2, <1>4 DEF IInv, ModuleInv
  <2>2. opts.emit # "ast" => Ran \in 0..Len(Passes) /\ Ran = Len(Passes)
    <3>1. opts.emit # "ast" => Ran \in 0..Len(Passes) /\ todo = <<>>
      BY <1>2 DEF IInv, PassesInv
    <3>2. Len(Passes) \in Nat
      <4>1. CASE opts.emit # "ast"
        BY <1>2, <4>1, PipelineOrdered DEF Passes
      <4>2. CASE opts.emit = "ast"
        BY <1>2, <1>4, <4>2, PipelineLevels DEF Passes
      <4>3. QED
        BY <4>1, <4>2
    <3>3. QED
      BY <3>1, <3>2 DEF Ran
  <2>3. opts.emit \notin {"ast", "mlir"} => hoisted
    BY <1>2, <1>4, <2>2, PipelineEnds DEF Passes
  <2>4. opts.emit = "mlir" => ~hoisted
    BY <1>2, <2>2, PipelineMLIR DEF Passes
  <2>5. opts.emit # "ast" =>
          Artefact.module = Code(Artefact.module.ops,
            IF opts.emit = "mlir" THEN Functions(unit) ELSE Hoisted(unit), {})
    <3>1. CASE opts.emit = "mlir"
      BY <1>1, <2>1, <2>4, <3>1
    <3>2. CASE opts.emit \notin {"ast", "mlir"}
      <4>1. module.provides = Hoisted(unit) /\ module.needs = {}
        BY <2>1, <2>3, <3>2 DEF Code
      <4>2. Artefact.module = Code({}, Hoisted(unit), {})
        BY <1>1, <3>2, <4>1
      <4>3. Artefact.module.ops = {}
        BY <4>2 DEF Code
      <4>4. QED
        BY <3>2, <4>2, <4>3
    <3>3. QED
      BY <3>1, <3>2
  <2>6. Complete(unit, Artefact)
    BY <1>1, <1>2, <1>4, <2>5 DEF Complete
  <2>7. QED
    BY <1>1, <1>2, <2>6, OutputPlace DEF IInv, OutInv, Opened, Named
<1>5. QED
  BY <1>2, <1>3, <1>4

LEMMA WriteKeeps == IInv /\ Write => IInv'
<1> SUFFICES ASSUME IInv, Write PROVE IInv'
  OBVIOUS
<1>1. /\ pc = "writing" /\ pc' = "written" /\ out' = out /\ kept' = kept
      /\ unit' = unit /\ module' = module /\ todo' = todo /\ status' = status
      /\ runs' = runs /\ opts' = opts
      /\ \A f \in Files : dir'[f] = IF f = out THEN Artefact ELSE dir[f]
  BY DEF Write, Go, request, SetFile
<1>2. DriverInv'
  BY <1>1 DEF IInv, DriverInv, Compiling
<1>3. PassesInv' /\ ModuleInv'
  BY <1>1, ModuleKept DEF Compiling
<1>4. OutInv'
  BY <1>1 DEF IInv, OutInv, Opened
<1>5. DirInv'
  <2>1. ASSUME NEW f \in Files, f # out
        PROVE  dir'[f] = Absent \/ (Complete(unit, dir'[f]) /\ Named(f, dir'[f]))
    BY <1>1, <2>1 DEF IInv, DirInv
  <2>2. out \in Files => dir'[out] = Artefact
    BY <1>1
  <2>3. QED
    BY <1>1, <2>1, <2>2, ArtefactComplete DEF DirInv
<1>6. QED
  BY <1>2, <1>3, <1>4, <1>5 DEF IInv

LEMMA KeepKeeps == IInv /\ Keep => IInv'
<1> SUFFICES ASSUME IInv, Keep PROVE IInv'
  OBVIOUS
<1>1. /\ pc = "written" /\ pc' = "kept" /\ out' = out /\ kept' = TRUE /\ dir' = dir
      /\ unit' = unit /\ module' = module /\ todo' = todo /\ status' = status
      /\ runs' = runs /\ opts' = opts
  BY DEF Keep, Go, request
<1>2. DriverInv'
  BY <1>1 DEF IInv, DriverInv, Compiling
<1>3. PassesInv' /\ ModuleInv'
  BY <1>1, ModuleKept DEF Compiling
<1>4. OutInv'
  BY <1>1 DEF IInv, OutInv, Opened
<1>5. DirInv'
  BY <1>1 DEF IInv, DirInv
<1>6. QED
  BY <1>2, <1>3, <1>4, <1>5 DEF IInv

-----------------------------------------------------------------------------
(* What holds of every run *)

LEMMA InitInv == Init => IInv
<1> SUFFICES ASSUME Init PROVE IInv
  OBVIOUS
<1>1. /\ unit \in Units /\ runs = 0 /\ pc = "shell" /\ opts = Defaults
      /\ out = NoFile /\ kept = FALSE /\ status = "idle"
      /\ \A f \in Files : dir[f] = Absent
  BY DEF Init
<1>2. DriverInv
  <2>1. 0 \in 0..MaxRuns
    <3>1. MaxRuns \in Nat
      BY UnitsAssumption
    <3>2. QED
      BY <3>1
  <2>2. QED
    BY <1>1, <2>1, DefaultsOption DEF DriverInv, Compiling
<1>3. PassesInv /\ ModuleInv /\ OutInv
  BY <1>1 DEF PassesInv, ModuleInv, OutInv, Compiling, Opened
<1>4. DirInv
  BY <1>1 DEF DirInv
<1>5. QED
  BY <1>2, <1>3, <1>4 DEF IInv

LEMMA StutterKeeps == IInv /\ UNCHANGED vars => IInv'
<1> SUFFICES ASSUME IInv, UNCHANGED vars PROVE IInv'
  OBVIOUS
<1>1. /\ unit' = unit /\ dir' = dir /\ runs' = runs /\ pc' = pc /\ opts' = opts
      /\ module' = module /\ todo' = todo /\ out' = out /\ kept' = kept
      /\ status' = status
  BY DEF vars
<1>2. Passes' = Passes /\ Ran' = Ran
  BY <1>1 DEF Passes, Ran
<1>3. DriverInv'
  BY <1>1 DEF IInv, DriverInv
<1>4. PassesInv' /\ ModuleInv'
  BY <1>1, <1>2 DEF IInv, PassesInv, ModuleInv
<1>5. OutInv' /\ DirInv'
  BY <1>1 DEF IInv, OutInv, DirInv
<1>6. QED
  BY <1>3, <1>4, <1>5 DEF IInv

LEMMA NextInv == IInv /\ [Next]_vars => IInv'
<1> SUFFICES ASSUME IInv, [Next]_vars PROVE IInv'
  OBVIOUS
<1>1. CASE Refuse \/ RefuseSpec \/ RefuseOutput \/ RefuseWrite
  BY <1>1, FailKeeps DEF Refuse, RefuseSpec, RefuseOutput, RefuseWrite
<1>2. CASE LoadMLIRFile \/ Parse \/ DumpAST \/ Bind \/ MLIRGen
  BY <1>2, LoadMLIRFileKeeps, ParseKeeps, DumpASTKeeps, BindKeeps, MLIRGenKeeps
<1>3. CASE RunPass \/ Translate \/ PrintMLIR
  BY <1>3, RunPassKeeps, TranslateKeeps, PrintMLIRKeeps
<1>4. CASE Open \/ Write \/ Keep
  BY <1>4, OpenKeeps, WriteKeeps, KeepKeeps
<1>5. QED
  BY <1>1, <1>2, <1>3, <1>4, InvokeKeeps, ExitKeeps, InterruptKeeps, StutterKeeps
     DEF Next

(* The inductive invariant holds through every invocation, its failures    *)
(* and its kills.                                                          *)
THEOREM IInvariant == Spec => []IInv
<1>1. QED
  BY InitInv, NextInv, PTL DEF Spec

(* Outputs go to files of the directory or to standard output, and only a  *)
(* file the invocation holds open is partial.                              *)
THEOREM TypeCorrect == Spec => []TypeOK
<1>1. IInv => TypeOK
  <2> SUFFICES ASSUME IInv PROVE TypeOK
    OBVIOUS
  <2>1. OutputPath(opts) \in Files \cup {Stdout} /\ OutputPath(opts) # NoFile
    BY OutputPlace DEF IInv, DriverInv
  <2>2. out \in Files \cup {Stdout, NoFile} /\ (out # NoFile <=> pc \in Opened)
    BY <2>1 DEF IInv, OutInv
  <2>3. \A f \in Files : dir[f] = Partial => f = out
    BY Artefacts DEF IInv, DirInv, Absent, Partial
  <2>4. QED
    BY <2>2, <2>3 DEF IInv, DriverInv, TypeOK, Compiling, Opened
<1>2. QED
  BY <1>1, IInvariant, PTL

(* No pass of applyLoweringPasses meets a construct it cannot deal with,   *)
(* and translation to LLVM IR only LLVM operations, whatever MLIRGen emits *)
(* and whichever dump a module is read back from.                          *)
THEOREM PipelinesLower == Spec => []PipelineComplete
<1>1. IInv => PipelineComplete
  <2> SUFFICES ASSUME IInv, pc = "passes"
               PROVE  IF todo # <<>> THEN module.ops \cap Rejects(Head(todo)) = {}
                      ELSE opts.emit # "mlir" => module.ops = {"llvm"}
    BY DEF PipelineComplete
  <2>1. opts \in Options /\ opts.emit # "ast" /\ pc \in Compiling
    BY DEF IInv, DriverInv, Compiling
  <2>2. /\ Passes \in Seq(PassNames) /\ Ran \in 0..Len(Passes)
        /\ todo = SubSeq(Passes, Ran + 1, Len(Passes))
        /\ \A i \in 1..Ran : module.ops \cap Cleared(Passes[i]) = {}
        /\ \A i \in 1..Ran : Passes[i] = "tollvm" => module.ops = {"llvm"}
    BY <2>1, PipelineOrdered DEF IInv, PassesInv, Passes
  <2>3. CASE todo # <<>>
    <3>1. PICK n : n = Ran + 1
      OBVIOUS
    <3>2. n \in 1..(Len(Passes) + 1) /\ todo = SubSeq(Passes, n, Len(Passes))
      BY <2>2, <3>1
    <3>3. n <= Len(Passes) /\ Head(todo) = Passes[n]
      BY <2>2, <2>3, <3>2, Suffix
    <3>4. ASSUME NEW c \in module.ops, c \in Rejects(Head(todo))
          PROVE  FALSE
      <4>1. n \in 1..Len(Passes) /\ c \in Rejects(Passes[n])
        BY <3>2, <3>3, <3>4
      <4>2. PICK j \in 1..(n - 1) : c \in Cleared(Passes[j])
        BY <2>1, <4>1, PipelineOrdered DEF Passes
      <4>3. j \in 1..Ran
        BY <2>2, <3>1, <4>1
      <4>4. QED
        BY <2>2, <3>4, <4>2, <4>3
    <3>5. QED
      BY <2>3, <3>4
  <2>4. CASE todo = <<>> /\ opts.emit # "mlir"
    <3>1. CASE opts.bind
      <4>1. module = BindModule(unit)
        BY <2>1, <3>1 DEF IInv, ModuleInv
      <4>2. QED
        BY <2>4, <4>1 DEF BindModule
    <3>2. CASE ~opts.bind
      <4>1. Ran = Len(Passes)
        <5>1. Len(todo) = 0
          BY <2>4
        <5>2. Len(Passes) \in Nat
          BY <2>2
        <5>3. QED
          BY <5>1, <5>2 DEF Ran
      <4>2. \E i \in 1..Len(Passes) : Passes[i] = "tollvm"
        BY <2>1, <2>4, <3>2, PipelineEnds DEF Passes
      <4>3. QED
        BY <2>2, <2>4, <4>1, <4>2
    <3>3. QED
      BY <2>1, <3>1, <3>2 DEF Options
  <2>5. QED
    BY <2>3, <2>4
<1>2. QED
  BY <1>1, IInvariant, PTL

(* Whatever invocations left them in the directory, the code of a unit     *)
(* provides what the bind module made from the unit calls, with the        *)
(* profile it is called with, and one main.                                *)
THEOREM BindLinks == Spec => []BoundProgramLinks
<1>1. ASSUME Bindable(unit), unit \in Units
      PROVE  /\ BindModule(unit).needs \subseteq Hoisted(unit)
             /\ \A p \in Hoisted(unit), q \in BindModule(unit).provides : p.name # q.name
  <2>0. PICK type, callee, body :
          /\ type = IF unit.item = "function body" THEN "i32" ELSE "void"
          /\ body = [name |-> Symbol("u"), params |-> FALSE, type |-> type]
          /\ callee = [name |-> LibraryLevelSymbol("u"), params |-> FALSE, type |-> type]
    OBVIOUS
  <2>1. /\ unit.item \in Bodies /\ ~unit.params /\ unit.params \in BOOLEAN
        /\ unit.item = "function body" => unit.returns = "integer"
        /\ unit.item = "procedure body" => unit.returns = "none"
    BY <1>1, UnitsAssumption DEF Bindable
  <2>2. MachineType(unit.returns) = type
    BY <2>0, <2>1 DEF MachineType, Bodies
  <2>3. Functions(unit) = {body}
    BY <2>0, <2>1, <2>2 DEF Functions, Generated, Subprogram
  <2>4. Hoisted(unit) = {callee}
    <3>1. Hoisted(unit) =
            {[name |-> IF f.name = Symbol("u") THEN LibraryLevelSymbol("u") ELSE f.name,
              params |-> f.params, type |-> f.type] : f \in Functions(unit)}
      BY DEF Hoisted, Renamed
    <3>2. /\ body.name = Symbol("u") /\ body.params = FALSE /\ body.type = type
      BY <2>0
    <3>3. Hoisted(unit) = {[name |-> LibraryLevelSymbol("u"), params |-> FALSE, type |-> type]}
      BY <2>3, <3>1, <3>2
    <3>4. QED
      BY <2>0, <3>3
  <2>5. BindModule(unit).needs = {callee}
    BY <2>0 DEF BindModule
  <2>6. LibraryLevelSymbol("u") # Symbol("main")
    BY DEF LibraryLevelSymbol, Symbol
  <2>7. \A q \in BindModule(unit).provides : q.name = Symbol("main")
    BY DEF BindModule
  <2>8. \A p \in Hoisted(unit) : p.name = LibraryLevelSymbol("u")
    <3>1. callee.name = LibraryLevelSymbol("u")
      BY <2>0
    <3>2. QED
      BY <2>4, <3>1
  <2>9. QED
    BY <2>4, <2>5, <2>6, <2>7, <2>8
<1>2. IInv => BoundProgramLinks
  <2> SUFFICES ASSUME IInv, NEW f \in Files, NEW g \in Files,
                      Linkable(dir[f]), ~dir[f].main, Linkable(dir[g]), dir[g].main
               PROVE  /\ dir[g].module.needs \subseteq dir[f].module.provides
                      /\ \A p \in dir[f].module.provides, q \in dir[g].module.provides :
                           p.name # q.name
    BY DEF BoundProgramLinks
  <2>1. \A h \in {f, g} : Complete(unit, dir[h]) \/ dir[h] \in {Absent, Partial}
    BY DEF IInv, DirInv
  <2>2. Complete(unit, dir[f]) /\ Complete(unit, dir[g])
    BY <2>1 DEF Linkable
  <2>3. dir[f].form \in {"llvm", "obj", "asm"}
    BY DEF Linkable
  <2>4. dir[f].module = Code(dir[f].module.ops, Hoisted(unit), {})
    BY <2>2, <2>3 DEF Complete
  <2>5. /\ Bindable(unit)
        /\ dir[g].module = Code(dir[g].module.ops, BindModule(unit).provides,
                                BindModule(unit).needs)
    BY <2>2 DEF Complete
  <2>6. /\ dir[f].module.provides = Hoisted(unit)
        /\ dir[g].module.provides = BindModule(unit).provides
        /\ dir[g].module.needs = BindModule(unit).needs
    BY <2>4, <2>5 DEF Code
  <2>7. unit \in Units
    BY DEF IInv, DriverInv
  <2>8. QED
    BY <1>1, <2>5, <2>6, <2>7
<1>3. QED
  BY <1>2, IInvariant, PTL

-----------------------------------------------------------------------------
(* The directory seen from outside *)

LEMMA KindOf ==
  /\ Kind(Absent) = Absent
  /\ \A u, a : Complete(u, a) => Kind(a) = [form |-> a.form, main |-> a.main]
BY Artefacts DEF Kind

(* Nothing is asked, opened or replaced.                                   *)
LEMMA Unseen ==
  ASSUME out' = out, opts' = opts, Progress' = Progress,
         \A f \in Files : f # out => dir'[f] = dir[f]
  PROVE  UNCHANGED Build!vars
<1>1. View' = View
  BY DEF View
<1>2. Asked' = Asked
  BY DEF Asked
<1>3. QED
  BY <1>1, <1>2 DEF Build!vars

LEMMA RequestAsked == IInv => Asked \in Build!Requests
BY DEF IInv, DriverInv, Options, Asked, Build!Requests, Files

LEMMA RequestAskedNext == IInv' => Asked' \in Build!Requests
BY DEF IInv, DriverInv, Options, Asked, Build!Requests, Files

(* An invocation that does not succeed leaves the directory as it was, but *)
(* for the file it had open.                                               *)
LEMMA StopRefines ==
  ASSUME IInv, IInv', NEW how \in {"failed", "killed"}, Return(how), pc # "shell",
         \A f \in Files : dir'[f] = IF f = out THEN Absent ELSE dir[f]
  PROVE  Build!Stop(how)
<1>1. pc' = "shell" /\ status' = how /\ out' = NoFile
  BY DEF Return
<1>2. View' = View
  BY <1>1, OutputPlace, DefaultsOption, KindOf DEF View
<1>3. Progress = "running" /\ Progress' = how
  BY <1>1 DEF Progress
<1>4. Asked' \in Build!Requests
  BY RequestAskedNext
<1>5. QED
  BY <1>1, <1>2, <1>3, <1>4 DEF Build!Stop

LEMMA DiscardEmpties ==
  ASSUME IInv, Discard, pc # "kept"
  PROVE  \A f \in Files : dir'[f] = IF f = out THEN Absent ELSE dir[f]
<1>1. ~kept
  BY DEF IInv, DriverInv
<1>2. QED
  BY <1>1, OutputPlace, DefaultsOption DEF Discard, SetFile

LEMMA FailRefines ==
  ASSUME IInv, IInv', Fail, pc \notin {"shell", "kept"}
  PROVE  Build!Next
BY DiscardEmpties, StopRefines DEF Fail, Build!Next

LEMMA InterruptRefines == IInv /\ IInv' /\ Interrupt => Build!Next
<1> SUFFICES ASSUME IInv, IInv', Interrupt PROVE Build!Next
  OBVIOUS
<1>1. \A f \in Files : dir'[f] = IF f = out THEN Absent ELSE dir[f]
  BY OutputPlace, DefaultsOption DEF Interrupt, SetFile
<1>2. QED
  BY <1>1, StopRefines DEF Interrupt, Build!Next

LEMMA InvokeRefines == IInv /\ IInv' /\ Invoke => Build!Next
<1> SUFFICES ASSUME IInv, IInv', Invoke PROVE Build!Invoke
  BY DEF Build!Next
<1>1. pc = "shell" /\ pc' = "options" /\ dir' = dir /\ out' = out /\ out = NoFile
      /\ status \in {"idle", "succeeded", "failed", "killed"}
  BY DEF Invoke, Go, IInv, OutInv, DriverInv, Opened
<1>2. View' = View
  BY <1>1 DEF View
<1>3. Progress = status /\ Progress' = "running"
  BY <1>1 DEF Progress
<1>4. Asked' \in Build!Requests
  BY RequestAskedNext
<1>5. QED
  BY <1>1, <1>2, <1>3, <1>4 DEF Build!Invoke

(* What Open replaces was asked for by name, or is an earlier output of    *)
(* the same kind: the b_ prefix and the extension tell them apart.         *)
LEMMA OpenRefines == IInv /\ Open => Build!Next
<1> SUFFICES ASSUME IInv, Open PROVE Build!Next
  OBVIOUS
<1> DEFINE p == OutputPath(opts)
<1>1. /\ pc = "output" /\ pc' = "writing" /\ out' = p /\ opts' = opts /\ out = NoFile
      /\ \A f \in Files : dir'[f] = IF f = p THEN Partial ELSE dir[f]
  BY DEF Open, Go, request, SetFile, IInv, OutInv, Opened
<1>2. opts \in Options
  BY DEF IInv, DriverInv
<1>3. p \in Files \cup {Stdout} /\ NoFile \notin Files
  BY <1>2, OutputPlace
<1>4. \A f \in Files : View[f] = Kind(dir[f])
  BY <1>1, <1>3 DEF View
<1>5. View' = [f \in Files |-> IF f = p THEN Absent ELSE View[f]]
  BY <1>1, <1>4 DEF View
<1>6. ASSUME opts.o = NoFile, p \in Files
      PROVE  View[p] \in {Absent, [form |-> opts.emit, main |-> opts.bind]}
  <2>1. /\ p # Text /\ opts.emit \in MachineCode /\ p[3] = Extension(opts.emit)
        /\ p[1] = IF opts.bind THEN "b_" ELSE ""
    BY <1>2, <1>6, OutputPlace
  <2>2. CASE dir[p] = Absent
    BY <1>4, <1>6, <2>2, KindOf
  <2>3. CASE dir[p] # Absent
    <3>1. Complete(unit, dir[p]) /\ Named(p, dir[p])
      BY <1>1, <1>6, <2>3 DEF IInv, DirInv
    <3>2. /\ dir[p].form \in MachineCode /\ p[3] = Extension(dir[p].form)
          /\ p[1] = IF dir[p].main THEN "b_" ELSE ""
      BY <2>1, <3>1 DEF Named
    <3>3. dir[p].form = opts.emit
      <4>1. \A x, y \in MachineCode : Extension(x) = Extension(y) => x = y
        BY DEF MachineCode, Extension
      <4>2. QED
        BY <2>1, <3>2, <4>1
    <3>4. dir[p].main = opts.bind
      <4>1. dir[p].main \in BOOLEAN /\ opts.bind \in BOOLEAN
        BY <1>2, <3>1 DEF Complete, Options
      <4>2. \A x, y \in BOOLEAN :
              (IF x THEN "b_" ELSE "") = (IF y THEN "b_" ELSE "") => x = y
        OBVIOUS
      <4>3. QED
        BY <2>1, <3>2, <4>1, <4>2
    <3>5. View[p] = [form |-> opts.emit, main |-> opts.bind]
      BY <1>4, <1>6, <3>1, <3>3, <3>4, KindOf
    <3>6. QED
      BY <3>5
  <2>4. QED
    BY <2>2, <2>3
<1>7. Build!MayReplace(p)
  <2>1. CASE opts.o = NoFile
    <3>1. Asked.name = NoFile
      BY <2>1 DEF Asked
    <3>2. Build!Output(Asked) = [form |-> opts.emit, main |-> opts.bind]
      BY DEF Asked, Build!Output
    <3>3. QED
      BY <1>6, <2>1, <3>1, <3>2 DEF Build!MayReplace
  <2>2. CASE opts.o # NoFile
    <3>1. Asked.name = opts.o /\ p = opts.o
      BY <1>2, <2>2, OutputPlace DEF Asked
    <3>2. QED
      BY <2>2, <3>1 DEF Build!MayReplace
  <2>3. QED
    BY <2>1, <2>2
<1>8. Progress = "running" /\ Progress' = "running" /\ Asked' = Asked
  BY <1>1 DEF Progress, Asked
<1>9. Build!Begin(p)
  BY <1>1, <1>5, <1>7, <1>8 DEF Build!Begin
<1>10. QED
  BY <1>3, <1>9 DEF Build!Next

LEMMA ExitRefines == IInv /\ IInv' /\ Exit => Build!Next
<1> SUFFICES ASSUME IInv, IInv', Exit PROVE Build!Succeed
  BY DEF Build!Next
<1>1. /\ pc = "kept" /\ pc' = "shell" /\ status' = "succeeded" /\ dir' = dir
      /\ out' = NoFile
  BY DEF Exit, Return
<1>2. out = OutputPath(opts) /\ opts \in Options /\ out # NoFile /\ NoFile \notin Files
  BY <1>1, OutputPlace DEF IInv, OutInv, DriverInv, Opened
<1>3. Build!Output(Asked) = [form |-> opts.emit, main |-> opts.bind]
  BY DEF Asked, Build!Output
<1>4. out \in Files => Kind(dir[out]) = Build!Output(Asked)
  BY <1>1, <1>3, KindOf DEF IInv, DirInv
<1>5. View' = [f \in Files |-> IF f = out THEN Build!Output(Asked) ELSE View[f]]
  <2>1. ASSUME NEW f \in Files
        PROVE  (IF f = out' THEN Absent ELSE Kind(dir'[f]))
                 = IF f = out THEN Build!Output(Asked) ELSE View[f]
    BY <1>1, <1>2, <1>4 DEF View
  <2>2. QED
    BY <2>1 DEF View
<1>6. Progress = "running" /\ Progress' = "succeeded"
  BY <1>1 DEF Progress
<1>7. Asked' \in Build!Requests
  BY RequestAskedNext
<1>8. QED
  BY <1>1, <1>2, <1>5, <1>6, <1>7 DEF Build!Succeed

(* The other steps work in memory, or on the file that is open.            *)
LEMMA WorkUnseen ==
  ASSUME ~Fail,
         LoadMLIRFile \/ Parse \/ DumpAST \/ Bind \/ MLIRGen \/ RunPass \/ Translate
           \/ PrintMLIR \/ Write \/ Keep
  PROVE  UNCHANGED Build!vars
<1>1. /\ out' = out /\ opts' = opts /\ pc # "shell" /\ pc' # "shell"
      /\ \A f \in Files : f # out => dir'[f] = dir[f]
  <2>1. CASE LoadMLIRFile \/ Bind \/ MLIRGen
    BY <2>1 DEF LoadMLIRFile, Bind, MLIRGen, Load, Go, request
  <2>2. CASE Parse \/ DumpAST \/ RunPass \/ Translate \/ PrintMLIR
    BY <2>2 DEF Parse, DumpAST, RunPass, Translate, PrintMLIR, Go, request
  <2>3. CASE Write \/ Keep
    BY <2>3 DEF Write, Keep, SetFile, Go, request
  <2>4. QED
    BY <2>1, <2>2, <2>3
<1>2. Progress' = Progress
  BY <1>1 DEF Progress
<1>3. QED
  BY <1>1, <1>2, Unseen

(* An invocation that succeeds leaves its output, complete, where it was   *)
(* asked for; one that fails or is killed at any step leaves what was      *)
(* there or nothing; and no bind replaces the unit's own object.           *)
THEOREM KeepsBuildDirectory == Spec => ImplementsBuildDirectory
<1>1. Init => Build!Init
  <2> SUFFICES ASSUME Init PROVE Build!Init
    OBVIOUS
  <2>1. pc = "shell" /\ status = "idle" /\ out = NoFile /\ dir = [f \in Files |-> Absent]
    BY DEF Init
  <2>2. View = [f \in Files |-> Absent]
    BY <2>1, KindOf DEF View
  <2>3. Asked \in Build!Requests
    BY InitInv, RequestAsked
  <2>4. Progress = "idle"
    BY <2>1 DEF Progress
  <2>5. QED
    BY <2>1, <2>2, <2>3, <2>4 DEF Build!Init
<1>2. IInv /\ IInv' /\ [Next]_vars => [Build!Next]_Build!vars
  <2> SUFFICES ASSUME IInv, IInv', [Next]_vars PROVE [Build!Next]_Build!vars
    OBVIOUS
  <2>1. CASE Fail /\ pc \notin {"shell", "kept"}
    BY <2>1, FailRefines
  <2>2. CASE ~Fail /\ (LoadMLIRFile \/ Parse \/ DumpAST \/ Bind \/ MLIRGen \/ RunPass
                         \/ Translate \/ PrintMLIR \/ Write \/ Keep)
    BY <2>2, WorkUnseen
  <2>3. CASE Refuse \/ RefuseSpec \/ RefuseOutput \/ RefuseWrite
    BY <2>3, FailRefines DEF Refuse, RefuseSpec, RefuseOutput, RefuseWrite
  <2>4. CASE LoadMLIRFile \/ Parse \/ DumpAST \/ Bind \/ MLIRGen \/ RunPass
               \/ Translate \/ PrintMLIR \/ Write \/ Keep
    <3>1. pc \notin {"shell", "kept"}
      BY <2>4 DEF LoadMLIRFile, Parse, DumpAST, Bind, MLIRGen, RunPass, Translate,
                  PrintMLIR, Write, Keep
    <3>2. QED
      BY <2>1, <2>2, <2>4, <3>1
  <2>5. CASE UNCHANGED vars
    <3>1. out' = out /\ opts' = opts /\ dir' = dir /\ Progress' = Progress
      BY <2>5 DEF vars, Progress
    <3>2. QED
      BY <3>1, Unseen
  <2>6. QED
    BY <2>3, <2>4, <2>5, InvokeRefines, OpenRefines, ExitRefines, InterruptRefines
       DEF Next
<1>3. QED
  BY <1>1, <1>2, IInvariant, PTL DEF Spec, ImplementsBuildDirectory, Build!Spec
=============================================================================
