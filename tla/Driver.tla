------------------------------- MODULE Driver -------------------------------
(***************************************************************************)
(* lalvm.cpp: one invocation of the compiler after the other in a          *)
(* directory, from the options to the exit status, and the bind module of  *)
(* mlir/Binder.cpp.  A module of the compiler is the set of constructs it  *)
(* contains, the functions it provides and those it needs; a pass is what  *)
(* it does to these.                                                       *)
(*                                                                         *)
(* Every step may fail, for reasons of the unit, the project or the        *)
(* machine, and the process may be killed at any moment.                   *)
(***************************************************************************)
EXTENDS Naturals, Sequences, FiniteSets

CONSTANTS Units,       \* compilation units; see UnitsAssumption
          Emitted,     \* the sets of constructs MLIRGen may emit for one
          MaxRuns      \* a bound on the invocations

Actions == {"ast", "mlir", "llvm", "obj", "asm"}
MachineCode == {"obj", "asm"}
Bodies == {"procedure body", "function body"}
Specs == {"package spec", "subprogram spec", "spec"}
Constructs == {"nested", "capture", "localtype", "subp", "writable", "object",
               "index", "convert", "scf"}

ASSUME UnitsAssumption ==
  /\ \A u \in Units : /\ u.item \in Bodies \cup Specs \cup {"package body", "list"}
                      /\ u.params \in BOOLEAN
                      /\ u.returns \in {"none", "integer", "other"}
                      /\ u.item = "procedure body" => u.returns = "none"
                      /\ u.item = "function body" => u.returns # "none"
  /\ Emitted \subseteq SUBSET Constructs
  /\ MaxRuns \in Nat

None == "none"       \* no option

(* The name of a file is what these three make put together; that of an    *)
(* output that is not asked for is empty.                                  *)
FileName(prefix, stem, extension) == <<prefix, stem, extension>>

NoFile == FileName("", "", "")
Stdin == FileName("", "-", "")
Stdout == Stdin
Source == FileName("", "u", ".adb")   \* the file of the unit
Text == FileName("", "u", ".mlir")    \* a file an output may be named
Inputs == {Source, Text, Stdin}

(* An invocation's options.  -P matters here only with standard input, and  *)
(* -x where it says otherwise than the file's name.                         *)
Options ==
  {o \in [input : Inputs, x : {None, "Ada", "MLIR"}, project : BOOLEAN,
          emit : Actions, bind : BOOLEAN, level : {0, 1}, o : {NoFile, Stdout, Text}] :
     /\ o.project => o.input = Stdin
     /\ o.x # (IF o.input = Text THEN "MLIR" ELSE "Ada")}

Defaults ==
  [input |-> Stdin, x |-> None, project |-> FALSE, emit |-> "obj", bind |-> FALSE,
   level |-> 0, o |-> NoFile]

VARIABLES unit,      \* the unit in the source file and on standard input
          dir,       \* the files of the directory
          runs,      \* invocations so far
          pc,        \* "shell" between two of them
          opts,      \* the options of this one
          module,    \* its module
          todo,      \* the passes still to run on it
          out,       \* the output file it holds open
          kept,      \* whether that is to stay
          status     \* how the last one ended

vars == <<unit, dir, runs, pc, opts, module, todo, out, kept, status>>
request == <<unit, runs, opts>>

Absent == [form |-> "absent"]
Partial == [form |-> "partial"]
Nothing == [ops |-> {}, provides |-> {}, needs |-> {}]

---------------------------------------------------------------------------
(* Names of files.                                                         *)

(* Mutant: standard input gives its own name.                              *)
MutantStem(input) == IF input = Stdin THEN "-" ELSE "u"
Stem(input) == IF input = Stdin THEN "a" ELSE "u"

Extension(emit) == IF emit = "obj" THEN ".o" ELSE ".s"
Files == ({"", "b_"} \X {"u", "a"} \X {".o", ".s"}) \cup {Text}

(* Text goes to standard output and machine code to a file named after the *)
(* input, unless -o is given.                                              *)
OutputPath(o) ==
  IF o.o # NoFile THEN o.o
  ELSE IF o.emit \notin MachineCode THEN Stdout
  ELSE FileName(IF o.bind THEN "b_" ELSE "", Stem(o.input), Extension(o.emit))

(* What standard input brings depends on what is asked to be read.         *)
IsMLIRInput(o) == IF o.x # None THEN o.x = "MLIR" ELSE o.input = Text

---------------------------------------------------------------------------
(* The unit, its code and its main program.                                *)

(* A symbol is a prefix and a name.                                        *)
Symbol(name) == <<"", name>>
LibraryLevelSymbol(name) == <<"_ada_", name>>

MachineType(returns) ==
  CASE returns = "none" -> "void" [] returns = "integer" -> "i32" [] OTHER -> "other"

(* SubpOp of the unit; hoisting gives it the ABI name.                     *)
Subprogram(u) == [name |-> Symbol("u"), params |-> u.params, type |-> MachineType(u.returns)]

Generated(u, ops) ==
  [ops |-> ops, needs |-> {},
   provides |-> IF u.item \in Bodies THEN {Subprogram(u)} ELSE {}]

(* Mutant: any function can be the main subprogram.                        *)
MutantBindable(u) == u.item \in Bodies /\ ~u.params

(* describeProgram: a single unit, not a specification, the body of a      *)
(* subprogram, without parameters, returning nothing or Standard.Integer.  *)
Bindable(u) ==
  /\ u.item \in Bodies
  /\ ~u.params
  /\ u.item = "function body" => u.returns = "integer"

(* emitBindModule.                                                         *)
BindModule(u) ==
  [ops |-> {"llvm"},
   provides |-> {[name |-> Symbol("main"), params |-> TRUE, type |-> "i32"]},
   needs |-> {[name |-> LibraryLevelSymbol("u"), params |-> FALSE,
               type |-> IF u.item = "function body" THEN "i32" ELSE "void"]}]

---------------------------------------------------------------------------
(* The passes.                                                             *)

Promotion == <<"mem2reg", "canonicalize">>

(* Mutant: storage is chosen before the operations on it are in place.     *)
MutantLowering(level) ==
  <<"closure", "hoist", "references", "calls", "indexing", "conversions">> \o
  IF level >= 1 THEN Promotion ELSE <<>>

(* applyLoweringPasses, up to the lowering of references.                  *)
Lowering(level) ==
  <<"closure", "hoist", "calls", "indexing", "conversions">> \o
  (IF level >= 1 THEN Promotion ELSE <<>>) \o <<"references">>

MLIRPasses(level) == IF level >= 1 THEN Promotion ELSE <<>>

(* The passes that attach debug information leave the code alone.          *)
Pipeline(o) ==
  CASE o.emit = "mlir" -> MLIRPasses(o.level)
    [] o.emit # "mlir" /\ o.bind -> <<>>
    [] OTHER -> Lowering(o.level) \o MLIRPasses(o.level) \o <<"tollvm">>

(* Constructs a pass refuses or has no way to deal with.                   *)
Rejects(pass) ==
  CASE pass = "hoist" -> {"nested"}                  \* ada.decls not empty
    [] pass = "calls" -> {"nested", "capture"}       \* func.func is isolated
    [] pass = "references" -> {"subp"}               \* illegal, no pattern
    [] pass = "tollvm" -> {"nested", "capture", "localtype", "subp", "object",
                           "index", "convert"}
    [] OTHER -> {}

(* What a pass makes of a set of constructs.  Promotion may succeed for all *)
(* objects or for some.                                                     *)
Rewritten(pass, ops) ==
  CASE pass = "closure" -> {ops \ {"nested", "capture"}}
    [] pass = "hoist" -> {ops \ {"localtype"}}
    [] pass = "calls" ->
         {(ops \ {"subp", "writable"}) \cup (IF "subp" \in ops THEN {"func"} ELSE {})
            \cup (IF "writable" \in ops THEN {"object", "convert"} ELSE {})}
    [] pass = "indexing" ->
         {IF "index" \in ops THEN (ops \ {"index"}) \cup {"offset"} ELSE ops}
    [] pass = "conversions" -> {ops \ {"convert"}}
    [] pass = "mem2reg" -> {ops, ops \ {"object"}, ops \ {"memref"}}
    [] pass = "canonicalize" -> {ops}
    [] pass = "references" ->
         {IF "object" \in ops THEN (ops \ {"object"}) \cup {"memref"} ELSE ops}
    [] pass = "tollvm" -> {{"llvm"}}

(* Hoisting renames every subprogram.                                      *)
Renamed(pass, functions) ==
  IF pass = "hoist"
  THEN {[name |-> IF f.name = Symbol("u") THEN LibraryLevelSymbol("u") ELSE f.name,
         params |-> f.params, type |-> f.type] : f \in functions}
  ELSE functions

---------------------------------------------------------------------------
(* Output files, of LLVM's and MLIR's support libraries.  A file opened for *)
(* writing is emptied; it goes when it is closed, unless kept, and at       *)
(* signals.                                                                 *)

SetFile(p, artefact) == dir' = [f \in Files |-> IF f = p THEN artefact ELSE dir[f]]

Discard == IF out = NoFile \/ kept THEN UNCHANGED dir ELSE SetFile(out, Absent)

Return(how) ==
  /\ pc' = "shell" /\ status' = how
  /\ opts' = Defaults /\ module' = Nothing /\ todo' = <<>>
  /\ out' = NoFile /\ kept' = FALSE
  /\ UNCHANGED <<unit, runs>>

(* Every failure prints a diagnostic and returns 1 from main.              *)
Fail == Discard /\ Return("failed")

Go(label) == pc' = label

---------------------------------------------------------------------------
Init ==
  /\ unit \in Units
  /\ dir = [f \in Files |-> Absent]
  /\ runs = 0 /\ pc = "shell" /\ opts = Defaults
  /\ module = Nothing /\ todo = <<>> /\ out = NoFile /\ kept = FALSE
  /\ status = "idle"

Invoke ==
  /\ pc = "shell" /\ runs < MaxRuns
  /\ opts' \in Options
  /\ runs' = runs + 1 /\ Go("options")
  /\ UNCHANGED <<unit, dir, module, todo, out, kept, status>>

(* Combinations main refuses before it reads anything.                     *)
Refused(o) ==
  \/ ~IsMLIRInput(o) /\ o.input = Stdin /\ o.project
  \/ o.emit = "ast" /\ (IsMLIRInput(o) \/ o.bind)
  \/ o.bind /\ IsMLIRInput(o)

Refuse == pc = "options" /\ Refused(opts) /\ Fail

Load(m, next) ==
  /\ module' = m /\ todo' = next /\ Go("passes")
  /\ UNCHANGED <<dir, out, kept, status>> /\ UNCHANGED request

(* loadMLIRFile, of a file an earlier invocation wrote or received by       *)
(* standard input.  The context knows the dialects MLIRGen emits, and not   *)
(* that of the bind module.                                                 *)
Readable(artefact) == artefact.form = "mlir" /\ "llvm" \notin artefact.module.ops

LoadMLIRFile ==
  /\ pc = "options" /\ ~Refused(opts) /\ IsMLIRInput(opts)
  /\ IF opts.input # Source /\ Readable(dir[Text])
     THEN Load(dir[Text].module, Pipeline(opts))
     ELSE Fail

(* AdaAST: the project, the file, and emitParserDiagnostics.               *)
Parse ==
  /\ pc = "options" /\ ~Refused(opts) /\ ~IsMLIRInput(opts)
  /\ \/ Fail
     \/ /\ opts.input # Text
        /\ Go("parsed")
        /\ UNCHANGED <<dir, module, todo, out, kept, status>> /\ UNCHANGED request

DumpAST ==
  /\ pc = "parsed" /\ opts.emit = "ast"
  /\ Go("output")
  /\ UNCHANGED <<dir, module, todo, out, kept, status>> /\ UNCHANGED request

Bind ==
  /\ pc = "parsed" /\ opts.emit # "ast" /\ opts.bind
  /\ IF Bindable(unit) THEN Load(BindModule(unit), Pipeline(opts)) ELSE Fail

RefuseSpec ==
  /\ pc = "parsed" /\ ~opts.bind
  /\ opts.emit \in MachineCode /\ unit.item \in Specs
  /\ Fail

(* mlirGen fails on what it does not support and on a module that does not *)
(* verify.                                                                 *)
MLIRGen ==
  /\ pc = "parsed" /\ opts.emit # "ast" /\ ~opts.bind
  /\ ~(opts.emit \in MachineCode /\ unit.item \in Specs)
  /\ \/ Fail
     \/ \E ops \in Emitted : Load(Generated(unit, ops), Pipeline(opts))

(* A pass fails on what it rejects, and on defects of the unit: captures    *)
(* that cannot be handed on, types that do not resolve.                     *)
RunPass ==
  /\ pc = "passes" /\ todo # <<>>
  /\ LET pass == Head(todo) IN
     \/ Fail
     \/ /\ module.ops \cap Rejects(pass) = {}
        /\ \E ops \in Rewritten(pass, module.ops) :
             module' = [ops |-> ops, needs |-> module.needs,
                        provides |-> Renamed(pass, module.provides)]
        /\ todo' = Tail(todo)
        /\ UNCHANGED <<dir, pc, out, kept, status>> /\ UNCHANGED request

(* translateModuleToLLVMIR, the target and its machine.                    *)
Translate ==
  /\ pc = "passes" /\ todo = <<>> /\ opts.emit # "mlir"
  /\ \/ Fail
     \/ /\ module.ops \subseteq {"llvm"}
        /\ Go("output")
        /\ UNCHANGED <<dir, module, todo, out, kept, status>> /\ UNCHANGED request

PrintMLIR ==
  /\ pc = "passes" /\ todo = <<>> /\ opts.emit = "mlir"
  /\ Go("output")
  /\ UNCHANGED <<dir, module, todo, out, kept, status>> /\ UNCHANGED request

(* Mutant: the file is kept from the start.                                *)
MutantOpen ==
  /\ pc = "output"
  /\ out' = OutputPath(opts) /\ kept' = TRUE
  /\ SetFile(out', Partial)
  /\ Go("writing")
  /\ UNCHANGED <<module, todo, status>> /\ UNCHANGED request

Open ==
  /\ pc = "output"
  /\ out' = OutputPath(opts) /\ kept' = FALSE
  /\ SetFile(out', Partial)
  /\ Go("writing")
  /\ UNCHANGED <<module, todo, status>> /\ UNCHANGED request

(* The file cannot be opened, or an object file would go to a terminal.    *)
RefuseOutput == pc = "output" /\ Fail

Artefact ==
  [form |-> opts.emit, main |-> opts.bind,
   module |-> CASE opts.emit = "ast" -> Nothing
                [] opts.emit = "mlir" -> module
                [] OTHER -> [ops |-> {}, provides |-> module.provides,
                             needs |-> module.needs]]

Write ==
  /\ pc = "writing"
  /\ SetFile(out, Artefact)
  /\ Go("written")
  /\ UNCHANGED <<module, todo, out, kept, status>> /\ UNCHANGED request

(* The target has no such files; or the output could not be written, which *)
(* ends the process.                                                       *)
RefuseWrite == pc \in {"writing", "written"} /\ Fail

Keep ==
  /\ pc = "written"
  /\ kept' = TRUE /\ Go("kept")
  /\ UNCHANGED <<dir, module, todo, out, status>> /\ UNCHANGED request

Exit == pc = "kept" /\ UNCHANGED dir /\ Return("succeeded")

(* The handlers of InitLLVM remove the output as long as it is open.       *)
Interrupt ==
  /\ pc # "shell"
  /\ IF out = NoFile THEN UNCHANGED dir ELSE SetFile(out, Absent)
  /\ Return("killed")

Next ==
  \/ Invoke \/ Refuse \/ LoadMLIRFile \/ Parse \/ DumpAST \/ Bind \/ RefuseSpec
  \/ MLIRGen \/ RunPass \/ Translate \/ PrintMLIR \/ Open \/ RefuseOutput
  \/ Write \/ RefuseWrite \/ Keep \/ Exit \/ Interrupt

Spec == Init /\ [][Next]_vars

---------------------------------------------------------------------------
(* The driver's state is well formed: outputs go to files of the directory *)
(* or standard output, and only a file held open is partial.               *)
TypeOK ==
  /\ unit \in Units /\ runs \in 0 .. MaxRuns /\ opts \in Options
  /\ pc \in {"shell", "options", "parsed", "passes", "output", "writing", "written", "kept"}
  /\ out \in Files \cup {Stdout, NoFile} /\ kept \in BOOLEAN
  /\ out # NoFile <=> pc \in {"writing", "written", "kept"}
  /\ \A f \in Files : dir[f] = Partial => f = out
  /\ status \in {"idle", "succeeded", "failed", "killed"}

(* The pipeline of each action lowers whatever MLIRGen emits, read from    *)
(* source or from a dump of any level, before or after promotion: no pass  *)
(* meets a construct it cannot deal with, and translation to LLVM IR only  *)
(* LLVM operations.                                                        *)
PipelineComplete ==
  pc = "passes" =>
    IF todo # <<>> THEN module.ops \cap Rejects(Head(todo)) = {}
    ELSE opts.emit # "mlir" => module.ops = {"llvm"}

(* An invocation that succeeds leaves its complete output, and a bind      *)
(* never replaces the unit's own object (the b_ prefix); one that fails or *)
(* is killed, at whatever step, leaves an earlier output alone or removes  *)
(* it, and never leaves part of one.                                       *)
Kind(artefact) ==
  IF artefact \in {Absent, Partial} THEN artefact
  ELSE [form |-> artefact.form, main |-> artefact.main]

View == [f \in Files |-> IF f = out THEN Absent ELSE Kind(dir[f])]
Asked == [form |-> opts.emit, main |-> opts.bind, name |-> opts.o]
Progress == IF pc = "shell" THEN status ELSE "running"

Build ==
  INSTANCE BuildDirectory WITH
    dir <- View, request <- Asked, place <- out, status <- Progress,
    Forms <- Actions, NoName <- NoFile

ImplementsBuildDirectory == Build!Spec

(* "Compile the unit, bind it, then link both" (README): whatever          *)
(* invocations made them, code of the unit and of its main link, main      *)
(* calls a function the unit provides, with the profile it is called with, *)
(* and the program has one main.                                           *)
Linkable(artefact) ==
  artefact \notin {Absent, Partial} /\ artefact.form \in {"llvm", "obj", "asm"}

BoundProgramLinks ==
  \A f, g \in Files :
    (/\ Linkable(dir[f]) /\ ~dir[f].main /\ Linkable(dir[g]) /\ dir[g].main) =>
       /\ dir[g].module.needs \subseteq dir[f].module.provides
       /\ \A p \in dir[f].module.provides, q \in dir[g].module.provides : p.name # q.name
=============================================================================
