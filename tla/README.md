# A verification of lalvm in TLA+

lalvm compiles Ada to machine code: Libadalang parses a unit and resolves its
names, `MLIRGen` walks the tree and emits operations of an MLIR dialect named
`ada`, a pipeline of passes lowers them, LLVM does the rest.  The compiler is
sequential.  What is hard in it is order: of evaluation against association,
of a rename against the names still to be renamed, of a check against the
change of representation it guards, of a block's erasure against the last use
of it.  What it compiles *to* does run: with several activations of one
subprogram alive, with checks that fail half way, with loops that must end.
The modules here model both.

All properties are stated against the code, at the commit of this repository;
paths below are relative to `src/`.

## Inventory

| Part | Code | State | Operations | Meets |
|---|---|---|---|---|
| Calls | `mlir/MLIRGen.cpp` 1297-1445, `mlir/LowerAdaCalls.cpp`, `mlir/Dialect.cpp` (verifiers of `ada.subp`, `ada.call`) | actuals, the vectors of a call op, the callee's objects, the caller's store | evaluate an association, call, bind formals, return, copy one actual back | conversions (checks of actuals), closure conversion (captures are the last inputs) |
| Closure conversion | `mlir/ClosureConversion.cpp` | the list of subprograms innermost first, the region of each, captures | isolate a body, rewrite its calls, refuse, hoist | naming (adds inputs), calls |
| Symbols | `MLIRGen.cpp` 269-329, `Dialect.cpp` 1284-1346, `mlir/HoistNestedSymbolOperations.cpp` | symbols, scope stack, recorded type scopes | declare, make unique, collect, rename, move | closure conversion (between uniquing and mangling) |
| Scalars | `MLIRGen.cpp` 620-1201, `mlir/LowerAdaConversions.cpp`, `mlir/LowerAdaIndexing.cpp`, `mlir/LowerToLLVM.cpp` | a value's type, word, and whether it is a known constant | operators, comparisons, conversions, index checks | every check of calls and assignments is a conversion |
| Statements | `MLIRGen.cpp` 365-498, 2706-3466 | insertion block, blocks of the region, loop stack, label blocks, labels without an anchor | one handler per statement | for loops (scalars), nested bodies |
| Declarations and objects | `MLIRGen.cpp` 539-601, 1600-1664, 1976-2942 | objects, types, range descriptors, the open `ada.decls` | declare, elaborate a range, read, write | statements, promotion, debug information |
| Promotion, canonicalisation | `Dialect.cpp` 440-975 | operations of a block | forward a write, erase a write, promote a slot | conversions (`ada.requalify`) |
| References | `mlir/LowerAdaReferences.cpp` | none | one-to-one rewriting to `memref` | promotion |
| Driver | `lalvm.cpp` | action, module, output file | refuse, load, run passes, write | everything |
| Binder | `mlir/Binder.cpp` | none | build the main program | driver |
| Front end | `frontend/*.cpp` | none of its own | ask Libadalang, print diagnostics | MLIRGen |
| Debug information | `mlir/AdaDebugInfo.cpp`, `mlir/PostTranslationDITypes.cpp` | debug variables, the variables of bounds, types | describe, find a bound's variable, retype | declarations (names on operations), calls (the formals of an ABI), conversions (checks take names) |

What makes each part correct:

* **Calls.** By-copy parameters as RM 6.4.1 has them: each association
  evaluated once and in source order, each formal given its own actual's
  value, each writable actual assigned in the order chosen by the source after
  the callee has returned, checked against its own subtype, and nothing
  assigned after a check that fails.
* **Closure conversion.** A lifted body uses nothing of its old surroundings,
  every call agrees with the body's new parameters, no parameter is
  superfluous, a program is refused only if it cannot be converted, and in a
  run an up-level name reaches the object of the right activation.
* **Symbols.** Distinct entities have distinct symbols at every moment of the
  renaming, and references follow.
* **Scalars.** Every operator gives the exact result or raises the check that
  Ada names; a value of a constrained subtype satisfies its constraint.
* **Statements.** What was emitted runs its statements and tests in Ada's
  order; nothing refers to an erased block; a unit is refused only when
  control could really go where it must not; a label is shown where control
  goes from it.
* **For loops.** One iteration for each value, in order, and an end.
* **Declarations.** Items take effect in source order; the bounds of a subtype
  are evaluated once, where it is declared, and each activation has its own;
  every operand dominates its use; what is assigned is checked.
* **Debug information.** Every formal and every dynamic bound is described,
  with the right position, in the right subprogram, by a variable that shows
  it.
* **Promotion** must not change what a program computes, nor which check it
  sees fail first.
* **Driver and binder.** An output is complete or absent, whatever fails and
  whenever; every pass finds the module as it needs it; a unit and the main
  generated for it link.

The hazards in `PROJECT.json` list, line by line, where each of these is at
risk.

## Modules

    CallProfile --- DenseLists ---+
         |               |        |
      AdaCall <------ CallLowering                   MCCallLowering

    ClosureConversion --- LiftedExecution     MCClosureConversion, MCLiftedExecution
    SymbolNames                               MCSymbolNames

    Words --- ScalarTypes ---- AdaScalars <------+
         \           \                           |
          ScalarWords - ScalarLowering ----------+   MCScalarTypes, MCScalarLowering
                   \--- ForLoop ----> AdaFor         MCForLoop

    Statements --- AdaStatements <--- StatementCFG   MCStatementCFG

    Bodies --- Declarations --- Elaboration --- DebugInfo
         \                           |
          AdaElaboration <-----------+           MCDeclarations

    Objects --- ObjectOptimization                   MCObjectOptimization
    BuildDirectory <--- Driver                       MCDriver

The theorems about `X` are in `X_proofs`; those about `LiftedExecution` follow
those about the conversion it runs, in `ClosureConversion_proofs`, those about
`ForLoop` follow those about the operators it uses, in `ScalarLowering_proofs`
(which is why its specification is `LoopSpec`, with `LoopInit` and `LoopNext`:
one module extends both), and `Words_proofs` holds the lemmas the others share: about machine arithmetic, and
about sequences, walks and finite sets.

An arrow is a refinement: the detailed module instantiates the abstract one and
states its specification as a property.  `AdaCall`, `AdaScalars`, `AdaFor`,
`AdaStatements` and `AdaElaboration` say what the language promises, in terms
of objects, numbers and statements; they know nothing of vectors, words,
blocks or operations.
`BuildDirectory` says what a build may expect of a compiler.

### CallProfile, DenseLists, CallLowering (abstract: AdaCall)

`CallProfile` is the profile of a subprogram: formals with their mode and
whether they need an input (`SubpOp::verify`, `formalNeedsInput`).
`DenseLists` is the idea the whole calling convention rests on: a vector with
an entry for *some* of the formals, and the position of a formal in it.
`CallLowering` has the caller's program counter `pc` and one action for each
step: `Evaluate` (an association: `mlirGenCallExpr`, lines 1355-1419), `Call`
(the call operation's operands, and LowerAdaCalls' `lowerCaller`), `Enter`
(`lowerCallee`), `AssignFormal`, `AssignUpLevel` and `BodyRaises` (the body's
own doing), `Return`, `CopyOut` and `Finish`.  `store` holds the caller's
objects; two writable actuals may be the same object.  The body and the
actuals' side effects are as nondeterministic as Ada lets them be.

### ClosureConversion, LiftedExecution

The pass as written: subprograms innermost first, `Isolate`, `RewriteCall` for
one call after the other, `RefuseCall`, `Hoist`.  A reference is a value and
the subprogram at which it is visible, so that `UsedFromAbove` is what
`makeRegionIsolatedFromAbove` collects; the listing's order is left open,
as the code's depends on the walk.  `LiftedExecution` composes the converted
module with a machine: a stack of activations, each with the objects its
lifted parameters designate and the display Ada's scope rules give.

### SymbolNames

Declaring (with `makeUnique`'s counters), lifting, then the two phases of
`HoistNestedSymbolOperations`: collecting moves and names, renaming one by
one, each rename replacing all uses of the old symbol.  A symbol is a sequence
of segments, a segment a name with a counter; operator segments are mapped as
`gnatOperatorName` maps them.

### Words, ScalarTypes, ScalarWords, ScalarLowering (abstract: AdaScalars)

`Words` is machine arithmetic modulo 2^w.  `ScalarTypes` describes the types
of a program: a root with kind, width, modulus and declared range, a subtype
with a static or dynamic range.  `SignedRoot`, `ModularRoot` and `EnumRoot` are
the declarations of such types, with the width MLIRGen chooses.  `ScalarWords` has
the operators LowerToLLVM emits without a check, shared with `ForLoop`.  `ScalarLowering` is a run that
applies one operator after the other to the last value: MLIRGen's choice of
checks, the conversion pass's choice of where to check, in the source's or the
target's representation, and which checks it leaves out, and the machine
instructions.  What LLVM leaves undefined is a choice over all words.

### Statements, StatementCFG (abstract: AdaStatements)

A program is a function from paths to statements.  `StatementCFG` emits it
with one action per handler (`EnterIf` and `LeaveIfPart` are the two halves of
`mlirGenIf` around the visit of a part, and so on), verifies, and runs.
`blocks` are the blocks of the regions, `insert` is the builder's insertion
block, `loops` is `loopStack`, `frames` holds what the C++ activations keep
across a visit.  `AdaStatements` gives, for every position of a program, the
step control lands on next; it has no blocks.  Every condition is a free
choice in both, and `took` says which way it went, so that swapped edges do
not pass unnoticed.  Positions that name resolution lets through but Ada
forbids (an exit without a loop, a goto out of a body) are part of the input.
`labels` is `pendingLabels`: at the end of a body each is fused onto an
operation (`Markers`), and `DescribeLabels` is the pass that turns those still
there into debug entries.  Labels of one name may be declared in different
blocks; `Named` is name resolution.

### ForLoop (abstract: AdaFor)

The six blocks of `mlirGenForLoop` on words: guard, first value, body (which
may end or branch out), test for the far bound, step.  `AdaFor` counts down
the set of values still to come.

### Bodies, Declarations, Elaboration, DebugInfo (abstract: AdaElaboration)

`Bodies` is what a package and its subprograms are made of: items in source
order, with atoms for expressions.  `Declarations` emits them, one action for
each kind of item (`DeclareSubtype`, `DeclareObject`, `EnterBody`,
`EndDeclarations`, `EmitAssign` and so on), into `ir`: the regions of the
bodies, what each entity denotes, the `ada.range` of each dynamic subtype
(`ranges`, the code's `dynamicRanges`), the types with their base and own
range, the names left on values for the debugger, and the regions whose
`ada.decls` is open.  `Insert` is where an operation goes while it is.
An if expression becomes a chain of `scf.if`; each operation in one has the
branches it is `under`, and `Elaboration` skips it in an execution that takes
another branch, as `ValuesDominate` lets no use outside a branch see in.
`Elaboration` runs the operations: each activation has the values of the
operations of its region, and up-level operands reach the activation that
`LiftedExecution` shows lifted parameters to designate.  `AdaElaboration`
runs the items instead, in terms of objects and bounds; the two are compared
after every item.

`RefusalJustified` compares where emission gives up with a definition on the
source (`Unsupported`): objects at library level, attributes of a subtype
without a constraint of its own, and attributes of, and checks against,
`Unevaluated` subtypes, those of the library level and those with a bound that
needs in turn what is not supported.  An item given up at is one of these, and
no program gone through has one, but for a check, which a value that already
has the type does without.  `Initialised` (`readObject`) counts a write in the
block of the read only, so that one before an `scf.if` does not give a read in
its branches the nominal type; `InitialValue` takes a `Default_Value` from the
root, for its subtypes too.

`DebugInfo` goes on where emission ends: the passes of `AdaDebugInfo` that
describe variables (`DescribeObjects`, `DescribeFormals`, `DescribeBounds`) and
`buildSubrangeDITypes` (`BuildSubrangeTypes`), each an action, over the same
`ir` and the ABI of `CallLowering`.  A variable is its name, the value it
shows, its position among the formals and its type.

### Objects, ObjectOptimization

`Objects` has the operations on Ada objects in three blocks (an entry block, a
block executed on a condition, and the block where they join) and `Outcome`,
what executing a list of them shows to the outside: the calls and the values
each of them sees, whether a check failed, the elements in the end.
`ObjectOptimization` emits any list (`Emission`, with the type `readObject`
gives a read) and then applies rewritings in any order and number:
`ForwardObjectWrite`, `SimplifyObjectWrite`, `FoldRequalify` and
`CollapseRequalifyChain` are the canonicalisations of `Dialect.cpp`; `EraseDead`
is the canonicaliser's; `Promote` is mem2reg with the interfaces `ObjectOp`,
`ReadOp` and `WriteOp` implement, `Default` their default value;
`LowerReferences` is `LowerAdaReferences.cpp`.  There is no step-by-step
abstract specification: the reference is the list as emitted, kept in `orig`,
and what it shows.  mem2reg, the erasure of dead operations and
the effects of a call are MLIR's, modelled from what the dialect declares.  An
object declared outside the entry block occurs only as one not promoted; the
warning on reads that precede all writes is left out.

### Driver (abstract: BuildDirectory)

One invocation after the other in one directory, each with the options `main`
has: `Refuse` the combinations refused before anything is read, `LoadMLIRFile`
or `Parse`, then `DumpAST`, `Bind` (`Bindable` is `describeProgram`,
`BindModule` is `emitBindModule`), `RefuseSpec` or `MLIRGen`; `RunPass` takes
the next pass of the action's `Pipeline`; `Translate`, `Open`, `Write`, `Keep`,
`Exit`.  Every one of these may fail, and `Interrupt` may end the process
anywhere; it stands for the
signals LLVM handles, whose handlers remove an output still open.  A process
killed by any other means (SIGKILL, a loss of power) can leave a partial file,
and the model says nothing of it.  `Exit` is what is left after `Keep`: the
file is closed on the way out of `main`, in one step with the status.
A module is the set of constructs in it and the functions it
provides and needs; a pass is what it removes, adds and cannot deal with.  How
files are emptied, removed and kept is that of LLVM's `ToolOutputFile`.  An MLIR
dump of an earlier invocation may be the input of a later one; a dump of a bind
module cannot be, as the context that reads it does not know the LLVM dialect.

## Runs

| Run | Question | Bounds | States |
|---|---|---|---|
| `call_lowering` | does the lowered call implement Ada's? | two formals of any modes in both association orders and two calls of three formals; two objects, one of a dynamic subtype; base values 0..2; captures, `Default_Value`, functions | 193 285 |
| `lifted_execution` | is every capture lifted, and only those; does an up-level name reach the right activation? | three nesting trees of three or four subprograms, one or two values, every choice of uses and every set of six or seven calls; up to four activations | 79 840 |
| `symbol_names` | do symbols stay distinct, references correct, ABI names as declared? | a library procedure and every three declarations in it, or in one another, from six forms: blocks, types, overloaded names and operators, a capture | 13 130 |
| `scalar_lowering` | exact value or Ada's check? | nine integer types of 2-4 bits, ten subtypes, three enumerations, six array index ranges, every operand | 363 390 |
| `scalar_narrow` | is a check left out only when it cannot fail? | one signed type whose declared range is below its machine range | violated |
| `statement_cfg` | does the emitted code run in Ada's order, and are its labels shown where control takes them? | every body of up to four statements (procedure and function), flat ones with two labels, null statements and assignments, and sixteen longer ones | 264 060 |
| `for_loop` | each value once, in order, and an end? | every pair of bounds of every scalar type above, both directions | 11 658 |
| `object_optimization` | do rewritings keep what a block shows, and types true? | every list of up to four operations in the entry block, of three over three blocks; one object, two elements that may be one; five kinds of declared type | 812 652 |
| `declarations` | does what is emitted elaborate as Ada does, and is it described? | 208 programs: nested bodies, recursion, blocks, default values and their subtypes, library-level items, attributes of constrained, renamed and library-level subtypes, profiles, if expressions; integers 0..3, four activations; then every pass of the debug information | 14 556 |
| `subtype_renaming` | does an object hold only values of its subtype? | objects of a subtype declared from a constrained one | violated |
| `debug_values` | does a variable of an object's name show the object? | the programs of `declarations` | violated |
| `driver` | is an output complete or absent, is the pipeline, do unit and main link? | three invocations with every combination of options, seven kinds of unit, two sets of constructs | 1 551 719 |

Why the bounds are enough (the theorems lift those of calls, closure
conversion, names, scalars, loops, objects and the driver, and those of
`statement_cfg` for every property but `LabelsAnchored`):

* *Two formals* make every pairwise interaction, and the calls of three put a
  formal without an entry before, between and after those with one: two actuals that alias, one
  with an entry in a vector before one without, the two orders of copy-back, a
  check that fails after a copy and before another.
* *Three or four subprograms* give a chain of three levels (a capture handed
  down through a middle body that does not use it itself), siblings and
  recursion at both levels.
* *Widths of 2 to 4 bits* (`MachineWidths`) stand for 8 to 128; each type gets
  the one the code would choose (`RepresentationHolds` checks that choice for
  every range and modulus of up to four bits): every relation between a
  source's and a target's width and sign, a modulus that is the word, a power
  of two below it, and neither, occurs.  `AddressWidth` is 4, so an index may be
  narrower than an address or as wide.  Signed types of `scalar_lowering`
  fill their machine range, as the predefined ones do; a narrower declared
  range is the subject of `scalar_narrow`.
* *Four statements* hold every pair of nested compound statements around a
  leaf and every label-goto-terminator mixture of four; named exits, a body
  declared inside a loop and elsif chains need more and are written out.
* *Four operations* on objects are the longest pattern a rewriting looks at (a
  write, an operation between, a write, and a use) with one to spare for the
  rewriting it enables.  `e1` and `e2` are alike, so that reads use `e1` only;
  literals alternate between the two values of the subtype; and the properties
  look at one environment of those that differ only in what the list does not
  depend on (`Telling`).
* *Three invocations* make a dump, compile it and bind the unit, or compile,
  bind and fail over one of the two.  `-P` and `-x` are enumerated only where
  they change the flow.
* *Four activations* allow two of the owner and two of the user of a captured
  object.
* *The programs of `declarations`* combine what can interfere: each has a
  dynamic bound (of a formal, of an object that changes before it is used, of
  one or two calls with a side effect), an object it constrains, and a use of
  both after the change, from the same body, a nested one, a recursive one or
  a block; if expressions have the change in a condition or in one of the
  values, so that a branch taken too early or too late shows.  0..3 holds every relation between a value, two bounds and a
  default value; emission has no loop over values.

`CHECK_DEADLOCK FALSE` is in every configuration whose system ends: a pass
that is over, a call that is complete, a run that has returned.

### Fairness

Only `ForLoop` assumes any: weak fairness of its next-state relation.  The
emitted code is one sequential thread, so a step that can be taken is taken;
that each single execution of the body ends is an assumption about the
program.  Under it `Terminates` holds: the loop ends for all bounds, the ends
of the machine range included.  A loop that tested after its step would not
(that is the mutant of this property).

## What the checks found

* **A check left out that can fail** (`scalar_narrow`).  `type Small is range
  -100 .. 100` occupies a byte, and arithmetic on it is checked against the
  byte, so a value of type Small may be 120.  `knownWithin` takes the
  declared range of a value's type for granted and leaves out the check of a
  conversion to a subtype of range -100 .. 100.
* **A constraint lost in a renaming** (`subtype_renaming`).  `subtype Alias is
  Small;` is given no range and is linked to the root type, so that an object
  of Alias takes values that Small, and Ada, exclude.
* **What is refused.**  `RefusalJustified` states these as they are.  For the
  reason above `Alias'First` is refused as well (MLIRGen.cpp 1632), with the
  message that `'First` is only supported on integer subtypes, which Alias is.
  And `elaborateDynamicRange` returns nothing: when a bound cannot be emitted
  (the `'Last` of a library-level subtype, whose bounds are never evaluated) an
  error is printed, the subtype has no descriptor (2047) and emission goes on,
  to the first item that needs it.  By reading only: if none does, the module
  is accepted, though the comment at 2020-2024 says that bounds are evaluated
  even if the subtype is never referenced.
* **Variables that show something else** (`debug_values`).  When the
  initial value of a constant is checked, what the check computes (its bounds,
  its comparisons) is described to the debugger as variables of the constant's
  name, and the value of the constant is not.
* **Labels a debugger does not find.**  `LabelsAnchored` states these as they
  are: two labels of one name in different blocks of a body share one entry
  (AdaDebugInfo.cpp 452); a label in front of a block that declares bodies is
  fused onto the `ada.decls`, which hoisting erases.  By reading only: so is
  one in front of a test of a plain Boolean object, whose first operation left
  over is an `ada.unwrap`; and since assignments are passed over though at -O0
  they stay (the comment at MLIRGen.cpp 2824 has promoted objects in mind), a
  label in front of one is shown behind it.
* **Bounds without a variable.**  `BoundsDescribed` has two exceptions: another
  variable of the subprogram has the name (PostTranslationDITypes.cpp 328
  holds that names are told apart by the subprogram), and the bound is a
  formal of a constrained subtype, whose variable is replaced after the
  look-up.
* **Names.**  `NamesStable` excepts operators: `getMangledName` tells a unary
  from a binary one by a number of inputs that closure conversion changes, so
  the ABI name of a sign operator with captures changes; and the segment of an
  overloaded operator that uniquing has extended is not mapped.
* By reading only: a modulus beyond 2**128 is accepted and given 128 bits
  (MLIRGen.cpp 2197; `ModularWidth` has it so); `array (5 .. 1)` is given the
  negative extent -3 (2349).
* A function that ends in a label nothing jumps to, after its last return, is
  refused by the verifier although control cannot reach its end.  No text of
  the repository says otherwise; `VerdictJustified` states it as it is.

## Proofs

TLC settles a question on the instances above; the theorems settle it for
every value of the constants: every unit, every nesting, every width, every
number of invocations.  The listed theorems are in `PROJECT.json`; a reader
finds each at the end of its module (or of its half of it).  They rest on the
`ASSUME`s of the modules they are about and on nothing else; TLC evaluates each
of these on the instances of the runs.

All have one argument.  The property by itself is not kept by a step: what a
rename does to the uses of a symbol depends on which other symbols there are,
and whether a block may be erased on which blocks are still going to be
branched to.  Each module therefore defines an inductive invariant `IInv`, a
conjunction of parts named for what they say; a lemma for the initial states;
a lemma for each action (or for what several actions have in common), with a
step for each part the action can disturb; and the theorems, which say that
`IInv` holds always and implies the property.  TLC checked each `IInv` on the
run's instance before its proof.

### CallLowering

* `TypeCorrect` -- `Spec => []TypeOK`;
* `CopyBackCorrect` -- `Spec => []CopyBackPrefix`: at any moment of copy-back
  the store is the one the callee left, changed at exactly the objects of the
  associations done, each to the value of the last of them;
* `ActualsValid` -- `Spec => []CompletedActualsValid`;
* `CallRefinement` -- `Spec => ImplementsAdaCall`.

For every set of objects and values, every profile, every number of formals,
captures and both association orders.  `CallInv` adds what ties the vectors to
the formals: `SlotsFilled` (an association evaluated has left its snapshot),
`RangesMatch` and `InputsMatch` (the entry at a formal's position is that
formal's), `LocalsFilled` and `ResultsMatch` (so is the callee's object, and
the result it comes back in), and `AssignedActualsValid` (an actual already
copied back lies in its subtype).  The lemmas on dense vectors come first: the
position of a formal is within the vector, and the entry there is the formal's
own.  The refinement maps the steps that build and read vectors to stutters.

### ClosureConversion, LiftedExecution

`TypeCorrect`, `Isolated`, `CallsCorrect`, `ParametersCorrect` and
`RefusalCorrect`, for every nesting of any number of subprograms and any set
of calls and up-level uses.  The invariant follows the walk.  `HoistedInv` and
`PhaseInv` say how far it has come; `RefsInv`, `CapturesInv` and `ArgsInv` give
bodies, captures and arguments as functions of that; `SufficientInv` says that
a body visited refers to nothing but its own values and its captures, and
`LeastInv` that every family of sets closed under use and call, as Ada's
scoping asks, contains the captures.  Together these make one walk, innermost
first, compute the least fixpoint `ParametersLeast` compares with, which is
not obvious: a body's captures are fixed before its callers are looked at.
`RefusalInv` is why that is enough, and when it is not: the calls that would
have to be looked at again are exactly the refused ones.

`UpLevelReached` proves `UpLevelCorrect` for any number of activations and any
recursion.  The lemma `RunConverts` says that a run leaves the conversion alone,
so that the invariant above goes on to hold; `StackInv` adds that each activation's
display and lifted parameters designate the activations Ada's static links
name.

### SymbolNames

`SymbolsUnique`, `CallsKept`, `ScopesCorrect` and `NamesKept`, for every unit
whose operators have one or two formals.  The core is a set of symbols half
renamed: `DialectInv` (a symbol not yet renamed has the shape the dialect gives
it, which no mangled name has), `UniqueInv` (those are distinct) and
`MangledInv` (so are the names being given), so that a rename neither meets a
symbol in use nor takes along the uses of another.  `UsedInv` is the counter
of `makeUnique`, `InputsInv` the numbers of inputs `getMangledName` tells a
unary operator by, `CallsInv` and `ScopesInv` the references that must follow.

### Words, ScalarLowering, ForLoop

`Words_proofs` has, beside lemmas on sequences and finite sets, the arithmetic:
`Wrap` is a ring homomorphism (`WrapArith`), reading a word as a signed or
unsigned number is inverse to writing it (`ReadSigned`, `SignedRead`),
extension and truncation (`SignedInWider`, `WrapWrap`), masking as a remainder
(`MaskMod`), and bitwise operators, which are defined on sets of bit positions.
Powers of two are about sets as well (`Subsets`: 2^n is the number of subsets
of 1..n), because induction over data is out of the prover's reach.

`ScalarLowering_proofs` has `TypeCorrect`, `SubtypesHeld` and
`ScalarRefinement`: for types of every width, modulus and range each operator,
comparison, conversion and index selected computes Ada's value or fails Ada's
check.  `TypeOK` is not inductive, and the theorem about it needs the same
invariant: a word outside the range of its type gets through a check that was
left out, and may select a negative offset.  `IInv` adds `Represented`, that
the word is that of a value of its type; the lemma for each operator shows
that the outcome of the machine operations `Agrees` with Ada's, from which
both the invariant and the refinement follow.  All three have the hypothesis
`FullRanges`: the declared range of a signed type is its machine range.  The
predefined types have it, and without it the theorems are false, which is what
the run `scalar_narrow` shows.  That a modulus is at most the widest word is
in `TypesAssumption`; the code accepts more (see above).

Of `ForLoop` it has `LoopTypeCorrect` and `RunsAdaFor`, for every width,
modulus, pair of bounds and direction.  The invariant is `LoopInv`, whose part
`RangeInv` says that the parameter lies between the bounds in the body and is
not the last one in the step block, which is why the step may do without a
check.

### StatementCFG

`TypeCorrect`, `BranchesLand` and `NoOrphans`, for every program: any depth of
nesting, any mixture of exits, gotos, labels and returns.  `DescentInv` says
that the frames are those of the statements around the position.  The other
parts relate blocks to the order in which the descent comes to positions
(`Precedes`, `Surrounds`): `BlocksInv`, a block belongs to a statement already
begun, and branches go to blocks that exist; `InsertInv`, the insertion block,
and each block a frame will return to, is one emission may go on in, never one
that it has yet to come to; `OpenInv`, the blocks a statement around will still
come to (its merge, its step, the false block of the guard being visited) exist
and have no terminator; `OrphanInv`, a block without a branch to it is an
entry, a label's, or one that a statement around will drop unless a branch has
come by then; `LoopsInv`, the loop stack holds the loops around, up to the
body.  A merge erased for want of a branch is hence neither the insertion
block nor a block to return to, no outer exit names it, and its own terminator
(it has none) names no other block.  The steps fall into four shapes, with a
lemma each (`EmitStep`, `EnterStep`, `LeaveStep`, `PartStep`); `Carries` is
what an action has to show of the blocks it changes.

`AdaOrderKept` (`Spec => ImplementsAdaStatements`) is the refinement: what is
emitted, run with any outcomes of its tests, does what Ada says, in that order.
`Starts(b)` is the step of Ada's that is due when control reaches block `b`; a
block *flows* when each of its operations is the one due when its turn comes
and its terminator leads, edge by edge, to blocks that start with what is due
there.  `FlowInv` says that every block flows (`CodeInv`), that emission goes
on with what is due where it inserts (`CursorInv`), and what that rests on: the
blocks still to come to are empty (`FreshInv`), a nested body is emitted into
blocks of its own (`HomeInv`), and where emission goes on after an erased merge
is ended (`ClosedInv`); `ExitMeets` says that the loop stack names the loop
Ada's visibility rules do.  `RunInv` then carries a run along: the next
operation is always what Ada has next.  `Ada!Lands` is a recursive function,
and that it satisfies its equation is a theorem here (`LandsIs`): such a
function exists because a walk from position to position either stops, and
gives its value, or does not (`WalkExists`).

`VerdictSound` states `VerdictJustified`.  What control may reach is here the
limit of an iteration, `Ada!Reach`; programs are finite (`WellFormed`), and of
sets in a finite one some is not part of another (`Largest`), so that a walk
forward in a program comes to a step (`LandsOnStep`) and the iteration to the
least set that holds its start and is closed under Ada's successors
(`ReachIs`).  A unit *refused*: `LiveInv` says that where a block starts is in
every closed set around the entries and the labels as soon as something
branches to it, and so is what is due where emission meets a forbidden jump;
when the verifier refuses instead, `ShutInv`, which lists what may still be
open at every moment, leaves for the last one only blocks where a function
comes to its end.  A unit *accepted*: the steps emitted are all allowed, by
`FlowInv`, and are closed under Ada's successors provided that every block
comes to one, since each block is ended.  That is `PassInv`: no set of blocks
only lead to each other and do nothing.  A branch that is no step of Ada's (to
a label that follows, to the header of a `while`) is given where its target has
no end yet or does something: a header tests, the step block of a `for`
advances, and the back edge of a bare loop is that loop's step.  Both
directions rest on one account of what a step of emission does to blocks
(`Steers`): each one there before is as it was or has grown where emission
stood, each new one is open and expected, and each end given is to a block
control has come to.

### ObjectOptimization

`ObjectOptimization_proofs` has the four invariants of the run as theorems, for
every number of operations, every machine range, subtype and declared type, and
every sequence of rewritings: `TypeCorrect`, `ListsValid`, `OutcomesPreserved`
and `ValuesPreserved`.

What a list shows is a fold over it (`After`), written as a recursive function
so that it can be reasoned about.  That it has a value (`Recursion`, `RunIs`),
and that what two executions have in common at each position they have at the
next (`Progress`), are inductions up to the length of a list, which the prover
does by the least position where the claim fails (`LeastNat`).  An execution is not followed operation by operation in each proof:
`Executes` says once what one operation does to the state (`Effect`), `SameStep`
that operations alike do alike to states that agree on what they read.

`Valid` is what `IRValid` needs to be kept: it adds that names are unique but
among operations without a result, and that operations are in the order of
their blocks, without which the definer of a value would not be the one the
rewriting looked at.  A rewriting `Keeps` a list when the result shows the same
and computes only values the list computes, with the same types; both are shown
of each canonicalisation (`ForwardKeeps`, `CollapseKeeps`, `RestoresKeeps`,
`OverwrittenKeeps`, `EraseKeeps`) and of the removal of requalifications that
change nothing (`RequalifiedKeeps`), and chained.  Promotion is followed block
by block (`Promotes`): the definition that reaches a read names what storage
would hold there, and past the join the two leaving definitions do.  x never
written then reads as the default value, so `Keeps` is not true of promotion;
what it shows is what the list shows with the default as junk
(`PromotionKeeps`).  Lowering
puts up to three operations for one, and is followed piece by piece (`Lowers`).

The invariant `IInv` is `Phases`, `Formed` (lists are `Valid`, and what may be
in them in each phase), `Emitting`, `HeldAll` and `KeptAll`.  `KeptAll` is
`OutcomesKept` for all environments; `HeldAll` is `ValuesHeld` for every set B
that holds what storage may hold, before the base type is known.  That readings
are of the types `readObject` gives them is `Stocked`, part of `Emitting`: an
object with an initial value holds a value of the subtype, and so does what the
block being emitted has written or handed to a call.  It is not true of a list
after promotion, where no storage is left to speak of, so it is kept while the
list is emitted and its consequence, `Held`, afterwards.  TLC checked `IInv` on
lists of up to three operations beside the declaration.

### Driver

`TypeCorrect`, `PipelinesLower`, `BindLinks` and `KeepsBuildDirectory`
(`Spec => ImplementsBuildDirectory`), for every set of units and constructs and
any number of invocations.  `PassesInv` says which passes are behind, and
`ModuleInv` gives the module as what those leave of the one loaded or
generated; `OutInv` and `DirInv` say what is open and what every file of the
directory holds: nothing, a partial output that is the open one, or a complete
output of the unit, in the file named for it and with the functions its action
leaves it.  That
last part is what a later invocation that reads a dump back relies on.

### Only model-checked

* `Terminates` of `ForLoop`: liveness under fairness is beyond the prover.
* `LabelsAnchored` of `StatementCFG`, which compares the walk of
  `anchorPendingLabels` over blocks with a walk over positions (`Settles`);
  both remember where they have been, so that the limits of the two would have
  to be related for every set of places seen.  TLC compares them on every body
  of up to four statements.
* `Declarations`, `Elaboration` and `DebugInfo`, whose properties TLC checks on
  written-out programs; see the plan.

## Plan

1. *Done*: calls, with proofs; closure conversion and its runs; names;
   scalars; statements; for loops; objects; the driver and the binder.
2. *Done*: declarations and their elaboration, debug information, label
   markers, the widths of types.
3. *Done*: if expressions, in bounds, initial values, actuals and assignments.
4. *Done*: proofs of calls, closure conversion and its runs, names, words and
   scalars, for loops, the driver, and statements, with the refinement of Ada's
   order of execution and the verdict on a unit.
5. *Done*: proofs of the rewritings of objects.
6. What could follow: `ValuesDominate` of `Declarations`, the invariant there
   that relates operations to one another and not to an execution of them.

## Not modelled

Floating-point types (rounding is LLVM's); constraints on enumeration
subtypes, container iteration, iterator filters and ranges given by a name
(refused or marked `@todo` by the source); case statements, exception handlers
and tasking (the compiler has none); the static evaluation Libadalang does beyond
that of a bound;
formats and wording of diagnostics, printers and parsers of the dialect;
option parsing; an input file with no compilation unit in it, whose root
Libadalang leaves null, and the names of child subprograms as Libadalang gives
them; the runtime stubs, which print and abort.

Of declarations: an if expression without an else part (which yields True, and
is of a Boolean type), if expressions within if expressions; what is emitted
after a bound that is an if expression with a part that cannot be emitted
(`emitIfExprChain` returns with the insertion point left in the branch, and
`elaborateDynamicRange` goes on: that branch never gets its `scf.yield`, the
module does not pass its verification, and the model refuses it at once);
whether a constraint is compatible with the
subtype it constrains (RM 3.2.2, which the code does not check either); the
bounds of enumeration subtypes, and those of library-level subtypes, which the
code never evaluates; specs without a body; array objects beyond their type.
A bound is static in the model when it is a literal or an attribute whose own
bound is static (`StaticValue`); constants with a static value, operators and
other static expressions do not occur.  Programs read no object before
it has a value.  The copy-back of writable actuals is `CallLowering`'s.

Of debug information: subprogram entries and their types, the entries of
enumeration and array types (an array indexed by an enumeration keeps its
placeholder), loop parameters, and -O1, where the names that survive are up to
MLIR.  A constant converted without a check has no variable,
nor has one initialised by an unchecked if expression (the result of `scf.if`
becomes a block argument),  one that shadows
another is not described, and `C : constant Integer := N` renames that of N:
`DebugInfo` has these as the code does, and no property objects to them.  A
statement or condition is one operation in `StatementCFG`: which operation of
it comes first, and whether that one lasts, is left out (see above).
