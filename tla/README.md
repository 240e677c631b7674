# Verification of ascendir_parser's ISA simulator

TLA+ models, TLC runs and TLAPS proofs for the program in `src/`: a tool that
reads MLIR (HIVM, `scf`, `arith`, `func`), flattens it into a linear program of
"ISA" instructions and simulates that program cycle by cycle on four execution
units. Paths below are relative to the repository root; a bare `IsaExecutor.cpp`
is `src/IsaExecutor.cpp`, a bare header is in `include/`.

## 1. Inventory

### Components

| component | state it keeps | operations | interacts with |
|---|---|---|---|
| `ExecutionUnit` (header) | queue `pendingTasks`, `busyUntilCycle` | `dispatchTask`, `update`, `isBusy`, `reset` | owned by the executor, one per unit type |
| `IsaExecutor` | program, `pc`, `cycle`, units, `activeTasks`, `nextTaskId`, mode, `blocked` | `load`, `setAsyncMode`, `tick`, `run` | reads `IsaSequence`, calls `execute()` of each instruction on the context, hands tasks to units |
| `ExecutionContext` | values by SSA value, buffers, call frames, `halted` | get/set, push/pop | written by instructions and by the executor |
| `Isa` and its subclasses (`include/Instructions/`) | decoded fields | `decode`, `execute`, unit and latency | built by the builder, run by the executor |
| `IsaSequence` | instructions, PC counter, labels | add, look up by PC, patch targets | filled by the builder, read by the executor |
| `IsaSequenceBuilder` | own PC counter, config | flatten functions, `scf.for`, `scf.if`, yields, plain operations, calls | uses `IsaRegistry`, `ExternalFunctionConfig` |
| `ExternalFunctionConfig` | unit and latency by function name, defaults | `loadFromYaml`, `setFunctionCycle`, `getFunctionInfo` | filled by `main`, read by the builder |
| `main` | options | parse options, configure, build, simulate | everything above |
| `IsaRegistry`, `Parser`, `Analyzer` | a table; none; none | create an instruction; parse; print | see section 8 |

A simulation runs through them in one direction: `main` reads options and
layers the configuration; the builder turns the module into an `IsaSequence`;
`main` constructs an executor, loads the sequence, chooses the mode and calls
`tick()` until it returns false. There is one thread. What runs "concurrently"
is simulated: while the executor goes on at `pc`, tasks of several cycles are in
flight on the units, overlap there, and finish out of order.

### What is hard, and what makes each component correct

* **Executor and units.** Work is booked twice, in the unit's queue, popped only
  from its front, and in `activeTasks`, filtered anywhere; and a third time in
  the unit's busy clock, which each dispatch overwrites. A busy unit accepts
  further tasks (the wait in `tick()` is dead code: nothing sets `blocked`), so
  the books are under stress whenever a short task follows a long one. Correct
  means: the books agree on what is unfinished, each task is in flight for
  exactly its latency, numbers are unique and in order, and a reload forgets all.
* **Control flow.** `pc` is moved by branches, calls, returns and fall-through,
  on targets that the builder computed from a counter of its own. Correct means
  `pc` never leaves the program, returns go back behind calls, and a simulation
  whose loops count up to their bound ends.
* **Builder.** Structured control flow becomes jumps patched after the fact,
  recursively. Correct means: counter and program never drift apart, targets are
  inside the program, every loop tests and steps its own variable and comes back
  to its own condition, constructs have one entry and one exit, and yields
  assign to the innermost loop.
* **Arithmetic.** The width of a number is stored with the number and not taken
  from its type; values never set read as 64-bit zero; a division by zero writes
  nothing, so that a value of the previous iteration stays. Correct means: what
  MLIR defines is what is stored, and what it leaves undefined stays harmless.
* **Buffers.** A load of memory that nothing has written invents its contents at
  that moment; vector operations walk over the element count of the destination
  in source buffers that other operations sized; every effect is there at once,
  while the task that stands for it is in flight. Nothing compares the types of
  operands: the parser takes these operations as unregistered ones. Correct means: a
  buffer holds what the kernel means, and an operation walks outside a buffer only
  where the kernel itself copies or computes from a smaller type into a larger one.
* **Flattening as a whole.** What the operations of a function see of loop
  variables, iteration arguments and results must be what the `scf` dialect says.
* **Configuration.** A YAML file can fail half-way, after storing some of its
  entries, or all of them and the default latency, and `main` goes on;
  `--func-cycle` options override the file wherever they stand. Correct means: the
  result follows from the layers alone.

`PROJECT.json` lists every hazard with its line and the properties aimed at it.

## 2. Modules

| module | models | state and actions |
|---|---|---|
| `ExecutionUnits` | `ExecutionUnit.h` | a unit is a record `busyUntilCycle`, `pendingTasks`; `DispatchTask`, `UpdateUnit` (pop from the front while complete), `IsBusy` as operators |
| `TaskTimeline` | abstract specification of the dispatcher | a clock, the outstanding tasks with their deadlines, how many were issued; `Elapse`, `Issue`, `Restart` |
| `Isa` | `Isa.h`, `ControlFlowIsas.h`, `ExecutionContext.h` | an instruction is one record with the fields of all subclasses and its `isaName`; `Execute` gives the value stores it can leave, `BranchTaken` the outcome of a condition; integers wrap in `MinInt .. MaxInt` |
| `IsaSequence` | `IsaSequence.h` | a sequence of instructions; lookup by PC, `UpdateConditionalJump`, `UpdateJumpTarget`; `WellFormed` says that control stays inside |
| `IsaExecutor` | `IsaExecutor.cpp` | one variable per member and per context field; `Load`, `SetAsyncMode` and one action per kind of instruction that `tick()` can meet; `Next` calls them in any order |
| `Simulation` | the simulate branch of `main.cpp` | `IsaExecutor` with a `stage`: `LoadModule`, `ChooseMode`, `RunTick`, `Complete` |
| `HivmIsas` | `Instructions/HivmIsas.h`, buffers of `ExecutionContext.h` | unit, latency by size and effect on `memrefData` of each instruction, as operators; one datum stands for the elements of a buffer, and f16 arithmetic is a parameter |
| `HivmSimulation` | kernels under `main.cpp` | `Simulation` whose tick also acts on `memory`, beside a history variable `meant` with the kernel's meaning; `WalkOutside` takes a step that would leave a buffer to `outside`, where the behaviour ends |
| `IsaSequenceBuilder` | `IsaSequence.cpp` | program, counter, and the recursion of the flattening as a stack `open`; one action per thing the pass meets next |
| `ArithIsas` | `Instructions/ArithIsas.h` | an `APInt` as width and bits; a loop body run again and again, beside a history variable with what MLIR says |
| `ExternalFunctionConfig` | `ExternalFunctionConfig.cpp` | the table and its defaults; loading a file entry by entry, then its default latency, then its default unit, each of which can fail |
| `ModuleSimulation` | `load()` with `buildFromMLIR` in it, then `main.cpp` | composes `IsaSequenceBuilder` and `Simulation`: the builder's steps, `LoadBuilt` once every function with a body that is called is flattened, the simulation of what was built |
| `ScfSemantics` | nothing: the reference | what a function body of operations, `scf.for` and `scf.if` means, as recursive operators; `Walk`, the order in which the builder meets it |
| `ScfConformance` | builder and executor on one function | `ModuleSimulation` whose builder reads a given body, beside a `trace` of what its operations see |
| `CommandLine` | option handling of `main.cpp` | options one by one, then file, then `--func-cycle`s, then dump or simulate |

`MCPrograms` holds small programs for the executor and simulation runs; the `MC...` modules give
constants their values; the `...Proofs` modules hold lemmas and theorems.

Correspondences that need a word:

* A tick is one step: nothing observes the executor inside `tick()`. It contains
  everything the call does, in the code's order: clock, retirement, then the
  instruction, then dispatch, so a task dispatched in a tick is not seen by
  the retirement of that tick, and one of latency 0 stays until the next.
* `Elapse(n)` stands for `n` rounds of `cycle++` and update: the last shows all.
* An instruction that computes something leaves one of the numbers in
  `outcomes`; which one is arithmetic's business, in `ArithIsas`. The step and
  the test of loops are computed in `Isa`, wrapping, because control depends on
  them.
* In the builder the MLIR module is not a datum. Each action is one thing met in
  it, and what is met next is any choice the MLIR verifier allows, so the
  behaviours are the builds of all modules. `entries`, `calls` and `closed` are
  history variables and guard nothing, but for `entries`, which keeps a function
  from being met twice.
* `Simulation` assumes its programs are `WellFormed`. `ModuleSimulation` discharges
  that: it loads what the builder leaves, and `BuiltModulesStayInside` is proved
  without the assumption.
* `HivmSimulation` gives each operation on buffers the unit and latency that
  `HivmIsas` computes and runs it as an `Operation` of the executor; its effect on
  the buffers is part of the same tick, as in `executeIsa`. One datum stands for the
  elements of a buffer, and `size` for where they end. A vector operation that computes
  fewer elements than its result has leaves the rest cleared: its result is any datum.
* The kernel's meaning (`Meaning`) is open (`Undefined`) where an operation copies or
  computes between types, and where an input is read by anything but a load, since the
  code takes it for missing until a load has invented it. For `matmul`, and for vector
  operations on other elements than f16, the code leaves zeros in place of a
  product or sum, and the meaning says zeros too. What `DataAsMeant` shows of them is
  that these zeros are where they should be, not that they are the right result.
* In `CommandLine` the file `Absent` is the empty name, which `main` takes for none
  given, even behind an option that named a file; an `"empty"` argument likewise
  takes back the input.
* In `ScfConformance` an operation with operands is watched: when a tick executes
  it, the values of its operands are appended to `trace`, and so are they in
  `ScfSemantics`. Operations without operands only set their result.

## 3. Runs

| run | asks | states, time |
|---|---|---|
| `executor` | type invariant; the books of tasks agree, tasks leave on time and in order, busy clocks and the refinement of `TaskTimeline`, for any order of loads, mode switches and ticks over programs with overlapping tasks, branches, calls, recursion, and a loop that wraps | 1 038 772 states, 90 s |
| `simulation` | `pc` stays inside, frames return behind calls, buffers hold what the kernel means, only a kernel that widens walks outside a buffer, each simulation completes or ends in such a walk; for every kernel of three operations on buffers of one type, pairs of operations on buffers of two sizes and two element types, every straight line of three pieces of unit work, loops, a condition, a call | 17 746 states, 80 s |
| `builder` | types, counter and well-formedness, loops closed, single entry and exit, yields assign to the innermost loop, control goes back only at the end of a loop, nothing emitted changes but the targets of the condition that is closed, for every nesting of two loops and ifs, with calls and two functions | 99 987 states, 10 s |
| `module_simulation` | what is built is what is run: `pc` in the built program, frames behind the built calls, tasks with the unit and latency that were decoded; `pc` goes back only from the end of a loop to its condition, and a module without loops ends within the length of its program | 169 226 states, 15 s |
| `scf_supported` | the simulation of a flattened function shows its operations what the `scf` dialect says, and ends | 34 603 states, 45 s |
| `arith_matches_mlir` | MLIR's results, at MLIR's widths | 35 555 states |
| `config_layers` | the configuration follows from the layers | 51 632 states |

Five more runs look at sentences in the documentation and find them violated;
see section 6. Every property of a passing run has a mutant in `PROJECT.json`: a
plausible bug in the code for which that property fails under the same
configuration.

The deadlock check is on for the executor and for arithmetic, which can
always step. It is off where the program ends: a simulation completes, a
build finishes (or meets its bound), and `main` returns.

`scf_supported` covers what the flattening gets right: loops in loops and in ifs,
ifs in loops, constructs behind one another, bounds and initial values taken
from the loop around, yields that read no argument already assigned, else parts
that are taken or empty. Everything else it can be given is in `scf_documented`.

## 4. Bounds

* `MaxCycle` (8 for the executor): no tick starts later. The longest work has latency 3 and
  the longest straight kernel four instructions, so all tasks can be issued,
  overlap, finish out of order and drain; an endless loop and an endless
  recursion are cut off. In the liveness runs it is higher than any run needs: a
  run that met it would stop and violate the property.
* `MaxDepth` (2): two frames show every interplay of push and pop, and stale
  frames of an earlier program. The code has no bound.
* `MinInt .. MaxInt` (-4 .. 3): a 3-bit integer in place of 64 bits, so that a loop
  variable can wrap.
* `MaxSize` (4): a construct or operation begins only in a program shorter
  than that; the ends of constructs still add their code, so programs get longer.
  `MaxNesting` (3; 1 in the composition): a loop in an if in a loop is the smallest case where
  inherited iteration arguments can go wrong.
* Arithmetic: 2-bit integers, a 3-bit `index`, all inputs. Overflow, sign, minimum
  divided by -1, and widening and narrowing casts all occur. Bodies of at most
  five operations, repeated, since a second iteration is what finds stale values.
* Kernels: two local buffers, two inputs, one buffer of another element type with a
  dynamic dimension, and an f16 one twice as wide; three operations behind the first
  load show every order of reading, overwriting and storing back. Between the two sizes
  it takes two operations to go wrong: one that leaves a buffer smaller than
  its type, and one that walks over it. Numbers modulo 5 stand for f16 vectors:
  sums and products differ from their operands and from cleared buffers.
* Function bodies: an outer loop with two arguments, an inner one with one, two
  iterations each, since the second is the first that sees what a yield assigned.
* Configuration: three options, two functions, seven files (complete, failing in the
  latency or in the unit of an entry, defaults only, failing in the default latency, in
  the default unit, missing). `MaxLatency` 15
  stands for 2^64 - 1, and the digits 17 wrap.

The proofs have none of these bounds: every constant is a parameter there.

## 5. Fairness

`SimSpec`, `HivmSpec` and `ConformSpec` have weak fairness of their whole next-state
relation: `main` is one thread that builds, loads and ticks in a `while` loop, and a
thread that has a step to make makes it. Nothing else is assumed; in particular
nothing about which values operations leave. `KernelsComplete` and
`SourceCompletes` hold for programs whose loops count up to their bound and whose
calls return, and the first but for kernels that walk outside a buffer: what the code
does then is not defined, and the model goes no further; the loop that wraps and the call that re-enters its caller are in
`executor`, where no liveness is asked. No other specification states fairness.

## 6. Where code and documentation disagree

Each run violates one property.

1. `timed_as_documented`: a load, a vector operation on what it loads, a return. In
   the state in which the total is reported, all three parts of the property fail:
   * both tasks are still in flight, and `docs/SimulatorUsage.md:203` calls the
     total the total time spent;
   * the vector operation started before the load of its operand had ended, and
     `docs/SimulatorDesign.md:91` has the executor wait for units to complete
     (`blocked` is never set);
   * the tasks take 7 and 3 cycles, and the latency model of
     `README_SIMULATOR.md:118` gives them 16 and 8.
2. `sync_mode`. With `--sync` an operation costs one cycle whatever its latency,
   since it is just not dispatched. `docs/SimulatorUsage.md:43`: each instruction
   is waited for. The same line drops the latency of scalar work in both modes,
   though `README_SIMULATOR.md:94-101` lists one for each `arith` instruction.
3. `scf_documented`: one function whose parts do not touch each other. When it is
   over, `trace` shows them side by side with what they mean:
   * "swapped" sees 2, 2 in the second iteration, not 2, 1: the assignments of a
     yield run one after another (`IsaSequence.cpp:193`);
   * "loop result" and "if result" see 0: nothing sets results;
   * "then" is followed by "else": the jump over the else part is emitted behind
     it (`IsaSequence.cpp:313`);
   * "argument" sees 2, not 1: the yield of an if in a loop assigns to the loop's
     argument (`IsaSequence.cpp:250`);
   * "from unset" starts its second run from where the first ended
     (`ControlFlowIsas.h:69`).
4. `module_calls`. No code sets the jump target of a call of a function in the
   module, so it enters PC 0. In the trace `f` begins there and calls `g`, which
   begins at PC 2; both are flattened before the load, and neither recurses. The call
   enters `f` again instead of `g`, and the stack grows by a frame, with a copy of all
   values, in each round.
   `README_SIMULATOR.md:68-70` lists calls and the call stack as implemented.
5. `func_cycle_unit`. `--func-cycle` on a function without an entry creates one
   with unit `Scalar`, hiding the file's default unit.
   `docs/SimulatorUsage.md:105` says that it sets the latency.

## 7. Proofs

Assumptions on constants are named in the modules that declare them, and each is
evaluated by a passing run: the integers contain 0 and 1 (`IntegersAssumption`), there is a value
(`ValueAssumption`), programs are sequences of instructions
(`ProgramsAssumption`), bounds are naturals (`BoundsAssumption`,
`SizesAssumption`), functions with a body are not external
(`FunctionsAssumption`), and what the builder meets has the shape the verifier
guarantees (`InputsAssumption`). For arithmetic: values have widths from 1 to that of
`index`, and operations the operand and result types that the MLIR verifier enforces
(`WidthsAssumption`, `ProgramsAssumption`), and the mark of a value never set is no
number (`UnsetAssumption`). For the configuration: the built-in latency of 10 fits the
word (`DefaultFits`), and files and lines are such, no file having the empty name
(`CommandLineAssumption`). For kernels: shapes and element types are such
(`MemrefAssumption`), data is closed under the arithmetic (`DataAssumption`), sizes
are naturals (`SizesAssumption`, a fold that the provers do not unfold), and kernels
are sequences of lines, with or without an operation on buffers (`KernelsAssumption`,
which asks nothing of the operands' types).

* `IsaSequenceProofs`: lemmas. `UpdateUnit` drops a prefix of a unit's queue, all of it
  complete, and keeps every unfinished task; `DispatchTask` appends; lookup by PC in a
  program whose PCs are its positions; what patching changes and leaves.
* `IsaExecutorProofs`: `TypeCorrect`, `TasksRetireOnTime`, `TasksStayInOrder`,
  `BusyClockTracksLastTask`, `BooksStayInAgreement`, and
  `DispatcherImplementsTimeline`, the refinement. The argument turns on the lemma
  `StepEffect`: whatever a step of the executor is, all it does to the units is one of
  four things (nothing, a reset, time passing, time passing with one dispatch).
  Each invariant is then preserved by those four rather than by twelve actions.
  `RetiredOnTime` and `TasksInOrder` are inductive given `TypeOK`;
  `BusyClockIsLastTask` needs the types of the queues; and `BooksAgree` needs that
  the front-popping queue keeps what is unfinished, though not what is complete.
  The refinement maps a task to its number, unit and deadline.
* `IsaSequenceBuilderProofs`: `TypeCorrect`, `CounterStaysSize` and
  `CompleteProgramsAreWellFormed`, for modules of any size and nesting. The second
  is far from inductive: in the middle of a build the open conditions have not
  been patched and code ends in the air. `IInv` adds that every instruction's targets
  fit in the program so far (`AllFit`), that each open frame points to a
  condition in the program (`FramesFit`), and that between functions the program
  ends in a return (`Finished`). Patching keeps fits because the counter is the size.

  `LoopsStayClosed`, `ConstructsSingleEntryExit` and `YieldsStayInnermost` are about
  complete constructs, and a program is built from the inside out: what holds of a
  loop when its end has been patched has to hold of it in part while it is open.
  `StructureInv`, inductive given `IInv`, says those parts: open frames nest
  (`FramesNest`) and their heads are the code they describe (`HeadsBuilt`); complete
  constructs lie in the program, apart or nested, and clear of the heads and else
  parts of the open ones (`ClosedLie`, `ClosedApart`, `ClosedNest`); control from
  elsewhere enters open and complete constructs at their condition (`ControlEnters...`);
  and yields assign to the innermost loop, open or complete (`YieldsAssign...`). Its
  steps are of two kinds. One goes on: it appends code, and perhaps opens a frame,
  and leaves all that is closed. The other closes the innermost construct and patches
  its condition: the only step in which code already emitted changes. A lemma for each
  kind keeps every part, and each action is shown to be of one kind (`StepKinds`).
  The action property `EmittedCodeStaysFinal` follows from the same kinds; that the
  construct closed is a new one, and not one completed before, is `ClosedApart`.

  `OnlyLoopsEverGoBack` adds one part to `StructureInv`, `BackAtLoopEnds`: a branch of
  an open construct whose target is not patched yet is that construct's condition,
  and every other branch that is not forward is the jump of a complete loop. A step that
  goes on appends code that falls through, goes forward, or is such a condition
  (`GoesOnBack`); one that closes a construct patches its condition forward, and only a
  loop's adds a jump back (`ClosesBack`).

* `SimulationProofs`: `PcStaysInProgram` and `FramesStayAfterCalls`, for all
  well-formed programs. `SimInv` says that the loaded program is one of
  `Programs`, that `pc` is inside, and that frames are behind internal calls; it
  needs `JumpsInside` of well-formedness for targets and `EndsInTransfer` for
  fall-through. `load` leaves old frames in the context, which is
  harmless in `main`, where it is called once: that is why these are theorems of
  `SimSpec` and not of `Spec`.

  Two lemmas serve the composition. `TickMoves` says what a tick does to `pc`, call
  stack and clock, for each kind of instruction; `NothingBlocks`, that
  `blocked` is never set in a simulation, so that no tick is spent waiting for a unit.

* `HivmSimulationProofs`: `BuffersHoldMeaning` and `AccessesStayInside`, for every
  kernel with operands of any types, every shape, and any arithmetic. `HivmInv` has two
  parts. For the meaning: a buffer whose meaning is known has the size of its type
  (`KnownFit`) and the data that is meant (`Agrees`), and what has a meaning but no data
  yet is an input (`LazyInputs`): the last is what makes inventing contents late as good
  as having them from the start. For the walks: unless the kernel widens somewhere,
  no buffer is smaller than its type (`LargeEnough`), whatever chain of
  copies and results it came from, so that a walk over a type no larger stays inside.
  Kernels that do widen are not excluded: the code lets them walk outside, and
  nothing is claimed of them after that. `KernelsAreSimulated`, a refinement, shows
  that buffers steer nothing but that end, so that what is proved of `Simulation` holds of
  kernels (`KernelsStayInside`, `KernelFramesStayAfterCalls`).
* `ModuleSimulationProofs`: `ModulesAreSimulated`, the refinement of `Simulation` by the
  composition, and what follows for every module that can be built:
  `BuiltModulesStayInside`, `FramesReturnBehindBuiltCalls` and `TasksAreOfModule`. The
  theorems on builder and simulation are cited as instances: a step of the
  composition is one of the builder or of the simulation, and the program loaded is
  the builder's, which `CompleteProgramsAreWellFormed` shows to be one the simulation
  is promised. The last two relate a frame or a task to the builder's history, and
  need three links: the executor's books refer to the program loaded
  (`FramesReturnAfterCalls`, and the lemma `TasksSafety` in `SimulationProofs`); the
  program loaded is what was built, once it is complete (`Handover`); and each call
  in what was built is recorded, with what the configuration gave it, through all
  later patching (`CallsStayRecorded` in `IsaSequenceBuilderProofs`).

  `OnlyLoopsEverRunAgain` carries `OnlyLoopsEverGoBack` over to the run: with the
  program complete no construct is open, so that the instruction at `pc` goes forward
  or is the end of a loop, and `TickMoves` says that the tick goes where the
  instruction does. `LoopFreeModulesAlwaysEnd` is the termination of modules without
  loops, stated as a bound and so within reach of the prover. Its invariant is
  `Paced`: `pc` is at least the clock for as long as the module runs. Each tick moves
  both by one or `pc` by more, and `pc` is inside the program. That modules
  with loops complete depends on the values of their conditions and stays with TLC.
* `ArithIsasProofs`: `ArithTypeCorrect`, `ArithmeticMatchesMlir` and
  `WidthsRemainKnown`, for every width of every value and every loop body, so also
  for the 64 bits that TLC cannot enumerate. `IInv` is the conjunction of the three:
  what an operation stores matches MLIR only if its operands have the width of
  their type or that of `index` with the bits MLIR means, and the undefined ones, of
  which `MatchesMlir` says nothing, must not spoil a width. The rest is arithmetic
  modulo `2^w`: wrapping sums, truncating signed division by way of the flooring one
  of the logic (`DivisionTowardsZero`), the unique remainder (`OneQuotient`), and
  sign extension (`SignedIsSExt`). That `2^(w + 1)` is twice `2^w` would take an
  induction; here it comes from the library's theorem on the number of subsets of a
  finite set (`PowerCounts`, `PowerDoubles`).
* `CommandLineProofs`: `CommandLineTypeCorrect` and `ConfigStaysLayered`, for every
  command line, every file and every width of a latency. The property speaks of the
  state before the parser is called; `IInv` says how far each stage has come. The
  options before `at` determine the file and, for each name, the last pair
  (`OptionsRead`); the entries before `at` are stored, each over those of its name
  before it, and the defaults as far as loading has come (`DefaultBefore`), which is
  behind the latency and before the unit where it is the unit that fails (`FileStored`); and the pairs before `at` are over what the file says
  (`CyclesApplied`). "The last" is a `CHOOSE` of a greatest position: the step that
  goes past a position either leaves the set or makes that position the last one
  (`BeforeNext`), so that no induction is needed.

**Only model-checked.** Every invariant of a passing run is a theorem but `MatchesScf`,
whose reference, the meaning of a function body, is recursive: the provers
lose their SMT backend where RECURSIVE operators are in reach, and the statement is an
induction over the body. `KernelsComplete` and `SourceCompletes` are liveness under
fairness, out of the prover's reach. What recursively defined operators compute for
every input cannot be proved with the installed provers either; `SizesAssumption` is
the only place where a proof would need it.

## 8. Not modelled

* Functions of several blocks: their branches (`cf.br`) are operations the registry
  does not know. An operation the registry does not know becomes an
  `ArithConstantIsa` whose `execute` casts it to `arith.constant`. What that does
  depends on how LLVM was built, and no later state is specified.
* `flattenOperationsInBlock`, the jump helpers of the builder, and labels of the
  sequence: called by nothing, or by unit tests only.
* Arguments and results of calls: no code binds them (`README_SIMULATOR.md:71` lists
  parameter passing as implemented), so there is nothing to model but the call.
* Float scalars: `llvm::APFloat` is not the program's logic, and no control
  depends on it. For the same reason f16 arithmetic is a parameter of `HivmIsas`.
* What a walk outside a buffer does: a behaviour ends there. Operands of `hivm`
  operations that are not memrefs are left out.
* Products of matrices and vector results on elements other than f16: the code has
  zeros in their place, and no property compares these with a product or a sum. Likewise
  what is computed from a division by zero: MLIR gives it no meaning, so that the
  quotient of an earlier iteration that is read there is not judged.
* `IsaRegistry` (filled once, read-only after), `Parser`, `Analyzer`, and printing.

## 9. Plan

Done: every module of section 2, in the order executor, simulation, builder,
arithmetic, configuration, kernels, composition, structured semantics, with the
proofs of section 7.

What is left:

* **Proofs** about straight-line bodies in `ScfConformance`. Their meaning needs no
  recursion, but it would have to be stated in a module of its own, out of reach of
  the recursive definitions of `ScfSemantics`.
* **Termination with loops.** The bound of `LoopFreeModulesAlwaysEnd` would become a
  product over the nesting of the trip counts, which is an induction over the module.

That a task in flight is never changed and its number never used again needs no
property of its own: it is what `DispatcherImplementsTimeline` says of every step.
