# A TLA+ model of azo

azo is a small scripting language in C, on top of the `az` object system and the
`arikkei` containers, which are separate libraries. A script goes through a pipeline,

    source -> tokenizer -> parser -> AZONode tree -> resolver -> optimizer
           -> code generator -> AZOProgram -> interpreter

and runs in the thread of its caller. Nothing is concurrent and nothing is persisted.
What is hard here is sequence: long runs of instructions over one packed stack, calls
that stop in the middle, and state that three functions share and each uses as if it
were its own.

## Components

| Component | Source (`src/azo/`) | State | Operations | Must hold |
|---|---|---|---|---|
| value stack | `stack.c` | parallel arrays `impls`, `values`, a block `data` | push, pop, remove, duplicate, exchange, convert | it is a sequence; elements never share memory; no write outside the blocks |
| interpreter | `interpreter.c`, `exception.c` | value stack, frame stack, `vals[0]`, pending exception | one handler per instruction, push / pop / restore frame, run | frames in order; what lies below a run's frame is its callers'; one result per call; an exception ends one run |
| programs and closures | `program.c`, `compiled-function.c`, `datablock.c` | shared data of a program, static data of a closure | interpret, new, bind, set | captures belong to one closure; constants do not change |
| resolver | `compiler/resolve-*.c`, `scope.c`, `variable.c` | frames, scopes, variables with a stack position | push / pop scope and frame, declare, ensure variable | the position of a variable is where its value is at run time |
| optimizer | `compiler/optimizer.c`, `calculate-constants.c` | list of variables with a known constant | propagate, fold | a propagated constant is the value the variable would have |
| code generator | `compiler/compiler.c`, `arithmetic.c`, `compare.c` | current frame and its code | one function per kind of node | each expression adds one value; both branches end at one height |
| code buffer | `code.c`, `compiler/frame.c` | bytes, constants, debug terms | write, patch a jump | a jump lands on an instruction |
| tokenizer, parser | `tokenizer.c`, `parser.c`, `node.c`, `operator.c`, `keyword.c`, `number.c` | cursor in the text, tree | next token, parse | tree of the text; ends |
| globals | `context.c`, `namespace.c` | definitions by name | define, look up | a name is defined once |
| debugger, debug info | `debugger.c`, `debug.c`, `bytecode.c` | instruction pointer, lines | step, list, print | stepping is running |
| compact stack | `stack-compact.c` | - | - | not part of the build |

How they meet. `azo_program_interpret` pushes a frame, pushes the arguments, runs, takes
`vals[0]` for the result and restores the frame stack. `INVOKE` converts the arguments on
the stack and calls `compiled_function_invoke`, which calls `azo_program_interpret` on the
*same* interpreter, so a call in the script is a C call over shared stacks and a shared
`vals[0]`. The resolver decides stack positions that the code generator writes into
instructions and that only hold if the generated code keeps the stack at the height the
resolver assumed.

## Modules

| Module | Models |
|---|---|
| `AzoValues` | elements of the stack: an implementation with a size in bytes, and a content |
| `AzoStackOps` | each operation of `stack.h` on a plain sequence |
| `AzoStack` | the abstract specification of the value stack |
| `AzoPackedStack` | `stack.c`: offsets, 16-byte cells, growth of the blocks, memcpy and memmove |
| `MCPackedStack` | instances for TLC: a boxed type of one cell, `wide` of two cells, `odd` of one cell and a half |
| `AzoPackedStackProofs`, `AzoRefinementProofs` | theorems about `AzoPackedStack`; that it implements `AzoStack` |
| `AzoTypes` | external: what the interpreter relies on of the `az` type system |
| `AzoMachine` | `interpreter.c`, `program.c`, `compiled-function.c`, `datablock.c` |
| `AzoEffects`, `AzoHeights`, `AzoVerified` | what an instruction asks of the stack and leaves on it; code with heights of the stack noted for each instruction; the assumption that the notes agree with the code |
| `AzoMachineProofs`, `AzoFrameProofs` | theorems about `AzoMachine`: types, exceptions, frames |
| `AzoDataProofs` | that constants and captures in the data blocks stay what they were set to |
| `AzoEffectProofs`, `AzoHeightProofs` | that the handlers do what `AzoEffects` says; that code with heights keeps to its frames |
| `AzoCalls` | the abstract specification of calls: every run has a stack of its own |
| `AzoPrivateStacks`, `AzoCallProofs` | the one value stack seen as one of each run's own; that the machine implements `AzoCalls` |
| `AzoTokens`, `AzoParser` | the tables of `keyword.c`, `operator.c` and `node.c`; every parse function of `parser.c` |
| `AzoPrinter` | reference for the parser: how a tree is written |
| `MCParser` | an author who writes programs and mistypes tokens |
| `AzoNodes` | nodes of the syntax tree |
| `AzoResolver` | `resolve-frames.c`, `resolve-references.c` over `frame.c`, `scope.c`, `variable.c` |
| `AzoOptimizer` | `optimizer.c`, `calculate-constants.c` |
| `AzoCompiler` | `compiler.c`, `arithmetic.c`, `compare.c` over `code.c` and `frame.c` |
| `AzoProgram` | `azo_program_compile_from_text` from the tree on: resolver, optimizer and code generator in a row |
| `AzoMeaning` | reference for all of these: what a script means, on its tree, without stack, position or instruction |
| `MCTrees`, `MCNotes` | how scripts are written as trees; the heights of code, computed |
| `MCMachine` | the programs of `machine` |
| `MCTexts`, `MCScripts` | the scripts of `compiled`, what they compile to and mean; their runs |

### The packed stack

A pointer into `data` is an offset in cells of 16 bytes, `STACK_MIN_SIZE`. A cell says whose
content it holds, which of how many cells it is; cells that belong to no element are `Junk`,
so any operation that reads one shows. Each operation is one action and performs the
memory moves of the C function in their order on a function `m0, m1, ...` of cells.
`fault` records the first thing that leaves the defined behaviour of C: a write outside a
block, a data block that `realloc` moved, the assertion of `stack_ensure_size`. Nothing is
modelled after it.

Three switches separate questions that the code mixes:

- `ReallocMoves`: `realloc` may return another block. `stack_ensure_size` does not rebase
  `values[]` (`stack.c:102`), so if it does, every entry is stale.
- `MemcpyAscends`: `memcpy` on overlapping areas (`stack.c:113`, 256, 271) copies upwards, or
  happens to behave as `memmove`.
- `PopAfterExchange`: an exchange with a larger element leaves the first free pointer inside
  the topmost value (`stack.c:247`). In the code the compiler emits, `EXCHANGE` and
  `EXCHANGE_FRAME` are followed by a `POP`, which repairs it (`compiler.c:397`, 639, 658, 709,
  759); the one exchange that is not, in the prefix operators (`compiler.c:806`), is with a null
  of one cell, never with a larger element.

The abstract specification has none of this: `ImplementsStack` maps the memory to the sequence
of elements a client reads, and TLC checks every step against `AzoStack`. `Conversions` is
what `az_value_convert_in_place_autobox` may leave when limited to 16 bytes, external.

### The machine

The C call chain is the sequence `calls`, one activation per run in progress; `pc` is 0 once
a handler has returned NULL. One step is one instruction with everything its handler does,
the start of a run by the host, or the end of a run (exception printed and cleared, result
taken from `vals[0]`, frames restored). `frames`, `size_frames`, `vals0`, `exc`, `shared` are
the fields of the C structures; `runs` and `last`, and `base`, `returned`, `value` and
`snapshot` in the records, are history that the properties speak about.

A value is a type and an abstract content: a number is known by its sign, a function by the
closure, a boolean by its truth. Arithmetic yields any sign; comparison any outcome. Objects of
the host are not modelled: a lookup finds any value of `Found`, which are those of the host (`Foreign`), nothing, and any
closure made so far, since scripts store closures in objects and hand them to functions of the host. Functions of the host
are known by name, with the types of their arguments in `NativeArgs`; a call of one is one step with any result of
`Found`. A function lookup asks for a number of arguments and finds no function that takes another. `Names` are the contents
of strings and the names of what the host has. Handlers test
their operands in the order of the code, and each test that fails throws the code's exception.
`STACK_UNDERFLOW` is the same number as `SYSTEM` in `exception.h`, and is called that here.

Where a handler would read below the stack without testing (the instructions the compiler
emits without `AZO_TC_CHECK_ARGS`), it has a guard and no step: since TLC looks for deadlocks in
this model, a program that does it fails the run. Division of an integer by zero, which stops
the process, is guarded in the same way and does not occur in the programs checked. A null array index or
size, whose type `convert_to_u32` reads through a null pointer (`interpreter.c:133`), has no outcome in `ToU32`
either.

The interpreter trusts the code it executes in four ways, and each has a name in the model:

- *operands*: constants, captures and static entries an instruction names exist, and no jump goes
  to before the code (`CodeAssumption`, which TLC evaluates on every program of a run, the
  compiled ones included);
- *heights*: an instruction stays within the frame of its run, and `POP_FRAME` ends a frame that the
  run has pushed (`KeepsFrame`, which the runs `machine` and `compiled` check). No handler
  tests it; it is what the resolver and the code generator owe the interpreter. `NotedWell`
  is a condition on the code of one program alone; of all programs it implies `KeepsFrame`, but for
  the arguments of calls (see Proofs). `machine` evaluates it as an assumption (`HeightsAssumption`)
  and `compiled` checks it of all code the compiler writes (`HeightsKept`);
- *captures*: `CLOSURE` binds as many values as the program has captures, and `STORE_VALUE` names a
  capture (`CapturesFit`, which `compiled` checks). A data block holds the captures of a program and
  its constants after them, and `azo_datablock_set` writes a constant entry like any other;
- *order*: when a run ends, no frame it restores is above the stack (`Restorable`, the
  assertion of `azo_interpreter_restore_frame`). It guards the end of a run, so a failed
  assertion is a deadlock.

What all this is for is said by `AzoCalls`, which has no frames, limits or exceptions: a run is a program with
a stack of its own, on which it may do what it likes, with arguments that are copies of the topmost
values of its caller's; when it stops its caller has one value more, the one it returned if it
did return one, and is otherwise as it was. The interpreter keeps all runs on one stack, and an assignment, a wrong
count or a frame restored to the wrong place would show in a run that has long been waiting. `AzoPrivateStacks`
cuts the stack where the runs started (`Own`), and `ImplementsCalls` says that every step of the machine is
one of `AzoCalls` on these pieces. What a run does with its own stack is left open on purpose: that is
the handlers' business, and `compiled` compares it with the meaning of the script.

The programs of `MCMachine` are scripts, compiled by the model of the compiler: assignment to
locals; a function that calls itself without end; closures with captures; a function without a
return; a call with too few arguments; properties, attributes and member calls on `this`; `new`;
array literals and elements; members of a class that the compiler takes for constants. Written
by hand are a loop, a function with every instruction that no script is compiled to, and
its caller. TLC reports coverage for every action.

### The parser

A parser state is a token position, the chain of open nodes (`open`, the last being the current
one), the error of the parser and its log. Each parse function is an operator from state to
state with the calls of the C function in their order: `parser_push`, `parser_pop`, `parser_append` and
`parser_detach_last` are `Push`, `Pop`, `Add` and `Detach`. A failed function returns early with the
nodes it had opened closed, as in the code. `asserts` is the conjunction of the assertions that
were passed. The tokens are words, numbers, strings, operators and the invalid token;
what is a keyword, an operator and its precedences are the tables of the code.

`MCParser` compares the parser with `AzoPrinter`, which writes trees with no more parentheses than
their operators ask for: a program that is printed is parsed back (`RoundTrip`), and a text that is
accepted prints as itself but for parentheses (`NothingIsDropped`).

### The compiler

Each stage is an operator on trees. `AzoResolver` keeps the chain of frames with their scopes
and the list of captured variables, and replaces each name by a constant, a position, a
capture or a member of `this`; `AzoOptimizer` folds and propagates until it substitutes nothing more;
`AzoCompiler` writes instructions. Jumps keep the two forms of the source: a sequence of
instructions whose labels are near is written with labels, and what encloses other code is
patched later by `UpdateJump` (`azo_frame_update_JMP_to`).

An error in the resolver or the optimizer leaves no program. The code generator is different:
`compile_call`, `compile_declaration`, `compile_cycle`, `compile_if` and others ignore the result of
what they call, and `compile_program` makes a program of what had been written. `Attempt` is a
step whose failure is forgotten, `Always` writes even after one.

Three places misuse a pointer, and none is reached by the scripts of the runs. The optimizer reads the type of a null
constant through a null pointer, as an operand of arithmetic (`calculate-constants.c:562`) and in place of a
variable (`optimizer.c:335`): the `CASE` there has no arm for it, and TLC would stop. A comparison with a
constant pointer or block writes into the code not its address but what lies there (`compare.c:108`, 147): the
constant `Memory` says what that is (`Behind`).

`AzoMeaning` is the other side: environments, scopes and closures that keep the values their
surroundings had when they were made. It follows `doc/language.txt`, and the code in
two things that the text leaves open: an exception ends the function, whose caller goes on with null,
and arithmetic is done in the greater type, in `int32` at least. `ReturnsAsWritten` compares what the
machine delivers for a compiled script with what the script means.

## Runs

| Run | Expected | Shows |
|---|---|---|
| `packed` | pass | layout invariants, and that the packed stack implements the sequence |
| `packed_firstfree` | violation of `LastPointsToFirstFree` | `stack.h:37` says the last entry points to the first free value; after an exchange with a larger element it does not |
| `packed_grow` | violation of `EntriesPointIntoData` | a growing block that moves leaves stale entries |
| `packed_overlap` | violation of `ImplementsStack` | an overlapping `memcpy` that copies upwards destroys a value |
| `machine` | pass | frame discipline of the interpreter and of the programs, with the heights noted for their code, exception scope, stack limit, isolation of callers, data blocks intact, one result per call, return to the host; that it implements calls with private stacks |
| `machine_stale` | violation of `NothingReturned` | a property read leaves its value in `vals[0]` and it becomes the function's result |
| `machine_snapshot` | violation of `CapturesAreSnapshots` | the closures of one lambda share their captures |
| `machine_arity` | violation of `ArgumentsAreTheFrame` | with too few arguments the callee is given `this` and values below the frame of the call |
| `parser` | pass | every program of the bounds is parsed into its tree; a mistyped token costs its sentence only, and what is refused is poisoned |
| `parser_braces` | violation of `BracesStayBalanced` | an error inside an array literal ends the enclosing block (`parser.c:317` says it does not) |
| `compiled` | pass | scripts return what they mean, keep to their frames with the stack balanced and at heights that can be noted on every way through the code, bind and store captures only, and end |
| `compiled_chain` | violation of `ReturnsAsWritten` | `a = b = v` assigns `b` to `a` and forgets `v` (`doc/language.txt:258`) |

**Bounds.** `packed`: at most 3 elements, values up to 6 cells high, two contents. Three elements
are an element below, one between and the top, which is what exchange, remove and convert
distinguish; the three sizes give larger, smaller and equal exchanges and a shortage that is
not a whole number of cells. The buffers start with 2 entries and 1 cell, so both arrays
grow, and the data block by both of its rules (doubling is enough, doubling is not enough; for the
entries it always is enough). Deadlock is off because after a fault
nothing follows and the bounds stop pushing.
`machine`: two runs of the host one after the other, any pair of the entry programs, so that the
second meets what the first left; a stack limit of 20 and a frame buffer of 2, so that
recursion reaches the limit and the buffer doubles several times. `Overshoot` is the number of
values that instructions which do not test the limit can add between two that do, the arguments a function is
entered with among them; it is a constant of `AzoMachine`, 4 for these programs, and larger where a function has
more arguments.
`MCNotes` computes the heights of all programs of the run from their instructions, by following every
way through the code until nothing less is known, and TLC checks that they meet `HeightsAssumption` and that `HInv` holds.

`parser`: two constructs around one another, from every construct of the grammar of expressions
and sentences; a token inserted, lost or replaced by one of 23 in a sentence of one construct.
Two levels are what precedence, associativity and the dangling `else` need: an operator has a
neighbour. `MaxErrors` = 3 stands for the limit of the log. `RecoveryIsLocal` excludes braces and
`do`, whose loss changes where sentences end, and a `;` lost. `ErrorsArePoisoned` speaks of texts read to
their end with an error other than a semicolon supplied.
`parser_braces`: the same with two constructs, so that the error may be in a literal in a block.
`compiled`: 204 scripts of four families. *Statements*: seven changes of a variable, an assignment,
a call or a return among them, inside each of nine conditions, loops and blocks; *nested*: the same
constructs inside each other; *lambdas*: eight bodies with captures, through two functions and of
arguments and variables, called directly and by the one who was given them, and exceptions in between;
*operations*: every operator on the pairs of values the optimizer knows or not. Each is once
with variables whose values the optimizer knows and once with some it cannot know.
All jumps forward and backward are taken in some script. A run of the host for each script is enough, since
`machine` checks what one leaves for the next.

Left out of these scripts is what is known to go wrong, each a hazard in the list: an assignment
with several targets (the run `compiled_chain`), a declaration as the body of an `if` or a loop
without a block (`compiler.c:1436`), a lambda that captures a variable of a block it is made in
(`frame.c:64`), and increments as expressions (`compiler.c:806`, `arithmetic.c:199`).

**Fairness.** `HostCallReturns` and `ScriptsEnd` assume `WF_vars(Step)`: `azo_interpreter_run` is a loop
in the caller's thread that executes the next instruction as long as there is one. Starting a run is
the host's choice and is not fair. `HostCallReturns` speaks of programs whose own jumps all go
forward, `ScriptsEnd` of scripts with loops whose conditions become false.

## Proofs

### The machine

`AzoMachineProofs` is about any programs made of the instructions of the machine, any limits and any
number of runs. Its assumptions are those `AzoMachine` states of its constants: `MachineAssumption`
(the kinds of the constants), `HostAssumption` (what is the host's own refers to nothing of the
interpreter; closures a script gave it may come back) and `CodeAssumption`.

- `TypeCorrect`: `Spec => []TypeOK`,
- `ExceptionsConfined`: `Spec => []ExceptionConfined`, a pending exception is the topmost run's.

`TypeOK` is not inductive. A run that invokes a function on the stack needs that the closure exists
and its program does, and a run that reads an operand needs that it is a run of the program
its closure was made of, or the operand reaches past the data block. `IInv` says so of
every value the interpreter keeps, on the stack, in `vals[0]`, in data blocks; it survives new closures
because a value that is sound with `n` closures is with more (`ValidGrows`). Forty-one of the
handlers are ordinary: they throw, or go on with a stack on which at most the topmost `Reach` values
changed. One lemma each says so, from three shapes (`Takes`, `Gives`, `Leaves`), and what
ordinary handlers keep is proved once. The handlers that move frames, write data blocks, jump, call or
end a run have a lemma each.

`AzoFrameProofs` proves what the interpreter owes the callers of a run, as long as the programs keep
to their frames:

- `FramesStayOrdered`: `Spec /\ []KeepsFrame => []FramesOrdered`,
- `CallersStayUntouched`: `Spec /\ []KeepsFrame => CallerUntouched`,
- `RunsReturnToCaller`: `Spec /\ []KeepsFrame => ReturnsToCaller`.

The hypothesis divides the work as the code does: the handlers test types and values, but not
whether what they change is below the frame, so for arbitrary instructions the three are not true. `[]KeepsFrame` is a property of programs,
and the runs check it of compiled ones. The inductive invariant is `FInv`: any two frames
are in order, not only neighbours; each run has a frame of its own where it started, above the first
one of the host, in the order of the calls; and a run that returned is the topmost, has
stopped, and has its value in `vals[0]`, so nothing comes between a `RETURN` and the end of the
run. That a run ends with the value it returned is proved; that a run that returned
nothing ends with none is false, which is the run `machine_stale`.

`AzoHeightProofs` removes that hypothesis for code that can be verified before it runs. Suppose that for
each instruction there is a note (`Heights`) of how many values each frame of the run has at least when
it is reached, and that the notes agree with what the instructions do (`Agrees`): the
instruction finds what it asks for, and what it leaves covers the note of every instruction it may
go on at. `HeightsAssumption` says so; the compiler makes no notes, but TLC computes them for
everything the runs `machine` and `compiled` execute. Then

- `HeightsStay`: `Spec /\ []CallsFit => []HInv`, the notes hold of every run in progress,
- `FramesAreKept`: `Spec /\ []CallsFit => []KeepsFrame`,
- `OperandsAreInFrame`: `Spec /\ []CallsFit => []OperandsInFrame`, also for what handlers do test,
- `NothingIsMissing`: `Spec /\ []CallsFit => []NoUnderflow`,
- `StackStaysBounded`: `Spec /\ []CallsFit => []StackBounded`, for every limit and every `Overshoot`
  the notes keep to,
- `VerifiedCodeIsSafe`: the three theorems of `AzoFrameProofs` with `[]CallsFit` for `[]KeepsFrame`.

`CallsFit` is what no look at the code of a caller can tell: the function that `INVOKE` calls is
found at run time, and has as many arguments as it declares. It is the `INVOKE` case of `KeepsFrame`,
so the runs check it; it is a real condition, since the interpreter does not count (`interpreter.c:1360`):
a function of two arguments that is called with none takes values from below the frame of the call. The
theorems are about all other instructions.

The argument has two halves. `AzoEffectProofs` proves for each handler that, where the frame holds
what the instruction asks for (`Asks`), no test for missing values fails, and the run stops or goes on where
`Follow` says with a stack longer by what `Balance` says (`Obeys`). `AzoHeightProofs` proves that
`FInv` with `HInv` is inductive. `KeepsFrame` is not, because that an instruction finds its values depends on
all that ran before it, in its run and in those it called. `HInv` therefore says of *every* run in
progress that its frames have the values noted for the instruction it is at (`Noted`), and that each run
but the topmost is at the `INVOKE` it waits in (`Waiting`), so that when a call ends, whatever it did, the caller
goes on from the note of its `INVOKE` with one value more. Two
things are finer than a count of values. `SET_PROPERTY` leaves `true` in the place of three values, or `false`
above them, and only the `JMP_32_IF` after it tells the two apart (`Extra`). And notes bound frames from below,
since ways that meet may leave different heights (`LOOKUP_PROPERTY` adds two values or none), while for the
limit `over` bounds the excess from above: the instructions that test the limit reset it, the others add to it, and a call hands it over.

`AzoCallProofs` proves the refinement for the same code:

- `CallsAreImplemented`: `Spec /\ []CallsFit => ImplementsCalls`.

`FInv` tells where the stack is cut: each run starts at the frame that was pushed for it, and those frames
are in order, so the pieces follow each other without overlap. A step of one run then has to leave all cuts but the end of the last piece where
they are, and the values below the last cut (`KeepsRuns`); this follows from `CallerUntouched`'s
strengthening `Untouched` for every handler at once, so the ordinary handlers, those that move frames, throw or
jump are all `Work` (`OnwardWorks`). Three kinds of step remain. A `RETURN_VALUE` finds its value in its own piece, because
`Asks` holds of its note (`ReturnReturns`). An `INVOKE` that enters a program cuts the stack once more, after copies of
the arguments were pushed; that the arguments come from the caller's own piece is `CallsFit`, and that the caller's piece keeps
them is that the new run starts above them (`EnteredCalls`). The end of a call removes a cut, drops
what was above it and adds one value, which is what the frames restored to `prev_frame` amount to
(`EndOfCallEnds`, from `EndOfCallRuns` of `AzoHeightProofs`).

`AzoDataProofs` is about the blocks of captures and constants:

- `BlocksStayIntact`: `Spec /\ []CapturesFit => []BlocksIntact`, the constants of a program are as the
  compiler wrote them and the captures in its block are those of its last closure.

Beside `IInv` it needs no strengthening. A `STORE_VALUE` finds a capture that is set once a closure of the
program exists, and then leaves it; where none exists nothing is said of the captures, and constants
are out of its reach by `CapturesFit`. A `CLOSURE` makes the last closure of its program, so what held of
the earlier ones is not asked any more, and stops short of the constants. That a closure made *earlier* reads
other captures than its own is the run `machine_snapshot`: `BlocksIntact` is what the shared block does promise.
For the scripts of `compiled` it follows from `CapturesFit`, which is what that run checks.

### The packed stack

`AzoPackedStackProofs` proves, for every set of value types and sizes, every start size of the
blocks, every bound, and whatever `realloc` and `memcpy` do, that with a pop after each exchange

- `TypeCorrect`: `Spec => []TypeOK`,
- `NeverOverruns`: `Spec => []NoOverrun`, no write outside the blocks,
- `ElementsStayApart`: `Spec => []ElementsApart`, no two elements share a cell.

They follow from one inductive invariant, `IInv` (theorem `Invariance`):

    IInv == TypeOK /\ NoOverrun /\ Ordered /\ WithinData /\ Roomy

`ElementsApart` alone is not inductive. An exchange shifts all entries above a position, so
the proof needs that *every* entry comes after the cells of the element below it (`Ordered`, where
the entries, the first free pointer included, increase strictly, and that pointer is only known to
lie past the start of the topmost element, which is what a torn exchange leaves). Writing past the end is excluded because `stack_ensure_size` keeps
`length < size` and the first free cell no further than the end of the block (`Roomy`): a push
writes `impls[length]` before it makes the arrays grow, and relies on the entry the operation
before it left to spare. The lemmas treat growth (`GrownSize`, `GrownCells`) once, and each
operation then has one lemma, by cases on the kind of exchange and on whether a conversion
needs room. The assumption `PopAfterExchange` is a hypothesis of each theorem; without it the
run `packed_firstfree` shows how it fails.

`AzoRefinementProofs` proves that the layout implements the stack of `stack.h`, under the same
assumption and `~MemcpyAscends`:

- `ElementsIntact`: `Spec => []Intact`, every element reads back as one whole value,
- `PackedImplementsStack`: `Spec => ImplementsStack`.

Both speak of every state up to the first fault, after which the model stops. Memory `Holds` an element where all its cells
lie in order. A run of cells that is moved keeps the elements it contains (`MovedHolds`) and every element
it is not written over (`MovedKeeps`), and the order `IInv` gives the elements in memory tells which
those are. So each operation has a lemma that memory afterwards is `Laid` out as the plain operation's
sequence, and another that its entries are where the next operation expects them; exchanges and conversions
that change the size of an element share `ShiftImplements`. `Intact` is what this needs beside
`IInv`. That `Junk` is not the cell of any element is the
assumption `JunkAssumption` of `AzoPackedStack`. What happens without `~MemcpyAscends` is the run
`packed_overlap`: an overlapping `memcpy` breaks the refinement, so that assumption is about the C library and
not about this code.

### Model-checked only

- That the code the compiler emits has heights to note, and that calls fit: TLC computes and checks the
  first (`HeightsAssumption`, `HeightsKept`), `CapturesFit` for the scripts of `compiled`, and `KeepsFrame` for the programs of `machine` and `compiled`. That it is
  so for every script is a fact about the recursive functions of the compiler.
- The parser and the compiler: both are recursive over trees of any depth, with recursive operators
  and facts by induction over data, which are out of the prover's reach.
- `HostCallReturns` and `ScriptsEnd`: liveness under fairness, out of its reach too.

## Not modelled

- Tokenizer, numbers and source (`tokenizer.c`, `number.c`, `source.c`): characters to tokens, byte
  by byte, with a unit test for each class of token.
- Numeric values: a number is known by its type and sign. So NaN, overflow, the `MAX_TYPED` mix-up of
  `interpreter.c:1318`, the bits of a float read as an index (`interpreter.c:195`) and division by
  zero, which stops the process, are not distinguished.
- The pointers `INVOKE` passes into arrays that a push may reallocate (`interpreter.c:1365`), which
  needs both machines together.
- Reference counts and weak references of data blocks; the growth of the byte buffer of `code.c`.
- Functions of the host that call the interpreter back: `INVOKE` of one is a single step, so nothing else moves
  the stack or `vals[0]` meanwhile. Objects of the host do not remember which of the closures a script stored.
- The stack of the process: each call in a script is a C call, so deep recursion may exhaust it before the
  limit of the value stack does.
- Classes of the host: what a lookup finds at run time is any of a set of values, and what the
  compiler may take for constant are the constants `Finals` and `Constructors`.
- Definition in contexts and namespaces; printing; the debugger, which `program.c` switches off;
  `stack-compact.c`, which is not built; legacy keywords behind `#if`; the vendored test framework.
