# A TLA+ development for the kefir C compiler

Kefir is a compiler for C17/C23: a driver that runs the stages of a compilation as child
processes, a compiler proper (preprocessor, lexer, parser, semantic analysis, IR,
optimizer, amd64 code generator), and a library of containers under all of them. This
directory models parts of it in TLA+, checks the models with TLC on small instances, and
proves with TLAPS, for all instances, what the prover can reach. `PROJECT.json` lists
every part, run, mapped definition, hazard, finding and theorem; this file explains them.

    driver -- fork --> compiler: preprocessor > lexer > parser > AST > stack IR
      |                          > optimizer > target IR > register allocator > assembly
      |-- fork/exec --> assembler
      |-- fork/exec --> linker
      `-- fork/exec --> the program itself (-run)

| part | modules | run | proofs |
|---|---|---|---|
| driver, child processes, temporary files | `Process`, `Driver` | `driver` | `DriverPlan`, `DriverProofs` |
| macros | `MacroExpansion` | `preprocessing` | - |
| directives, inclusion | `Preprocessor`, `PreprocessorReference` | `preprocessing`, `unfinished` | `PreprocessorProofs` |
| parser cursor, pragmas, error recovery | `ParserPragmas` | `parser` | `ParserProofs` |
| optimizer: op-simplify, constant-fold | `OptWide`, `OptIR`, `OpSimplifyInt`, `OpSimplifyFlow`, `ConstFold`, `Optimizer` | `optimizer`, `negated_guard` | - |
| code generation: integers, 128 bits, x87 | `Amd64`, `CodegenInt`, `CodegenWide`, `CodegenX87` | `codegen` | - |
| register allocator | `RegAlloc` | `regalloc` | `RegAllocProofs` |
| hash table | `HashTable`, `Map`, `PowersOfTwo` | `containers` | `HashTableProofs`, `PowersOfTwoProofs` |
| hash tree, interval tree, source map | `HashTree`, `IntervalTree`, `Map` | `containers` | - |
| token buffers | `TokenBuffer`, `TokenSequence`, `PowersOfTwo` | `containers` | `TokenBufferProofs`, `PowersOfTwoProofs` |
| big integers | `BigInt`, `BigIntCalculator`, `BigIntText` | `bigint` | - |

Each run has a module `MC...` that gives the constants their values. A run that covers
several components has a variable for the component a behaviour is about; the variables
of the others keep their initial values.

The parts meet in few places. The driver calls the compiler in a fork, so that the
compiler inherits the driver's signal and exit handlers. The lexer fills token buffers,
and the preprocessor and the parser move their tokens and index them; the buffer's chunks
are in a hash tree. The parser applies pragmas while it backtracks. The optimizer and the
code generator share the meaning of operations, which `OptIR` defines once: a pass must
keep it and the generated code must compute it. The target-IR analyses give the allocator
an interference relation, hints and hotness, and the allocator tells the stack frame what
it uses.

## How to read the models

Control is kept (every guard, early return and error path, in the order of the code) and
data is abstracted to what the properties tell apart. The comment of a definition names
the C function it stands for. A step is as large as the code allows: the compiler is one
thread, so an operation is one step unless something can come in between (a signal, a
failing allocation, another call of a recursion). Definitions marked as mutants state a
plausible error in the definition that follows them. They take no part in the
specifications; with one of them in place of its original the run named in
`PROJECT.json` finds the property violated, which shows that the property can fail.

Widths are scaled where the width itself is not the point: an operation on 64 bits and
one on 7 use the same definition, and every width is larger than the one before it.
Where a number of bits or a threshold matters it is a constant.

## Driver, child processes, temporary files

`Process` holds the file system, the temporary file manager (`tempfile.c`) and one child
(`process.c`). Making an entry on disk and recording it are separate steps, because a
signal may come between them. A child is `forked` until it sets `process_is_fork`; until
then the handlers it inherited would remove the parent's files. The removal
(`kefir_tempfile_manager_free`) takes a step for every call it makes: `LookAtEntry` asks what
a recorded path is and lists the directory, `RemoveNext` removes one path, and other
processes run in between. The first `remove()` that fails ends the traversal
(`RemoveFails`); the handler of a signal runs it once more, then over a tree whose nodes are
partly freed, so that it may come to any of the entries left or to none. A fork that runs
the inherited handler does the same on its own copy of the record (`ChildRemoves`). The order
of the removal, which is that of hashes and of directory entries, is the constant `Before`;
paths it does not order are removed in either order. `Driver` EXTENDS `Process` with
`driver_run_impl`: the nested calls for one argument are the list of steps `todo`, and a
step makes a temporary file, runs a child or adds a linker argument. Every step that can
fail in the code can fail in the model: making temporary files, `kefir_process_init`,
`fork`, `waitpid`, the child itself. A signal reaches the driver and the child at any
point; in the window after `fork` the child answers it with the inherited handler.
Assembler and linker are external: they need complete inputs, may fail at any moment, and
leave a partial output when they do.

Run `driver`: command lines of up to two arguments of five types, at six stages, with and
without `-o`, dependency output and `-MT`, and lines of three arguments that link or
assemble. The second argument has the base name of the first or another one where names
matter; with two arguments dependency files are asked for where the compiler is the last
stage, and lines that link have a second argument of two types. Two arguments are enough for
state to leak from one to the next and for an earlier output to be there when a later stage
fails. `MCBefore` removes files in the order of their making and the directory at any point.
Fairness is weak fairness of the driver and of its child: the operating system schedules
both, and compilers, assemblers and linkers end. The program that `-run` starts is a child
as well, and that it ends is an assumption about the user's program, without which the
driver waits as long as the program runs; `Terminates` is about `-run` under this
assumption only. None is assumed of signals. Deadlock is not checked, because the program
ends.

* `TempsGone`: no temporary file is left when the driver is gone, but for the outputs of a
  child that outlived a driver killed by a signal, which may be made again after they were
  removed, and the directory that holds them. The directory alone may also stay if a signal
  comes between `mkdtemp` and the insertion into `tracked_files`. Two cases are left aside,
  because nothing is promised there: a signal that comes while files are being removed
  (`mgr.cut`), and a child that ran the driver's handler before it set `process_is_fork`
  (`child.swept`), so that two processes remove the same files.
* `NoPartialOutput`: a failure leaves no half-written output, but for a default `a.out`
  whose linker could not be waited for, and dependency files.
* `Built`: what exit status 0 promises about every output.
* `StageInputsWhole`: no child starts on an input that is missing or incomplete.
* `AbortsOnError`: the EXIT STATUS section of the manual.
* `Terminates`: the driver comes to its exit.

Proved for command lines of any length (`ConfigurationsAssumption`: arguments of the known
types, and no output has the name of an input): all but `Terminates`. The invariant `Inv`
of `DriverPlan` has a part for each thing the properties rest on: the steps left for an
argument are a suffix of the plan of its type, the names set so far are those of the plan
(`PlanInv`, `StepsInv`, `OutputInv`), a child has the job of the step the driver is at
(`WaitInv`), what is in the directory is recorded or about to be (`DirInv`), the removal
still has before it whatever is there, except what a living child may have made again
(`RemovalInv`), half-written
files are only where someone will remove them (`PartialInv`), what earlier steps and
arguments made is whole and made from the right argument (`WholeInv`, `CountInv`,
`FreshInv`, `BuiltInv`), and after a failure the driver is on its way out (`BrokenInv`).
`FreshInv` is what makes the rest inductive: names of temporary files are numbered, so a
file already given to the linker is never written again. `DriverPlan` proves the parts
about the plan, names, processes and directories, `DriverProofs` those about what has
been made, and the theorems.

Left out: `-MF`, `source_id`, verbose output, the text of command lines, the `PRINT_*`
stages, redirection of the program of `-run`, memory failures, and the branch for NetBSD and
DragonFly (`tempfile.c:169`), where temporary files are made outside the base directory: there
only the record leads to a file, and one that a signal meets between `mkstemp` and `Track`
stays. `TempsGone` is about the other platforms.

## Preprocessor

`MacroExpansion` is the replacement of macros. The calls of the code nest (a scan applies
a macro, whose replacement scans each argument), and the stack of those calls is state. A
token carries the macros it came out of. `Preprocessor` has the directives: a stack of
open files, each with its own condition stack, while macros and the set of files marked
`#pragma once` are shared. Both are compared with definitions written from the C standard
as recursive operators (`Reference` in `MacroExpansion` and in `PreprocessorReference`).

Run `preprocessing`: macros that name and call themselves and each other, replacement
lists of up to four elements over two parameters with `#` and `##`, variable arguments, and
lines of `#if` with `defined`; programs of conditional sections of up to five lines, of
macro definitions and tests, and of three files that include each other. Inclusion is cut
off at depth 6, which three files reach only by including each other without a guard.
Fairness is that of the one thread that preprocesses.

* `MacrosFollowStandard`, `LinesFollowStandard`: the output is the standard's.
* `GuardedTextOnce`: a file guarded by `#pragma once` or by a macro of its own gives its
  text at most once, whoever includes whom in the meantime.
* `Terminates`: replacement ends, and so does inclusion when the files are guarded.

Run `unfinished` (`MalformedRefused`) finds that a file may end inside a conditional section (see Findings).

Proved, for every set of files (`SourcesAssumption`): `GuardedTextOnce`. The invariant
says that the guard of a file is not set when its guard line is reached and is set behind
it (`MarkInv`), that therefore a guarded file is entered once at a time (`OneInv`), and
that what it has given comes from lines before the one it has reached (`BehindInv`).
`StackInv` is needed because a file that is suspended stands behind an `#include`, so that
returning to it does not pass its guard again. The condition stack jumps over groups;
`LeastLine` and `SkipForward` show that such a jump only goes forward.

## Parser: cursor, checkpoints, pragmas, error recovery

`ParserPragmas` has the token cursor, `kefir_parser_apply` with its checkpoints, the pack
pragmas and their stack, the loops of translation units and compound statements, and the
recovery after syntax errors. The C call stack is `frames`. Which rule is tried and
whether it matches is left open, so the results hold for any grammar on top of these
functions. Two histories are kept: `skipped`, the pragmas that a rule shifted over without
applying them, and `exact`, which becomes false where the code is known to leave the text
(see Findings): when a recovery of the unit goes back with the cursor and not with the
pack state, and when a pack pragma stands right behind a left brace.

Run `parser`: token sequences of up to eight tokens with pack pragmas of every kind between
ordinary tokens and around and inside blocks, and sequences of braces, semicolons and
pragmas to recover from, with up to three errors. `MaxDepth` bounds the nesting of rules
and blocks and `MaxTries` the rules tried before a token is shifted (a grammar that
recurred without shifting would not end); one retry is enough to apply a pragma twice.
Deadlock is checked. Fairness is that of the one thread that parses.

* `PackFollowsText`: pack value and pack stack are what the pragmas before the cursor give
  when each is applied once, however often the parser went back.
* `CheckpointsIntact`: the stack a checkpoint refers to is what it was when it was saved.
* `RecoveryAdvances`: recovery gets past the item that failed, or to the end.
* `GarbageIsBalanced`: the tokens skipped close every brace they open. It is about inputs
  without a pragma right before a brace: the test for a brace looks past a pragma that the
  shift then takes in its place.
* `Terminates`: every parse ends.

Proved, for every input over the tokens (`InputsAssumption`), every depth and every bound
on errors: all but `Terminates`. The invariant says of every checkpoint on the call stack
that it is faithful: the entries it leads to are still those it was saved with, and, while
`exact`, pack value and stack are those of the text before it. The first part holds because
entries of the pack stack are never overwritten, only added (`Grown`), so that going back
with the top alone is enough; without the second part nothing would be known of the state
after a rule does not match. The stack and the state of the text are recursive functions;
`StackUnfolds`, `ScanUnfolds`, `PlainUnfolds` and `OpenUnfolds` show that they satisfy
their equations, each by a least counterexample. For the recovery, `GarbageEnds` says where
the loop stops, from which `GarbageAdvances` and `GarbageBalanced` follow. With an
unbounded number of errors the model does not count them, and the two properties about
recovery, which recognise a recovery by the count, say nothing there.

Not modelled: the grammar, typedef names, the recovery in initializer and argument lists,
which stop at other tokens, and the loop of statement expressions
(`statement_expression.c:39`), which repeats that of compound statements with the same
synchronisation points but reads no pragmas behind its brace and ends at `})`.

## Optimizer

`OptIR` is the representation: numbered instructions, for each block its instructions and
its control-flow list, uses, replacement, merging of blocks, dominators, and a meaning,
which evaluates a function on argument values. `OptWide` adds values that do not fit a
register. The rules of op-simplify are `OpSimplifyInt` and `OpSimplifyFlow`, in the order of
the code, because the first one that applies decides; the folds are `ConstFold`. `Optimizer`
has the two walks: op-simplify repeats its own until nothing changes, constant-fold walks
once and meets the instructions it appended.

Run `optimizer`: 25 suites of functions, straight lines of two or three operations and
functions of up to four blocks with branches, phis, selects and unreachable points, one
suite for each family of rules. Widths of 8, 16, 32 and 64 bits are scaled to 2, 3, 4 and 7;
the meaning is compared on 15 pairs of argument values, with the unused high bits of
registers all zeros and all ones.

* `MeaningPreserved`: the function a pass leaves does what the given one does, wherever
  that is defined.
* `OperandsDominate`: no operand is used before it is computed.
* `Converges`: no function takes more than `MaxRewrites` rewrites, so that rules do not undo
  one another.

Run `negated_guard` is a function whose meaning is lost (see Findings).

Left out: atomic accesses, copies of memory, casts of `_BitInt`, parts of complex values,
calls, inline assembly. The host's floating-point arithmetic is external and scaled to a
few significant digits. So are the complex products and quotients of `softfloat.c`:
`SoftfloatComplex` equates them with the reference, and the run says only that they are
called with the right operands.

## Code generation

`Amd64` is the machine, external to the repository: what the generated code relies on.
`CodegenInt` emits the code of integer operations and runs it beside the meaning of
`OptIR`; `CodegenWide` has 128-bit operations and checked arithmetic; `CodegenX87` the
generator's list of the long doubles on the x87 register stack, with the stack itself.
What an instruction leaves undefined is all zeros or all ones.

Run `codegen`: every integer operation at every width on ten argument values, on constants
that do and do not become immediates, and on chains of truth values; every 128-bit
operation and checked arithmetic on mixtures of widths and signedness; all sequences of
x87 instructions over four values on a stack of three registers, spilled by exchanging, and
over three values, spilled by rotating. One value more than registers is what makes the
generator spill. For 128 bits the register has 8 and the value 16 bits, powers of two as in
the code, and shifts take every amount below 16: an amount of a whole register or more is
what the code after `test` is for. Larger amounts are undefined in C.

* `IntegersRight`, `WideRight`: every register holds the value of its instruction, also
  while later code runs, and operands survive.
* `LongDoubleOperands`: an instruction finds its operands, in order, and the stack neither
  overflows nor underflows.
* `LongDoublesKept`: list and stack agree, and a value that may be used again is on the
  stack or in its spill slot.

## Register allocator

`RegAlloc` models `kefir_codegen_target_ir_regalloc_run` with the amd64 class. What the
allocator is given is a record `fn` taken from the constant `Funcs`: kinds, required
registers, interference (with the number of times a pair is listed, because
`interference.c` does not remove duplicates), hints, hotness, the blocks and the dominator
tree. One turn of the loop in `do_regalloc` is one step: `SkipAllocated`, `FailConstraint`,
`Allocate`, `SpillCurrent` or `Evict`. `NextBlock` and `NextValue` are the outer loops,
`Rerun` is the second run of `construct_target_ir`. A location is a register or a slot
number and an allocation a set of locations, so that registers and spill areas are treated
alike. `do_allocate` has several exits (no storage, the required register, a hinted register,
a free one, hinted indices, a new area), and each reports to the stack frame itself
(`UseRegister`, `UseSpillSpace`); an exit of the model is a grant with its location, the
slots it needs and the frame it leaves. General-purpose and floating-point registers have
exits of their own in the code, with the same text; the model has one for both, and the class
decides the registers. The conflict counters need not be state: they are rebuilt for every
value, and `Conflicts` and `ConflictsWithout` say which of them are positive. Orders that
depend on hashing (hints, partners) are left open.

Run `regalloc`: four values in two blocks, one register of each class, all 64 interference
graphs with pairs listed once or twice, three hotness assignments (with a zero lifetime and
a missing record), no, one and two required registers, hints for all pairs that do not
interfere or for none, four mixtures of kinds; and two consecutive runs with another
function in the second. With one register per class the second interfering value already
evicts or spills, and the fourth meets values that were evicted before it. Fairness is that
of the allocator's own steps: it is sequential code. Deadlock is not checked, because the
allocator ends.

* `NoConflict`: interfering values never share a location.
* `AllocationFits`: class, requirement, size and alignment of every allocation.
* `ErrorIsGenuine`: a constraint error only for a function that asks for the impossible.
* `FrameCovers`: the stack frame knows every register and reserves every slot in use, whichever
  exit granted it, in both runs.
* `Terminates`: evictions come to an end.

Proved, for all sets of values, blocks and registers and all functions that satisfy
`FuncsAssumption` (interference is symmetric and irreflexive, a required register belongs to
the class of its value): all but `Terminates`, and also that no value is forgotten
(`NoneForgotten`) and that a value is only evicted for a hotter one (`EvictedForHotter`).
`NoConflict` is not inductive. Its strengthening `Apart` says that a value is apart from
everything its neighbours hold *or are entitled to* (`ConflictOf`): a required register is a
conflict from the beginning, which is what the first test of `build_constraints_and_hints`
is for, and without it a value could be placed where a neighbour must go later.
`QueueStorable` keeps resources off the work list. The delicate step is `Evict`: the
conflict table is patched, not rebuilt, and it stays right because the counter only reaches
zero when nobody else was counted there. For `FrameCovers` the invariant says of the frame of
every grant that it has grown and covers the grant (`DoAllocateSound`, exit by exit). Taking
over a partner's register or indices is the delicate exit: a required register is a hint
before its owner was allocated, so that no report of the owner can be relied on.

Lifetimes and uses are natural numbers (`fragment_length <<= 1` is done in 32 bits by the
code, and a wrap would need a lifetime of 2^31 instructions). Memory failures are left out.

## Containers

`HashTable` models `hashtable.c`: double hashing over a power of two of slots, deletion
marks, growth by occupation or by collisions, trimming and reservation. An operation that
does not rehash is one step. A rehash is taken entry by entry, with the old and the new
table both in the state, and any of its allocations may fail. `Upper` and `Lower`, the
halves of the hash, are constants: the properties may not depend on them. The code computes
the probe in fixed-width integers and masks it; for a capacity that is a power of two the
mask is a remainder, and a wrap around does not change it.

`HashTree` is the AVL tree: an insertion or deletion relinks in one step and rebalances one
level per step. `IntervalTree` EXTENDS it with the largest end below a node, which is
recomputed when the tree relinks nodes, and with the source map of `debug.c`. `TokenBuffer`
has chunks of tokens keyed by the index of their first token; an insertion moves them one
by one, merging small ones, and may fail in between, as may a copy. After such a failure the
source may lead to a chunk that `realloc` has freed already (`token_buffer.c:184`), and
releasing it is undefined: the model goes on with an empty buffer, or not at all.

`Map` and `TokenSequence` are the abstract specifications: a partial function with the
result of each operation and what the removal callback gets; and plain sequences, where an
insertion or a copy happens at once, and one that fails has moved a prefix and (for an
insertion) leaves a source of no use.

Run `containers`, with failing allocations everywhere: tables of four keys that collide on
the first slot, on the step, or on both, with up to eight slots (growth, tables full of
marks, reuse of marks; the collision threshold is 4 instead of 32 so that tables this small
reach it), and of two keys and two values with up to sixteen (trimming, reservation); trees
of six keys, two of which share a hash, which is enough for all rotations and for deletion
of inner nodes; a source map of six ranges that nest and overlap, inserted in any order; two
buffers whose chunks have two to four tokens. `MaxCapacity`, `MaxInserts` and `MaxLength`
bound them: no operation that may exceed one is begun. Deadlock is not checked, because
at the bounds there may be nothing left to do.

* `AlwaysRoom`: no insertion reports "Unable to find position for element insertion".
* `IsMap`, `TreeIsMap`: table and tree implement `Map`; the steps of a rehash and of a
  rebalancing are stutters.
* `TreeSearchable`: links agree, the tree is balanced, every search answers what the keys say.
* `RangesFound`: a search returns covering ranges, in order, and one that finds anything
  passes over none.
* `ChunksFit`: no chunk is empty or larger than its memory, a power of two up to the bound.
* `TokensAreSequence`: the buffers implement `TokenSequence`.

Proved for the hash table, for all keys, values, hashes and thresholds (`HashAssumption`,
`ThresholdAssumption`, `EnsureAssumption`): `AlwaysRoom` and the refinement `IsMap`, and that
every entry is reachable and unique, that lookups are exact and that `occupied` counts. The
arithmetic is that an odd step is coprime with a power of two, so that a probe visits every
slot. The invariant `IInv` says of both tables that they are searchable, hold no key twice
and count right, and of a rehash in progress that the new table holds exactly the entries of
the slots passed and has room for all of them; without the last part the step that finishes
a rehash could not be shown to leave the map alone.

Proved for the token buffers, for any buffers, tokens and sizes that are powers of two
(`CapacityAssumption`, `ArrivingAssumption`): `ChunksFit` and the refinement
`TokensAreSequence`. The invariant `BufferInv` says that the chunks of a buffer tile it: each
begins where the one before it ends. During an insertion this is false of the source; there
the chunks that have not been moved tile the rest, from the index that the number of tokens
arrived at the destination gives (`InsertInv`). During a copy the destination's tail is the prefix of
the source that was copied (`CopyInv`). The refinement mapping `Visible` hides an operation in
progress until it ends, and the proof shows step by step that moving or copying leaves it
alone. That a chunk meets the bound exactly rests on `NextPower`: between two powers of two
the double of the smaller is at most the larger.

## Big integers

`BigInt` has the operations of the header library `kefir_bigint` on arrays of digits. The
digits hold a two's complement pattern in their low `width` bits; what is above is whatever
earlier operations left there. `BigIntCalculator` runs any sequence of operations on two
integers and keeps the number each should hold beside it; `BigIntText` reads and writes
numerals, and rejects a text with an unexpected character.

Run `bigint`: digits of two bits, machine integers of four, and widths of 1, 4, 5 and 6 bits,
so that carries and shifts cross digits and the last digit is full or partly used; a
significand of two bits, so that up to two bits are shifted out below the sticky bit; numerals
of up to four digits (six in base 2) in four bases, with leading zeros, unexpected characters
and buffers that are longer than the text, on digits of eight bits.

* `Denotes`: after any sequence of operations the low bits are the right number. Products are
  also looked at in widths up to twice that of the operands. There the signed product is not
  claimed for the smallest integer on the right, for whose opposite Booth's accumulator has
  no room: all callers in the compiler ask for a product as wide as its operands, and the
  tests of the library widen the operands first.
* `AnswersExact`: queries and comparisons do not see what is above the width.
* `RoundsToNearest`: conversion to floating point rounds to nearest even and saturates.
* `NumeralsExact`: numerals are read and written completely, within the computed sizes, and a
  text is rejected exactly if a character is no digit of its base.

## Findings

Two runs show the code doing something else than the C standard requires, from which
`README.md` of kefir allows only documented deviations.

1. `unfinished`: a file that ends inside a conditional section is accepted, because the
   condition stack is freed without being looked at (`preprocessor.c:1498`).
2. `negated_guard`: `simplify_or_candidate` does not look at the variant of the branch that
   guards a disjunction (`op_simplify.c:254`): `if (y) return (y || q);` returns `q`.

Other places where the code leaves the standard or its own documentation were met while
modelling. The models follow the code there, and the passing runs leave the inputs concerned
aside, or the property names the exception:

* driver: a `.S` argument leaves assembly preprocessing on for later C sources
  (`driver.c:452`); with `-c -MD` and several sources all rules go to one file, where the
  last replaces the others (`driver.c:682`); the target of `-MT` is cleared after the first
  argument of a preprocessing stage (`driver.c:888`). No property is about the contents of
  dependency files or the mode of the preprocessor;
* macros: a name taken out of its own replacement may be replaced again when its parenthesis
  comes from elsewhere (`substitutions.c:283`; behaviours marked `straddled` are not
  compared, and `NeverReplacedAgain` states what the standard asks); `f()` of a macro
  `f(x, ...)` is refused (`substitutions.c:200`);
* directives: a second `#else` is skipped, not refused (`preprocessor.c:1256`); a directive
  behind a comment is text (`directives.c:167`); in a skipped group the rest of a nested
  `#else` line is read (`preprocessor.c:247`);
* parser: pack pragmas right behind `{` are applied to an empty state
  (`compound_statement.c:46`), and recovery of the unit restores the cursor only
  (`translation_unit.c:238`), both tracked by `exact`; at the end of a file inside a block,
  recovery with unbounded errors does not end (`compound_statement.c:71`), so the run bounds
  them;
* optimizer: `op_simplify.c:1924` (one constant as both operands of an inner difference),
  `:644` (widths of guard and conjunction not compared), `:653` (variant of a select not
  looked at), `const_fold.c:2841` (an unsigned bit-precise constant with its top bit set is
  sign-extended), `:2441` (long double to decimal goes through double);
* x87: room is made after the operand has left the list when a complex number is made of one
  value twice (`complex.c:284`), and ordered relations of a value with itself compare it
  with what is below it (`builtins.c:1577`); `Twice` leaves them out where they bite;
* containers: the first node of a tree is allocated without a test (`hashtree.c:340`), so that
  an interval may be lost while the bound of its entry is raised (`FailInterval`); after a
  double rotation one node keeps the bound of a branch it has lost, so that a search may find
  nothing (`hashtree.c:171`; `RangesFound` is about searches that find something, and
  `CoveredIsFound` states what is missing).

## What is proved and what is only checked

Proved for all values of the constants: the invariants and action properties of the driver,
the register allocator, the parser and the token buffers named above, `AlwaysRoom` and
`IsMap` of the hash table, `TokensAreSequence`, and `GuardedTextOnce`. The theorem modules
use nothing beyond the assumptions on constants named in each section, which TLC evaluates in
the runs. Where a recursive function or an induction over the natural numbers is needed, the
argument is a least counterexample (`LeastCounterexample` in `PowersOfTwoProofs`): a set of
counterexamples without a least element is empty.

Only model-checked, and why:

* liveness (`Terminates` of the driver, the allocator, the preprocessor and the parser) needs
  fairness and ENABLED, which the prover does not treat;
* `TreeSearchable`, `TreeIsMap`, `RangesFound`: balance and reachability in a tree need
  induction over its shape;
* `MacrosFollowStandard`, `LinesFollowStandard`: their references are recursive operators;
* `OperandsDominate`, `MeaningPreserved`, `Converges`, `IntegersRight`, `WideRight`, `Denotes`,
  `AnswersExact`, `RoundsToNearest`, `NumeralsExact`: their modules use recursive operators,
  folds and bitwise operations, whose values for every input are found by induction over data;
* `LongDoubleOperands`, `LongDoublesKept`: the code of one instruction is a composition of
  several list and stack operations, recursive ones and folds among them.

## Not modelled

What `PROJECT.json` lists as `not_modelled` has its reason there. The lexer's scanners, the
grammar, the typing rules, the AST translation, instruction selection and the printers are
tables of independent cases, and a model would repeat them. Target IR, its analyses and its
transformations have a meaning that is not written down; the allocator's module takes any
interference, hints and hotness that satisfy `FuncsAssumption` in their place.
