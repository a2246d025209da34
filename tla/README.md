# min-corehdr in TLA+

`min-corehdr` writes the smallest `vmlinux.h` that a set of BPF object files needs. It reads
the BTF of a kernel (the *base BTF*) and of each object, finds the kernel types that the objects
name, adds what their definitions need, and prints them as C. This directory holds TLA+
specifications of the program, the TLC configurations that check them on small instances, and
TLAPS proofs of what holds for all instances.

Contents: [inventory](#inventory) · [modules](#modules-and-the-code) · [runs](#runs) ·
[fairness](#fairness) · [proofs](#proofs) · [findings](#findings) ·
[known divergences](#known-divergences) · [limits](#what-is-only-model-checked-and-what-is-not-modelled) ·
[plan](#plan)

## Inventory

The program is one thread per process. Its concurrency is that of processes: several
invocations of a build may write one path, and any of them may be killed. Everything else that is
hard is sequential: loops over graphs with cycles, sets updated while they are traversed, and
failures halfway through a step.

| Part | State | Operations | Called by | What makes it correct |
|---|---|---|---|---|
| `main.c` flow | options, what is held, exit code | parse, prepare, per object: load, seeds, relocations; closure, emission, explanation, clean-up | the shell | everything acquired is released; the exit code tells what became of the output; the union over objects |
| `main.c` output file | a temporary file, the output path | `open_temp_output`, `write_header_to_path` | `main` | the output path is replaced atomically; temporary files belong to one process and do not stay |
| `btf_index.c` | buckets, chained entries | `init`, `lookup`, `lookup_anonymous_enum`, `destroy` | seeds | a lookup finds a type exactly if it is the only one of its name and kind |
| `seeds.c` | places in loops, in a type chain, in an access string, a recursion, in the bytes of `.BTF.ext` | object seeds, relocation seeds, location of a relocation | `main` | exactly the kernel types that the objects stand for; each field access still compiles on the pruned records; only the data is read |
| `requirements.c` | root set, member sets, traces | add root, add member, queries, explanation | seeds, closure, emitter, `main` | each requirement recorded and traced once; nothing recorded without its trace |
| `type_set.c` | words of bits, a count | add, contains, next | seeds, closure, emitter | a set, enumerated in ascending order |
| `closure.c` | worklist in a growing array | compute the closure | `main` | the least set around the seeds that is closed under "its definition needs" |
| `emitter.c` | per type: declared, defined, in progress; the text of a declarator | emit groups, hard and soft dependencies, declarations | `main` | every declaration follows the ones it needs, once; a compiler reads back the type that was printed |
| `cli.c` | options, place in the arguments | parse | `main` | obeys the rules of CLI.md for every order and grouping of options |
| `btf_loader.c` | a loaded document | load base, load object, destroy | `main` | what was loaded is released on every path |
| `error.c` | one message with file, detail, hint | set, print | all | the first line states the failure |

How they interact: all calls are synchronous. `main` owns the index, the required set and the
requirements; the seeds add to the set and the requirements for one object after the other; the
closure reads the requirements (recorded members prune a record) and adds to the set; the emitter
reads both. libbpf parses and owns the types, which never change.

The hazards, with their lines and the properties that guard them, are listed in `PROJECT.json`.

## Modules and the code

```
DependencyClosure <=refines= Closure --+
                                       +--> Generate  =refines=> Header
                             Emitter --+                 (both over Btf)
AtomicOutput      <=refines= OutputFile <--EXTENDS-- Main --EXTENDS--> Cli
IdSet             <=refines= TypeSet
Index       Seeds       BtfExt       Declarator
Recursion --EXTENDS--> Seeds, Emitter
```

Seeds uses the answers that Index is shown to give, and BtfExt is the walk that brings the relocations to
Seeds. Closure, Seeds and Emitter use a type set in the form of IdSet. Declarator spells what Emitter orders.

**Btf** is the representation of types that closure and emitter need: a kind, the type referred to and the
types of the members, parameters or variables. Type ids are 1 .. n; 0 is void.

**Closure** is `mch_compute_dependency_closure_with_options`. `required` is the set, `worklist` and
`cap` the heap array; `Allocate`/`Fill`/`Filled` are `worklist_init` and the loop that copies the
set, `Take`, `SkipDep`, `RejectDep`, `AddDep` and `DepsDone` the iterations of the main loop, one
dependency a step, and `Return` its end. `CannotGrow` lets an allocation fail when the array is
full. `Deps(id)` is the order in which `add_type_deps` passes ids to `add_dep`.
**DependencyClosure** is what it promises: a set that grows along needs, and success only when
closed.

**Emitter** is `mch_emit_header_with_options` and the recursion below it: the four loops over the set,
`emit_soft_deps`, `emit_hard_deps`, `emit_record_definition`, `emit_typedef_definition`,
`emit_enum_definition`, `emit_forward_decl`. The active calls are
`todo`, a sequence of a function and a type id with the innermost call first; a step carries out the first.
`recordState`, `fwdState` and `typedefState` are the arrays of the context, `out` the declarations in
the order they are printed. **Header** is what a compiler asks: each declaration after those it
needs, and success only with everything that was asked for. What a declaration needs is `CNeeds`, stated from C's
rules and not from the recursion. **Generate** composes Closure and Emitter as `main.c:200-211` does: the
closure first, then the emission from the set it left. It refines Header with the definitions of the *seeds* as goal.

**Declarator** is `emit_decl_ex` with `emit_qualified_decl`, `emit_params`, the wrapping of pointers, arrays, parameters and
qualifiers, and records printed in place. Text is a sequence of tokens. `Reading` is a reader of C declarations, written
from the grammar of C and not from the code.

**TypeSet** is `type_set.c`, words as sets of bits, with the cursor of its callers; its functions
succeed or fail as actions of their own. **IdSet** is a set of ids with a cursor that visits them in order.

**OutputFile** is `open_temp_output` and `write_header_to_path` for several processes (`Run`), whose
names may clash because they share a pid (pid namespaces) or because a killed process left its file. A
file is the number of blocks written and by whom. Every system call may fail, stdio reports a failed write
only through `ferror` and `fclose`, and a process may be killed at any step. **AtomicOutput** is
the promise: an invocation replaces the file in the step in which it succeeds, and otherwise leaves
it alone.

**Cli** is `mch_cli_parse`, one argument a step (`Argument`, of which `ReadArgument` in Main is the loop), over arguments that are sequences of their
parts, and `Documented`, which reads the same command line by the rules of CLI.md.
**Main** extends OutputFile and Cli with `main`: the stages from parsing to exit, the resources held
(`held`: what `main` prepares, the object file that is open, and the array of object paths that `add_object` allocates), whether a message is set, the exit code, and stdout as the other sink, whose last block is written after the exit
code is decided. Each stage may fail; `goto out` is the stage `out`. The loads of `btf_loader.c` are `Prepare` and
`LoadObject` with their failures.

**Index** is the hash table of `btf_index.c`. `Build`, `InsertType`, `PassEntry`, `MarkAmbiguous`,
`AppendEntry` are `mch_btf_index_init` and the walk of `index_insert` along a bucket, one entry a
step; `Lookup`, `NextEntry`, `Ambiguous`, `Found`, `NotFound` the lookup by name;
`LookupAnonymous` .. `Compared` the scan for an anonymous enum. The hash is an arbitrary function of
the key (`Hashes`). The body of an enum (its enumerators, size and sign) is one value; `Unreadable` is
a body with a name that cannot be read, which equals none.

**Seeds** is the loop of `main` over the objects with `mch_extract_object_seeds_with_requirements`,
`mch_extract_core_relo_seeds_with_requirements`, `resolve_object_type_to_base`,
`record_core_relo_requirements` and `mark_base_member_path`, and with the recording in
`requirements.c`. A step is one iteration; the recursion through anonymous records is the stack
`frames`. Storing a trace may fail (`NoMemory`). A lookup answers with `Matches`, which is what
`NamedLookupExact` and `AnonymousLookupExact` show of the index.

**BtfExt** is the walk over the bytes of `.BTF.ext`: the header, `init_ext_info`, the sections and records
of the relocations, and for each of them `find_ext_info_section` in the lines and the functions. Whatever is read from the
data is a free choice, so it covers damaged layouts of any kind; offsets and lengths have the range of a `__u32`.

**Recursion** is `Iterate`, repeated application of a function, by which Seeds defines the chains and nested records that its
results are judged by, and Emitter the peeling of qualifiers and `CNeeds`. Being a recursive function, and not a RECURSIVE
operator, it can be used in proofs.

The proofs are in modules of their own: ClosureProofs, IndexProofs, TypeSetProofs, SeedsProofs and BtfExtProofs for the modules they are
named after, EmitterProofs for Emitter and Generate, MainProofs for OutputFile and Main, and RecursionProofs for induction and
`Iterate`.

Definitions marked as faulty variants in comments are mistakes that the properties are there to
find; no specification uses them.

## Runs

| Run | States | Question and bounds |
|---|---|---|
| `closure` | 120,508 | All pairs of type shapes over two ids (with id 3 invalid), plus three-type paths with cycles; every choice of recorded members, of seeds and of `expand_pointers`. `MinCap = 1` instead of 16, so that the array fills and grows at the second id. Two types suffice for a type that needs itself, the other or an invalid one; three for the order of processing. |
| `generate` | 314,800 | BTFs of six types: an enum, a typedef, a struct of two members, a union with or without a name, and between them a fifth type of every kind, so that typedefs, arrays, pointers, prototypes and unnamed records stand on every edge of a cycle between record and typedef; or a forward declaration and two typedefs. Three seeds, all members or one. Longer cycles only repeat the states 0, 1 and 2 that two named types already have. |
| `declarator` | 42,982 | Every chain of up to five pointers, arrays, qualifiers, tags and prototypes before `int`, four before `void` and three before any other base type, with parameters and members that have declarators themselves. `MaxDeclarator = 8` tokens instead of 512 characters, so that some fit exactly and some not; `MaxMask = 32` as in the code: no chain here has as many qualifiers behind an array, so the run says nothing of longer ones. |
| `type_set` | 8,577 | Words of two bits for sets of 0, 1, 4 and 5 ids: no id, part of a word, full words, and words with a rest; arguments up to one word past the end. |
| `output` | 27,632 | Two invocations with one pid, 2 names each (128 in the code), 3 blocks, a stale file or not in each name, every failure and kill. Two invocations are the least that can clash, two names show both a taken name and the end of the search, three blocks a failed write with a later one that succeeds, and the block `fclose` writes. |
| `main` | 219,680 | One invocation with every command line of up to two of 22 arguments, alone or before `--btf=b x`, and with the complete lines of each mode (`--help`, stdout, file; with and without `--explain`; one or two objects) next to another that writes the same file. Two arguments show an option that takes the next one, an option repeated, and an option after `--`; the parser keeps no more of the past than the options set. |
| `index` | 116,622 | All base BTFs of up to 3 types of 6 sorts, longer ones with a name repeated across others, and 3 hash functions: all in one bucket, by kind, and apart. Three of one sort show that ambiguity stays. |
| `seeds` | 38,479 | One object with every sequence of up to two of 15 relocations, or two objects with up to one each, against three kernels: with nested anonymous records, with one more level than `MaxNesting = 2` allows, and with a struct defined twice. `MaxChain = 3`, `MaxPeel = 4` for 32, 64. No access in this run goes through an array or through an anonymous member at differing positions: see the findings. |
| `btf_ext` | 328,585 | A `__u32` of four bits, so that an offset plus a length can exceed it; every offset and length of one info at a time in data of 15 units (header 2, `__u32` 2, records 1 or 2), and all three in order. |
| `short_stdout`, `array_access`, `behind_pointers` | | Findings, one property each. |

The first nine pass. In `main` an invocation that only parses has none beside it but one that complains: parsing touches nothing shared.
Deadlock is not checked where the specification ends (functions return, processes exit).

What the properties say:

* `ClosedWhenOk`, `OnlyNeeded`: a successful closure is the least closed set around the seeds; on the
  way and after a failure the set never holds anything unneeded.
* `WorklistIsSet`, `FitsCapacity`: set and worklist are updated apart but agree, each id is visited
  once and none is stored past the array.
* `GeneratesHeader`: from seeds to header, what the closure finds needed covers what the emitter declares, in an order C accepts,
  and a success leaves out nothing that a seed's definition asks for. `DefinedOnce`: the recursion comes back to a type without
  defining it again. `CyclesAreReal`: a cycle is reported only if C has no order either. `GenerateReturns`: the recursion ends.
* `ReadsBack`: the text of a declaration, read as C, is the type it was printed for.
* `EnumerationIsComplete`, `IsIdSet`: an enumeration misses no id across words and full last words; the bits are a set.
  The functions allow an addition between two steps of an enumeration, and so does the model, though no caller makes one.
* `OutputIsWhole`, `OnlyOwnerTouchesTemp`, `NothingLeftBehind`, `ImplementsAtomicOutput`: whoever opens
  the path sees the old file or a whole header, temporary files are private and do not stay.
* `ExitCodeTellsOutput`, `NothingHeldAtExit`, `FailureIsReported`: what a build sees of the exit code is true of the file; each
  way to fail releases everything and sets its message, except a failed write (see below).
  `CommandLineIsObeyed`: the parser's verdict and options are those of the documented rules.
* `ChainsComplete`, `NamedLookupExact`, `AnonymousLookupExact`: collisions and
  duplicates neither hide nor invent a type.
* `RootsExact`: the roots are what the objects' types and relocations stand for, compared with a
  definition (`Answer`) that knows nothing of the loops. `AccessesCompile` evaluates each field access of each
  object as C would, on the records as they are after pruning by *all* relocations.
  `SeedsAreRequirements` and `WitnessIsExact` relate the set, the requirements, the traces and what `--explain` can print of them.
* `ReadsInBounds`, `VerdictIsRight`, `LocationIsNearest`: only the data is read, an error is reported exactly if the relocations do not
  fill their info, and a message names the nearest line.
* `FailuresAreReal` (closure and seeds): an error is reported only for its cause.

Type invariants are defined in every module; where they say no more than types they are not in the lists of the runs, but proved
for every module but Declarator and the parser in Cli.

## Fairness

`WF_vars(Next)` in Closure, Seeds, BtfExt and Generate: the functions run in one thread and wait for nothing,
so while a step is possible one is taken. In Index the same holds of the construction and of the inside of a lookup;
no fairness says that a lookup is asked for. In OutputFile and Main each invocation that was
started takes steps (weak fairness of its steps, not of `Start`, nor of `Killed`): processes are scheduled
independently. No liveness property assumes that a call succeeds. `Returns` for the output file holds
because the search for a free name is bounded, `CallsReturn` for the index because no chain leads back into itself. TypeSet has no liveness: its calls are single steps.

## Proofs

`ClosureProofs` (for all base BTFs, capacities, choices of members and seeds):

* `Invariance`: `Spec => []Inv`, where `Inv` (in Closure) adds to the types that the worklist has no
  repetition (`Distinct`), that during the fill it holds the ids below the cursor (`FillInv`), and that the
  needs of all entries taken so far are in the set (`TakenInv`). None of the checked invariants is inductive alone:
  `ClosedWhenOk` needs `TakenInv`, which needs that worklist and set are the same (`WorklistIsSet`).
* From it `TypeCorrect`, `SuccessIsClosed`, `NothingUnneeded`, `WorklistMatchesSet`; with the capacity
  at least the number of seeds, `WorklistFits`; with the count, `StatsAreExact`; then `ReportedFailuresAreReal`,
  and `Refinement`: each step maps to a step of DependencyClosure or a stutter.

Assumptions: `BasesAssumption` (the inputs are base BTFs) and `MinCapAssumption`.

`MainProofs` (for any number of invocations, pids, names, blocks and object files, and any command lines):

* `Invariance`: `Inv` (in OutputFile) says whose file is behind a temporary name (`OwnsTemp`, `NamedByOwner`) and how many
  blocks it has at each stage (`Progress`). `OutputIsWhole` alone is not inductive: at `rename` one has to know that
  the name still belongs to this invocation and that the file has all blocks.
* From it `TypeCorrect`, `OutputAlwaysWhole`, `TempHasOneOwner` (an action property), `NoTempLeft` and
  `Refinement` to AtomicOutput.
* `MainInvariance`: `MainInv` says in which stages an object file is open and in which nothing, or only the paths, is held (`Holding`), how stage, exit code and the state of the
  output go together on the way (`Outcome`), and that a failure of the writing has a message or is known to the stream (`Reported`).
  The properties speak of `exit` only; at `out` the cause is already gone, so the invariant has to carry it from the failing step.
* From it `ReleasesEverything`, `ExitCodeIsTrue`, `FailuresHaveReasons`. `ReleasesEverything` includes the paths of the objects, which
  `Holding` follows through parsing: only they can be held there.
* `FileInvariance` and `MainIsAtomic`: the steps of `main` around the writing keep the invariant of the writing, so that the whole
  program, and not only `write_header_to_path`, implements AtomicOutput. Where the header goes to stdout no step touches the path.

Assumptions: `PidAssumption`, `SizeAssumption`, `FileAssumption` (each invocation has a pid, there is a block and an attempt, no file
and the old file are told from a header) and `CommandAssumption` (there is a command line for each invocation).

`IndexProofs` (for all base BTFs, hash functions and numbers of buckets):

* `Invariance`: `Inv` (in Index) adds what an entry stands for (`Lossless`: every type inserted has an entry, which names
  the only type of its name and kind or is ambiguous because there are two), and where a walk or a scan is (`OnChain`: it is in
  the chain of the key and has passed no entry of the key; `Scanning`: the matches are those among the types passed).
  `NamedLookupExact` follows at the end of a walk only from all of these: that the chain was complete when the walk began, that
  the key has one entry, and what that entry says.
* From it `TypeCorrect`, `ChainsStayComplete`, `OneEntry`, `NamedExact`, `AnonymousExact`. The last two are what Seeds takes a
  lookup to answer.

Assumption: `IndexAssumption` (the inputs are sequences of types and functions of the key into the numbers).

`TypeSetProofs` (for words of any width, 64 in the code, and sets of any size):

* `Invariance`: the types, with no bit used outside of the set, the completeness of the enumeration, and `selected` being the
  number of ids. The lemmas below are arithmetic: an id is its word times the width plus its bit (`Division`, `Composition`), ids are
  ordered by word first (`WordsFirst`), the words hold every id below the count (`WordsSuffice`), so that the least bit of the
  first occupied word is the least id at or after the cursor (`FindsLeast`).
* From it `TypeCorrect`, `EnumerationMissesNothing`, and `Refinement` to IdSet.

Assumption: `TypeSetAssumption` (the width is positive, counts and arguments are numbers).

`SeedsProofs` (for any base BTF, any number of objects with types and relocations of any kind, and any limits):

* `Invariance`: to the properties `Inv` adds where the loops and the access string are (`AtItem`); that no type passed on the chain
  is known to the base BTF (`Resolving`); that the roots are the answers to the items done so far (`RootsSoFar`); and what the stack of
  the recursion still owes: each waiting call stands at an anonymous member whose record the next call searches (`OnTheWay`), and the
  members passed do not have the wanted name at any depth within the limit (`Searched`).
  `RootsExact` speaks of the end only and needs `RootsSoFar`; `FailuresAreReal` needs `Searched`, because the report that no record
  has a member is made when the whole search is over.
* From it `TypeCorrect`, `SetIsRequirements`, `WitnessExact`, `RootsComplete`, `FailuresExplained`.
* `AccessesCorrect`, that every access of a successful run compiles (`AccessesCompile`). What is recorded only grows, and what
  an access finds in the header grows with it (`NestedGrows`, `AccessedGrows`); so each component needs to find its member only when it is
  recorded. Code and header walk apart: the code goes into an anonymous member by its position, while for C such a member is no
  part of the access and the next name is looked for in the enclosing record. `Stands` relates the two places: the header has a value for
  the components consumed, and what the code's record holds at some depth, the header's record holds at most one level deeper for each
  component (`Within`). `Returning` says, for each call that waits, that the member found is in the anonymous record it stands at, so
  that marking it closes the gap.
  The premise `Direct` is about the input alone: no access takes one of the two ways of `array_access`, where the theorem is false. It
  is stated for the values that the code compares (`Compared`), in the whole base BTF. All inputs of the run `seeds` fulfil it, those
  with anonymous members among them; neither input of `array_access` does.

Assumptions: `LimitAssumption` (the limits are numbers) and `InputAssumption` (there is an object; components of an access after the
first count from 1, as the members do).

`BtfExtProofs` (for numbers of any width, any sizes of header, records and data, any content):

* `Invariance`: an info that is accepted lies within the data (`Placed`), the cursor and the relocations left of a section fill
  what the info has claimed (`Accounted`), the infos are set up in order (`SetUp`), and a lookup stays within its info (`LookedAt`). That a read stays within the data rests on the division in the code: a count that is at most the space over the record
  size fits (`DivisionFits`); a sum that exceeds the width is rejected before it is used.
* From it `TypeCorrect`, `ReadsOnlyTheData`, `VerdictIsTrue`, `LocationExact`.

Assumption: `SizesAssumption` (sizes are numbers, a record is not empty, what is read is in the range of the width).

`EmitterProofs` (for any BTF, names, members and closure):

* `Invariance`: `BehindClosure` says that the emitter has not begun before the closure returned, and `Inv` that a definition is in
  progress exactly while the entry that prints it is still in `todo`, where it is once (`Active`); that the state arrays tell what is
  printed (`StatesMatch`); and that every id a loop has passed is printed, in progress or still called for (`RootsReached`).
  `DefinedOnce` is not inductive: that a record printed now was not printed before follows from its state being 1, and that from `Active`.
* From it `TypeCorrect`, `OneDefinition` and `NothingForgotten` (success means that every definition the required types call for is
  printed).
* `CyclesReal`: where C has an order of the declarations, each has a rank above all that it needs (`OrderHasRanks`, the round in
  which it becomes ready). The invariant `Orderly` says of every such ranking that a call left to do leads only to declarations of
  lower rank than each definition in progress behind it (`Descends`); `SoftFits` and `HardFits` show it of the calls that
  `emit_soft_deps` and `emit_hard_deps` make, by following `CNeeds` one type at a time, and `RecordNeeds`, `TypedefNeeds` of the calls
  that begin a definition. A call that came back to a typedef in progress would have a rank below itself. The premise `Peelable` says that
  no type has 32 qualifiers in a row: see the known divergences.
* `ClosureUndisturbed`: run with the emitter behind it the closure is the Closure of its own module. So the theorems of
  ClosureProofs hold in Generate; `ClosedUnderNeeds` is the one that the emitter relies on.
* `HeaderGenerated`: the run from the seeds to the header is a run of Header. Three facts carry it.
  - *Order.* Each call has a `Promise`, the declarations that are there when it returns. Read from the front, what is declared and
    what the calls left to do promise `Covers` what each definition in progress waits for (`OnItsWay`). `SoftKeepsPromise` and
    `HardKeepsPromise` show that the calls which `emit_soft_deps` and `emit_hard_deps` make keep the promise of their own,
    `BeginCovers` that a definition begins with calls for all its needs, and `ReplaceCovers` that this is all a step has to show. A
    record that is in progress promises nothing to a call that comes back to it; that no such call waits for it follows from the
    ranks of `CyclesReal` (`NoWayBack`).
  - *Agreement.* Calls are made only for types that the closure has provided for (`Settled`): nothing that is printed in place is
    only named, and an enum that has to be complete is in the set, and so printed by the first loop. `SoftSettled`
    and `HardSettled` derive it for the next calls from `ClosedUnderNeeds` and `Plain`.
  - *Completeness.* The definitions that the seeds ask for are among those that the set asks for, which `NothingForgotten` shows printed.

  Its premises are about the BTF alone. `Plain` leaves out the shapes of `behind_pointers`, where the theorem is false; `Peelable` is the
  one of `CyclesReal`. Where C has no order the premises are void and only completeness is promised. `generate` checks the
  same property on BTFs that fulfil both.

Assumptions: `NamedBasesAssumption` (the inputs are base BTFs with a name for each type) and `MinCapPositive`.

`RecursionProofs` states induction and recursion with sets and functions (`Induction`, `Iteration`), because the theorems of the
library that take an operator as a parameter cannot be used by the provers at hand. `Iteration` says that `Iterate` satisfies its
equations; the proofs of Seeds and Emitter use nothing else about recursive definitions.

The refinement theorems cover the safety part; the abstract specifications state no fairness.

## Findings

* `short_stdout`: without `--output` the last buffer is written after the exit code is fixed
  (`main.c:209`), so an incomplete header may be reported as success, which SPEC.md:604 rules out.
* `array_access`: `peel_access_type` removes an array without consuming its index, so another member is kept
  than the one accessed; and an anonymous member of the object is matched with whatever the kernel has at that
  position: if that is a record with a member of the wanted name, the wrong one is kept (SPEC.md:335). Either input alone
  violates `AccessesCompile`.
* `behind_pointers`: neither closure nor emitter goes on behind a pointer, where C needs complete types all the same: for the
  element of an array, for the members of a record without a name, which is printed in place, and for an enum in a record that a
  typedef defines. The header does not compile and the exit code is 0 (SPEC.md:604).

## Known divergences

Met while modelling; each is small, so they are named here and the inputs of the runs are without them.

* A prototype whose parameters end with void, which is how BTF writes `...`, is printed with `void` after
  the other parameters (`emitter.c:232-235`).
* A function that returns a pointer to a function or to an array is printed with the declarator inside out (`emitter.c:257-264`), and a
  qualifier on an array of pointers lands on what they point at (`emitter.c:210-212`). `Spellable` in MCDeclarator excludes both.
* An `INT` of 16 bytes is printed as `int` (`emitter.c:89-90`; SPEC.md:499).
* Two records of one tag are both defined (`emitter.c:868-872`; SPEC.md:512). `DefinedOnce` is about type ids; in the runs each
  record has a tag of its own.
* A write that fails in the middle ends in exit code 1 without a diagnostic (`emitter.c:876`), although CLI.md:344 says that the
  first line of diagnostics states the failure. `FailureIsReported` shows that this is the only silent failure.
* A program-local `typedef void t` is an error instead of being excluded (`seeds.c:643`; SPEC.md:367).
* No memory while parsing is reported like a usage error, with exit code 2 instead of 1 (CLI.md section 8).
* `typedef_target_needs_hard_deps` gives up after 32 qualifiers in a row and takes the answer to be yes (`emitter.c:436-460`), so that a
  typedef of a pointer to itself behind that many qualifiers is reported as a cycle. No compiler writes such a type; `CyclesReal` has
  the premise `Peelable` for it, and the BTFs of the run fulfil it.
* Records that embed each other by value, which no C program has, are not reported; the output does not compile. `CyclesAreReal` and
  `HeaderIsComplete` are stated for BTFs with an order C accepts (`Orderable`); a type made of itself without any name in
  between (`Endless`) makes the recursion endless and is excluded.

## What is only model-checked, and what is not modelled

Only model-checked:

* `ReadsBack` and the types of Declarator: the reading of a declaration goes by the grammar of C, nested and recursive;
* `CommandLineIsObeyed`: the rules of CLI.md are about all options of a line together, counted and compared by position, and the
  number of arguments adds no new case to those of the run;
* every liveness property: TLAPS does not prove liveness under fairness.

Not modelled:

* the text of messages, of `--help`, `--version`, `--stats` and `--explain` (whether it can be printed is modelled), the names of kinds, and the
  truncation of messages to their buffers (`error.c`);
* the fixed text of the header, bitfield widths, enumerators and their values;
* what libbpf parses; it validates parts of `.BTF.ext` too, but BtfExt relies on none of it;
* lost power: the code does not call `fsync`; truncated paths (`snprintf` into 1024 bytes is one of the failures of `OpenFails`);
* which names denote one file: the output is compared with the inputs as text (`cli.c:204`);
* the build files, scripts, examples and tests, which are not part of the running program.

## Plan

1. Done: all modules and runs above, and the proofs as they are listed.
2. Left: `CommandLineIsObeyed` for any number of arguments.
