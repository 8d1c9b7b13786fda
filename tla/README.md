# TLA+ models of Ring

Ring is a language with a self-hosted compiler (`compiler/*.ring`) that emits C, a C++
runtime (`ring_runtime.cpp`), a standard library in Ring itself (`std/*.ring`) and Python
tooling that builds, tests, benches and audits the repository. This directory holds
TLA+ models of the parts whose correctness depends on the order of steps, the TLC
configurations that check them on small instances, and TLAPS proofs for every instance.

Run `tlc -config X.cfg MC_M.tla` for a model and `tlapm M_proofs.tla` for proofs.
`PROJECT.json` lists the runs, maps each definition to the lines it models, gives for each
property a mutant of the code that violates it, and lists the hazards the properties are for.

## 1. Inventory

| Component | State | Operations | Interacts with | What is hard | What makes it correct |
|---|---|---|---|---|---|
| Runtime RC heap (`ring_runtime.cpp` 88-680, 2502-2605) | a header (count, typeid) and slots per block; the drop and never-drop tables | `ring_alloc`, `ring_dup`, `ring_drop`, interning | everything that Ring code compiles to | destructors cascade, and an `impl Drop` body runs Ring code in the middle; saturating counts; cycles | counts equal references; nothing reachable is freed; no double destruction; only cycles leak |
| Slot bridge (1004-1097) | the slots of a buffer | read, take, write, replace, swap, move, drop | `std` List and Map, heap | each call has its own ownership rule; self-replacement | every call keeps the counts |
| Cell (1745-1806) | one slot | new, get, set, update | heap, closures | `update` calls back into Ring with the cell emptied | nothing freed under a reference, references balanced |
| Generated destructors, const getters (`codegen_c.ring` 959-1145) | registered drop functions, memoised constants | user body then fields; intern on first use | heap | order of body and fields | as for the heap |
| Catch frames (`ring_runtime.cpp` 1814-1888; `codegen_c_expr.ring` 2182-2450) | thread-local stack of frames; per emitted function the list of enclosing bodies | push, pop, raise (longjmp); the code of try and handled bodies, return, break | codegen of every exit | every exit of a body must pop once and drop its evidence; a raise skips bodies in between | a raise reaches the innermost running body |
| std Map, Set (`std/map.ring`, `std/set.ring`) | meta bytes, keys, values, len, cap | insert with growth, remove, clear, clone, get | slot bridge, user `Hash` and `Eq` | tombstones in probe chains; growth that moves references; load factor that ignores tombstones | it is a dictionary; nothing is lost or leaked |
| std List (`std/list.ring`) and runtime list helpers | buffer, len, cap | push, pop, shift, set, clear, extend, slice, concat, sort, reverse, map, filter, for_each ... | slot bridge | moves of slots; stale copies past len | it is a sequence; each reference is in one slot |
| Perceus RC insertion and post-RC verifier (`perceus.ring`, `verify_rc.ring`) | HIR bodies, owned bindings | normalise, insert Clone/Drop; verify | HIR, codegen, heap rules | branches, loops, early exits, moved Drop values | each path releases what it owns once |
| Type inference (`unify`, `union_find`, `infer*`, `zonk`, `scc`, `exhaustive`, `checker`) | substitution, union-find forest, environments | unify, generalise, check | front end, module system | occurs check, order of declaration groups | principal unifiers; no cyclic types; exhaustive matches |
| Front end (`lexer`, `parser`, `ast`, `formatter`) | token position | tokenise, parse, format | everything | size | round trips |
| Module system (`resolver`, `compiler_mod`, `exports`) | graph of modules, export tables | discover, order, resolve names | inference | import cycles, name collisions | each name resolves once |
| Lowering and C code generation (`hir`, `derive`, `dict_lower`, `andor_lower`, `codegen_c*`) | contexts of emitted definitions | lower, emit | Perceus, runtime | evaluation order, cleanup on exits | the emitted code does what the HIR says |
| Compiler-artifact cache (`tests/run_tests.py` 594-705, 1180-1935) | objects, receipts, poison markers, locks on disk | lookup, publish, poison, evict | concurrent test runners | several processes, crashes between file operations, eviction under readers | a copy is the object of its key; a divergent key stays refused while it is an entry; every return is within the limits |
| One-shot gate (`.agents/scripts/one_shot_gate.py`, `one_shot_entry.py`, `bench/check/windows_job.py` 1-868) | attempt, output and terminal records of an evidence directory; the process group or job of the child; the archive; the outer attempt and verdict | prepare, execute, audit, archive, outer entry, bootstrap | agents, CI, operating-system processes | interruption and death between records, several callers of one directory, a watchdog that dies, timeouts racing exits, a reader beside the writer | one launch per directory; a success had a run that ended well and left nothing behind; a verdict passes its own audit |
| Bench driver (`bench/check/run.py`, `windows_job.py` 869-1117, `combine.py`, `disabled_path_gate.py`) | the job of the measured command, the runner's root object and its backup, rows and summary of a run directory, the baseline | run a lane, isolate the runtime object, sample a job, combine runs | OS processes, test runner, two runs of one checkout | the last process between two polls, failing renames, deaths between rows and summary, two codes that judge one schedule | no orphan; the developer's object comes back; exit status 0 and a baseline mean full samples |
| Repository tooling, editor, examples, docs | records in files | validate | - | - | not modelled |

## 2. Modules

`RcHeap` is the root. A *place* is anything that owns a reference: a variable of the
running program, a slot of a block, a C variable of a runtime function that calls back.
`tid`, `rc` and `ref` are the header's typeid class and count and the contents of the
places; `calls` is the C stack of `ring_drop`: a frame per block whose destructor runs.
Each runtime function is one action; a destructor is a sequence of steps
(`BodyReturns`, one `DropField` per slot, `FreeBlock`), and while the innermost frame is in
its `impl Drop` body every operation of the program is enabled (`InBody`). The count of
Drop on a value that reaches 1 pushes a frame instead of recursing.
What is abstracted: payload data, block sizes, tagged scalars (`Null`), the guard for
foreign pointers, and which fields a type has (a block has `NSlots` of them, any may be Null).
`SlotWrite` is enabled on an empty slot only. The runtime does not check this; std Map meets
it, which is `MapTable!FreeSlotsHoldNothing`.

`CellUpdate` EXTENDS `RcHeap` with the activation of `ring_Cell_update`: `UpdateCall`
empties the cell, then the pure callback runs (`Callback`), `CallbackReturns` drops the old
value, whose cascade may run Drop bodies that use the cell (`Program`), and `StoreNew` ends.
At most one update is running (an update started from a Drop body inside another is out).
The caller's variable that lends the cell cannot be released meanwhile (`LenderKept`):
parameters are borrows, `perceus.ring` 2607-2640.

`MapSpec` is what a map promises, a function from keys to values and its size.
`MapTable` is `std/map.ring`: buffers as functions on `0 .. cap-1`, `Probe` written with
sets of probe distances in place of the loop, growth as a loop of steps.
`Dictionary` is the refinement: `dict` is what the code's `get` answers.

`CacheSpec` is what the compiler-artifact cache promises: a key has no object, one object, or
is poisoned, and a runner is handed the object its key has at that moment. `CompilerCache` is
the directory: receipts, poison markers, objects, access times as an order (`used`), and per
runner a program counter. What a runner does under the global file lock is one step per file
operation (each deletion of the cleanup, the object's link, the receipt's), a `Crash` may fall
between any two, and staging directories, builds and the copy after a publish are outside the
lock. A receipt is an object, `Torn` (fails validation) or `Mark` (a poison record written over
it). `next` says what the cleanup was called for, and so which key it protects. The branch of
`CreateReceipt` that finds a receipt already there is never taken: the lock excludes it.
`SharedCache` is the refinement; a receipt half rewritten still counts as its object. Which entries
the cleanup keeps is defined as the set that satisfies the loop's rule (`Kept`: an entry is
retained if there is `Room` beside those retained before it), not by running the loop.

`ListSpec` is a set of sequences. `ListBuffer` is `std/list.ring` over the slot bridge: each
list a buffer and a length, growth and `shift` as they leave stale copies past the length, and
every `ring_dup` and `ring_drop` in its order (`Counted`). Who owns an element is a set of places
(`Owners`). The walks (`for_each` and its kin,
`filter`, `map`) are several steps: while the callback runs (`walk.call`), the list may be
changed by it when the walk is in `Changing`. A read of a slot that the list no longer has ends
the model of the walk (`fault`). `for x in xs` is the walk `each`: it compiles to
`ListIterator.next`, which checks the length as `for_each` does. Elements have no fields and
lists are not counted: the heap's cascade is `RcHeap`'s subject.

`CatchSpec` is `fail.raise` without frames: nested scopes, some of which catch; a scope is left
with all that is inside it, but one step leaves at most one function, and a raise has a rule of
its own. `CatchesInnermost` says both: the steps are CatchSpec's, and a raise is its `Raise`. `CatchStack` has
the activations of a program (functions, loops, handled bodies), the catch frames on the
runtime's stack and the evidence structs. A body is left by its epilogue (`EndBody`), a return
(`Return`, which runs the cleanup walk over the bodies of its function), a break or continue
(`LoopExit`, which runs nothing) or a raise (`Raise` and the catch path). Catch arms are code of
the enclosing scope and so not activations. A jump to the frame of a body that was left ends
the behavior in `"stray"`, whatever the build would do.

`SccOrder` is `tarjan_scc` with the recursion as a stack of calls; every graph is an initial
state, and `Component` is the definition it is compared with.

The one-shot gate. `GateOutcome` holds what the adapters say of a child and how the gate
classifies it. `PosixJob` (plain or guarded by a watchdog) and `WindowsJob` (over `JobObject`, a
kill-on-close job) are the adapters; an operating-system process is a variable of its own, and
what may end, fork, leave its process group or be killed does so between any two steps.
`OneShotSpec` is the promise of an evidence directory; `OneShotGate` has several callers of one
directory, with any outcome an adapter may return, and refines it. `EvidenceArchive` reads the
directory while the gate works: the names first (`ListNames`), then the size and the digest of each
file (`RecordSize`, `RecordDigest`), then the file again for its copy (`Add`), each at a moment of
its own. `OuterEntry` is the outer transaction with its monitor thread,
over the inner gate as OneShotSpec promises it: the two compose by that promise. What an outer
attempt says of the interpreter and the delivery may have a flaw (`Flaws`), at which the stage
fails that checks it: identity and plan in the bootstrap, the rest in `CheckOuterAttempt`, the
first thing `run_outer_entry` does. Output that cannot be sealed, evidence that cannot be read and
a verdict that cannot be created are `SealingFails`.

The bench harness. `BenchJob` is one measured command over `JobObject`, time counted in polls.
`RunnerRuntime` is the root object `ring_runtime.o`, its backup and its staging file around an
invocation; each file call is a step that may fail before or after it took effect, and the
harness may die. `LaneSchedule` holds the two judgements of a lane's rows, run.py's
(`Continues`, `Complete`) and combine.py's (`ScheduleOK`), as operators; `RetainedRows` compares
them on any set of rows; `BenchRun` uses both: runs that measure lanes and die, and the combiner.

### How the modules meet in a run

Components that interact are composed by the modules above: `CellUpdate` over `RcHeap`,
`MapTable` over `MapSpec`, `EvidenceArchive` over `OneShotGate`, `OuterEntry` over
`OneShotSpec`, `WindowsJob` and `BenchJob` over `JobObject`, `BenchRun` and `RetainedRows`
over `LaneSchedule`. `MC_Compiler`, `MC_Gate`, `MC_Jobs` and `MC_Bench` check several
components that do not meet in a variable in one run: `subject`, chosen in the initial state,
says which of them a behaviour is about, the variables of the others keep their first values,
and a property of a component is stated for the behaviours about it. Nothing is
interleaved that the code does not interleave, and each component is checked as if alone.

| Module for TLC | Components |
|---|---|
| `MC_RcHeap`, `MC_CellUpdate`, `MC_MapTable`, `MC_CompilerCache`, `MC_ListBuffer`, `MC_CatchStack` | the module of that name |
| `MC_Compiler` | `CatchStack` refining `CatchSpec`; `SccOrder` |
| `MC_Gate` | `OneShotGate` refining `OneShotSpec`, with `EvidenceArchive`; `OuterEntry`, refining `OneShotSpec` for its own directory |
| `MC_Jobs` | `PosixJob` plain, guarded, and guarded with a watchdog nobody kills; `WindowsJob`; `BenchJob` |
| `MC_Bench` | `BenchRun`; `RetainedRows`; `RunnerRuntime` |

### Plan

Written: all modules above, and the proofs of section 4. What is left are models of the
compiler passes of section 6.

## 3. Runs

| Run | Instance | Shows |
|---|---|---|
| `heap` | 3 blocks of one slot or 2 of two, 2 variables, guard 2, all kinds | counts, no dangling place, no re-entered destructor, only cycles leak, immortality, a cascade ends |
| `cell_update` | 3 blocks, 2 variables, cells and Drop types | no count is below its holders during updates; the cell stays alive |
| `cell_update_balance` | the same | VIOLATED: an update of a heap value leaks one reference |
| `map_table` | 5 keys (two collide, one has a negative hash and wraps), 2 values, first capacity 4 | probe chains, refinement of a dictionary, references moved, insertions end, a probe for a missing key ends on a free slot when no slot is empty |
| `cache` | 2 runners, 3 keys, 2 objects, room for 1 entry and 1 object | a receipt always has its object, a validated winner survives the cleanup, refinement of CacheSpec, every return is within the limits, poison is dropped only by eviction, the lock is always released |
| `cache_share` | 2 runners, 1 key, 1 object | VIOLATED: a publish dies in its cleanup when another runner removes its staging directory |
| `list` | 2 lists, 2 elements, 3 items in all, or 1 list of 5; changing callbacks of `each` | sequences, every reference counted once through every kind of growth, no freed element touched |
| `compiler` | 6 activations, 3 frames, 3 evidence structs, no break out of a body; all graphs of 4 functions | frames are the running bodies, evidence lives as long as its body and is released with it, a raise continues after the innermost body; components by definition, callees first, the algorithm ends |
| `catch_break` | 5 activations, breaks anywhere | VIOLATED: a raise lands in a body that was left |
| `gate` | 2 callers, 2 bytes against a cap of 1, 1 error or limit, 1 altered file, the archiver; one outer transaction with 1 byte kept, its main thread stuck or not | one launch, true successes, verdicts that audit, refinement of OneShotSpec, an orphaned attempt is never adopted, a prepared attempt settles, the archive, whose parts were read at different moments, is never ahead of the directory; exit code and verdict of the outer entry mean what they say, it ends, and the monitor enforces the bound |
| `jobs` | a target with descendants (two, or one under an orderly kernel), a limit of 2, 1 interrupt, a supervisor that dies | a success left nothing behind, survivors and limits are reported, the watchdog is dismissed only when all is gone, a target runs only when watched or in its job, orphans are cleared away, what `rss_complete` means, handles are released, every adapter ends |
| `bench` | 2 runs of 2 cold lanes on 2 machines; all sets of up to 8 rows; 2 invocations of 2 runs in turn with 2 failing file calls and 1 death | exit status 0 means full samples, full runs combine, a baseline is whole, both judgements of a lane agree, the original object survives, clean rows are clean, a safe rollback is safe |

Properties that say one thing of a component in several parts are conjunctions, and the parts
have names and comments of their own:

| Property | Parts |
|---|---|
| `MemorySafe` | `NoDangling`, `NoReentry`; in `cell_update` of the heap around an update, too |
| `TableOK` | the shapes, `FreeSlotsHoldNothing` |
| `EntriesBacked` | `ReceiptBacked`, `WinnerInPlace` |
| `EvidenceFollowsBody` | `EvidenceOutlivesBody`, `EvidenceReleased` |
| `AuditIsTrue`, `OuterAuditIsTrue` | `SuccessIsTrue`, `VerdictAudits`; `OuterSuccessIsTrue`, `ZeroIsAudited`, `RejectedForReason` |
| `PromiseKept` | the refinement of OneShotSpec, `NoAdoption` |
| `EveryTransactionEnds` | `Settles`; `Ends` and `BoundEnforced` of OuterEntry |
| `JobSuccessIsClean` | `SuccessIsClean` of PosixJob and WindowsJob, `ReturnedIsOver` |
| `NothingIsSilent` | `NoSilentSurvivor`, `LimitReported`, `RssCompleteIsTrue` |
| `KeptUnderControl` | `ReleaseWatched`, `DismissedOnlyWhenGone`, `RunsInJob`, `HandlesReleased` |
| `AllComesToAnEnd` | every adapter ends; `OrphanCollected`; both `NothingOutlives` |
| `CombinerAgrees` | `SameJudgement`, `HonestRunsCombine`, `BaselineIsWhole` |
| `IsolationIsTrue` | `CleanRowIsClean`, `SafelyRolledBack` |

Bounds. Three blocks make every shape a count can get wrong: a chain, a shared child, a
cycle of two with a tail, self-reference. Two variables let a program hold one block while it
works on another, and Drop bodies use the same two. The guard (100000 in the source) is
1 or 2, so that counts saturate. Two slots show the order of fields, and two blocks are enough
for that: while three blocks are allocated the second slots stay empty (`SmallHeap`). In
`map_table` the capacity starts at 4, not 8: with 4 the threshold of 3/4 is 3, so that three keys and a
tombstone leave no empty slot, and the fourth key (or a second write to a third) makes the
table grow to 8. Below 4 the load factor lets the table fill up and `map_probe_index` returns
the slot of another key: `TableAssumption` records that the code's 8 is not arbitrary.

A cache of one entry makes each publish evict, two runners race for a key and for the copy
after a publish, and a runner that starts again finds what it or the other left when it was
killed; three keys over one entry make the order of access matter. The source's limits are
16 entries and 4 GiB.

Two lists show sharing of an element, growth into a full buffer and a walk that makes a second
list; growth by half needs five items and is left to one list alone. Six activations are a
function, a loop and four bodies or calls: a body in a closure called from a body, with a raise
past two. Four functions make two cycles joined by cross edges, where a wrong lowlink first
shows. An interrupt hits a clean-up that is already handling an error. Two descendants outnumber
a limit of two with their root. Two callers race for a directory; the third would find what the
second finds; `Leader` lets them start in one order only, as they are interchangeable. `MaxDamage`, the number
of files altered from outside, is at most 3: an attempt leaves four, and who removes all four has
made a new directory, in which the gate rightly runs again. A cap of
one byte and two bytes of output make truncation happen; the archive is made beside one caller.
The sample counts of the source (21 direct, 1 warm-up, 5 short, 3 long, 2 extra) are scaled and
keep their order, as `ScheduleAssumption` states: to 4, 1, 5, 3 and 2 for single lanes, where
eight rows leave room beyond every target, and to 1, 1, 3, 2 and 1 for whole runs. Interrupts
of the bench's job between the creation of the target and the loop are left out
(`InterruptAt`): the code has no handler there, so handles and target stay until the process ends.

Deadlock is checked for the cache only. Elsewhere a program, an adapter or a run may stop, and
when every block is in use and interned the bounded instance has no move left.

Fairness. `heap` assumes weak fairness of `Destructor`, `map_table` of `Insertion`: both are the
body of a synchronous C or Ring call with no wait in it. A Drop body is user code that may
allocate and drop for ever: `DropEnds` speaks of cascades whose bodies return. `cache` assumes
that a runner that holds the lock goes on unless it is killed: the code under the lock waits
for nothing but the disk. Nothing is assumed of a runner that waits for the lock. The callers of
the gate, the adapters and `OuterEntry` have weak fairness of their own steps: each is a thread
that polls with timeouts and is not blocked for ever; for the subject `stuck` of the run `gate`
the main thread has none, and only the monitor's is kept. What others do - the child, its
descendants, interrupts - is never fair; where `jobs` has an orderly kernel, the delivery of a
kill and the scheduling of guard and watchdog are, which the last two
parts of `AllComesToAnEnd` need. `SccCorrect` assumes that the algorithm runs.

## 4. Proofs

The theorems hold for every value of the constants that the modules' assumptions admit; those
assumptions are all the proofs rest on, with `~BreakThrough` and `Changing \subseteq {"each"}`
where it is said. Each module proves
first that an inductive invariant always holds (`Invariance`, `UpdateInvariance`), and derives
the properties the runs check from it.

| Module | Invariant | Theorems, and the property each one states |
|---|---|---|
| `RcHeap_proofs` | `HeapInv("exact")` | `TypeCorrect` (`TypeOK`), `CountsExact` (`RcExact`), `NeverDangling`, `DestroyedOnce`, `MemorySafety` (`MemorySafe`), `LeaksAreCycles` (`OnlyCyclesLeak`), `ImmortalForEver` (`ImmortalStays`, an action property) |
| `RcHeap_proofs`, on CellUpdate | `UpdateInv` | `CountsAlwaysCover` (`CountsCover`), `UpdateIsMemorySafe` (`MemorySafe`) |
| `MapTable_proofs` | `TableInv` | `BuffersHold` (`TableOK`), `ProbesFind` (`Findable`), `IsDictionary` (`Dictionary`, a refinement), `GrowthHasRoom` |
| `ListBuffer_proofs` | `ListInv` | where the callbacks of `filter` and `map` leave the list alone: `EveryCountExact` (`CountsExact`), `NeverFaults` (`NoFault`), `ListsAreSequences` (`IsSequence`, a refinement) |
| `Compiler_proofs`, on CatchStack | `StackInv` | `NeverFaults`; without breaks through bodies `StackIsBodies` (`FramesAreBodies`), `EvidenceHasItsBodysLife` (`EvidenceFollowsBody`, an action property), `RaiseIsCaughtInnermost` (`CatchesInnermost`, a refinement) |
| `Compiler_proofs`, on SccOrder | `SccInv` | `ComponentsAreRight` (`ComponentsInOrder` of SccOrder), `RunComponentsAreRight` (the safety half of `SccCorrect`) |
| `CompilerCache_proofs` | `CacheInv` | `TypesHold` (`TypeOK`), `EntriesAreBacked` (`EntriesBacked`), `LeftInBounds` (`BoundedOnReturn`) and `PoisonStays` (`PoisonKept`), action properties, `SharesOneObject` (`SharedCache`, a refinement) |
| `OneShotGate_proofs` | `GateInv` | `LaunchedOnce` (`OneLaunch`), `AuditTellsTheTruth` (`AuditIsTrue`), `KeepsThePromise` (`PromiseKept`, a refinement), `ArchiveTellsTheTruth` (`ArchivedNeverAhead` of EvidenceArchive) |
| `OneShotGate_proofs`, on OuterEntry | `OuterInv` | `OuterTellsTheTruth` (`OuterAuditIsTrue`), `OuterKeepsPromise` (`OuterPromiseKept`, a refinement) |
| `Bench_proofs`, on RunnerRuntime | `RuntimeInv` | `RuntimeIsTyped`, `OriginalIsKept` (`OriginalKept`), `IsolationTellsTheTruth` (`IsolationIsTrue`, an action property) |
| `Bench_proofs`, on BenchRun and RetainedRows | `BenchInv`, `KeptInv` | `ZeroMeansFull` (`ZeroIsFull`), `CombinerIsRight` (`CombinerAgrees`), `Agreement` |
| `Jobs_proofs` | `PosixInv`, `WindowsInv`, `MeasureInv`, together `JobsInv` | `SuccessesAreClean` (`JobSuccessIsClean`), `NothingStaysSilent` (`NothingIsSilent`), `AllStaysUnderControl` (`KeptUnderControl`), `RunsAreJobs` |

RcHeap. Neither exactness nor safety is inductive: an exact count says nothing of a block that
is being destroyed. `HeapInv` adds that a freed block is held by no place, has no count and empty
slots; that a block being destroyed is held by no place, has count 1 and has released the slots
its frame has passed; and that it has one frame. All actions are compositions of two moves: assign
a shared reference to a place, or move a reference from a place to another, each followed by a
drop of what was there. Lemmas `Assign` and `Move` prove these once, on explicit values of the
four variables, from `PutCount` (a store changed at one place changes the count of a block by that
place) and `DropGood`. The invariant has a parameter: under `"exact"` a count is the number of
holders, under `"cover"` it is no less; the lemmas hold for both, and memory safety needs only
the second. That only cycles leak needs exactness: a lost block has a count above 0, hence a
holder, which is a slot of a block that is lost as well, since what the program reaches is closed
(`RoundsClose`: each round of `Reach` adds a block or nothing ever again, so as many rounds as
there are blocks are enough). It is about the states between two statements; while a destructor
runs, it says nothing.

CellUpdate. An update leaks a reference (finding 1), so exactness is lost and `"cover"` is what
remains, through one update at a time (an update inside another is not modelled). Its steps are moves of the heap and one more, `Forget`: a place is emptied and nothing is
dropped. That the cell is still there when the new value is stored follows from `Lent`, that the
caller's variable still holds it, and from the heap's invariant: what a variable holds is neither
freed nor dying.

MapTable. A table is `Sound` when no empty slot lies between a key's home and its slot, no key
is stored twice, and free slots hold nothing; `ProbeHits` and `ProbeMisses` say what a probe then
answers. Between calls `len` counts the occupied slots and leaves one free, so a probe for a
missing key has a slot to answer, empty or a tombstone. During growth neither
table is the map; `Moving` says that the new one holds exactly what the loop has passed, and so
has room for the rest (`GrowthHasRoom`), and that their union is the dictionary.

ListBuffer. Each operation is what it does to the items below the length (`PushedIs`,
`ShiftedIs`, `ExtendedIs`, ...); counts then follow from how often a value occurs in a changed
sequence and in the union of the slots that own it (`OwnUpdated` and its kin), the refinement
from the items alone. `extend` is the sequence of the buffers it passes, by induction on a set of
numbers. `ListInv` adds what a walk has in its hand, and of a walk over a list that nobody
changes, that what it has gathered is a part of what it has passed (`Following`). Every theorem
assumes that `Changing` has at most `"each"`: the list may change under a for loop and under the
callbacks of `for_each`, `any`, `all` and `fold`, not under those of `filter` and `map`, where each
of the properties fails (section 5, remarks).

CatchStack. Everything is a count: `Above(a, n)` is how many of the scopes inside the n-th catch,
`Matched` says that the frame of a scope is that far from the top. Leaving all but the outermost
m scopes keeps it if `Above(act, m)` frames are popped, which each way out does by a lemma of its
own: the epilogue, the cleanup walk of a return, and the longjmp. A break out of a body
(finding 3) pops none, so three theorems assume `~BreakThrough`; the invariant covers such
programs, too, and says that they have too many frames, never too few: nothing is popped from an
empty stack. Run `catch_break` shows that the assumption cannot be dropped.

SccOrder. A path is what every set that keeps its calls to itself allows, so that nothing is
defined by recursion: something closed is all it takes to exclude a path, and `PathFacts` has the
rest. `ComponentsInOrder` is about what was emitted; `SccInv` is about what waits. The stack is in
the order of the numbers; each function on it reaches those above it (`SccPaths`) and a running
call that is not above it; a lowlink is the number of a function on the stack that is reached, and
no lookup made under a call found a lower number than the call's lowlink, a call's own successors
it has still to look at excepted (`SccLows`). At a return, a lowlink equal to the number means
that what is above the call's function calls only itself and what was emitted
(`ComponentFound`): closed with what was emitted before, strongly connected through the call, a
component. A lower one means that the function reaches a running call below (`LowerFound`), and
the caller takes over what was found. The numbers count the functions seen, which bounds them.

CompilerCache. The properties do not say why a cleanup spares the winner its runner comes back
to. `CacheInv` adds what each runner carries (`Own`) and what the holder of the lock has seen of
its key and still relies on (`Held`), through a cleanup as well (`Ahead`, the key is protected),
and that the cleanup leaves the directory `Tidy`. A step changes one runner's record, and the
directory only if that runner has the lock; `StepKeeps` makes that enough for all others. A crash
is one of the steps. For the limits `GreedyChoice` shows that the rule of the eviction loop defines
one set, `KeptBounds` that this set is within both limits.

OneShotGate. `GateInv` says that before a verdict is in the directory at most one caller is past
the checks of `execute`, what is there at each of its steps, what it believes of the run, and what
a verdict that was once written still says. Exclusive creation gives the first part; that it
stays true after files were altered is a count: of the four files fewer can be missing than there
are, so whoever finds the marker gone finds another. The refinement is step by step and covers the
life of a directory until it is altered from outside; `NoAdoption` covers all of it. An archive
whose verification passes may hold an attempt, outputs and a verdict of different moments. If the
audit accepts it, its verdict was read whole, and such a verdict is final: where one is in the
directory, nobody works any more who could add a file or write another verdict (`VerdictStays`,
`ArchiveInv`), so the directory has the same one, and what the audit says of it there is
`VerdictAudits`. The run archives beside one caller, the
theorem beside any number.

OuterEntry. The monitor may fire, count output and interrupt at every step of the main thread, so
`OuterInv` says for each of them which files exist, how far the inner gate is, and what the drafted
answer is: a success is drafted only behind an armed run that succeeded (`DraftHolds`), and its
output fits the cap. After a whole verdict only the recount of an output that fits can change a
record, and so the verdict goes on telling the truth (`VerdictTrue`). The launcher only runs behind
an attempt without flaw (`Trust`), so a success is never rejected for one; `RejectedForReason`
lists what else a whole verdict can be rejected for. The inner gate enters by
OneShotSpec alone. `OuterAssumption` says that the cap is a number.

RunnerRuntime. Runs come one after another (`RuntimeAssumption` says only that the numbers of
samples, faults and deaths are numbers), so `RuntimeInv` says that at most one of them is at work,
that nobody else's backup or staging file holds anything it relies on, and for each phase where
the original is: at the root, or moved to the run's own backup, or both after a file call that
failed when it had taken effect. What a record of the rollback says is part of it as well: an error that was noted is
still noted at the end (`NoteKept`), which makes an empty list of errors mean that every step of
the rollback did what it should.

BenchRun and RetainedRows. run.py decides row by row whether to go on, combine.py judges a lane's
rows at once. `SameSchedule` proves the two equal for all rows and all sample counts with a long
target other than 1 (`ScheduleAssumption`): with 1, a lane whose first valid row is long and comes
late is complete to run.py and over budget to combine.py. The source's is 3.
The theorem `CombinerIsRight` is about the behaviors of the three components together.
`BenchInv` adds to the rows of a run what it has accounted for (`TakenCount`, the rows written are
the measurements taken), that a lane is marked complete only with rows that `Complete` accepts,
and that a run that ended with 0 has all its lanes marked. `RunAssumption` says that each
lane has one of the policies of the source, that runs are finitely many and that `NoLane` is no lane;
`DefectAssumption` that "warmup" is not among the defects a measurement may have, as the code sets that
mark itself.

The adapters. No property says by itself why it holds, since what an adapter relies on was
established many steps earlier, with failing calls and interrupts between. So each adapter's
invariant says, for every step of the adapter, three things: how far the start-up has come
(`StartUp`: the release was sent only behind an armed watchdog, and before it a guarded root is no
target and has no children; `WindowsTree`: what runs is in the job), what the clean-up has
established (`Dismissal`, `WindowsLimits`), and what it means that nothing was reported so far
(`Faultless`, `WindowsFaultless`, `MeasureSeen`), as a success is a return without a report. The
plain and the guarded adapter share `PosixInv`, with the guard as its parameter. For each action
the proof states the branches with their effects, and then takes the invariant part by part; the
branches that report a fault are one lemma (`ReportKept`). `MeasureClock` bounds the polls by the
two deadlines, which makes the type of the clock part of the invariant. The theorems are about
`JobsSpec`: the adapters of MC_Jobs without the bound `Small` and without fairness, for any finite
set of descendants, any limit, and any number of interrupts and rounds; `RunsAreJobs` says that
what the run checks is a part of it. `AllStaysUnderControl` assumes `InterruptAt \subseteq Body`: an
interrupt before the bench's loop does leave handles open, which section 3 says of the bound.

Only model-checked, and why:

- Liveness, which the prover cannot reach: `DropEnds`, the ends of insertions, probes,
  transactions and adapters, `LockReleased`, `SccCorrect`'s termination.
- The composed properties of `MC_Gate` and `MC_Compiler` are those of their components, selected by
  `subject`; the theorems are about the components.

## 5. Findings

`ring_Cell_update` dups the old value "so the callback consumes one ref" and drops it once,
but callbacks borrow their parameters, so each update of a heap value leaks a reference:
run `cell_update_balance`.

`_cleanup_compiler_cache_locked` lists `.staging-*` and then stats each directory; its owner
removes it in the `finally` of `_prepare_compiler`, without the lock. In between, the stat
raises FileNotFoundError through a publish or a lookup that had nothing wrong: run
`cache_share`, against `test_same_payload_concurrent_publish_shares_immutable_winner`.

`break` and `continue` out of a try or handled body leave its catch frame on the stack, as the
cleanup walk is emitted for returns only; the next raise jumps to arms that are not around it:
run `catch_break`, against the header comment at `codegen_c_expr.ring` 2188.

### Remarks that no run repeats

Each of these was met while a module was written, and follows from the steps it has.

- `List.map` sizes its buffer once (`std/list.ring` 212) and follows the list's length of now,
  so a callback that captured the list and pushes to it makes `ring_slot_write` write past the
  buffer; `docs/design.md` 464 promises a panic for an index out of bounds. With `"map"` in
  `Changing` the model shows it as the fault `"bounds"`. The list it returns has the length its
  source has after the walk (line 220), so a callback that pops leaves results in slots past the
  length, which nobody releases: `CountsExact` is violated. `filter` and `find` read a slot again
  after the predicate; with `"filter"` in `Changing` the slot may be past the length (`"bounds"`)
  and what is read from it an element that has been freed (`"dead"`).
- `retained_handles` of the bench's job starts with the root (`windows_job.py` 961), so a root
  that ends before the first sample counts as observed and `rss_complete` can be true although
  no sample saw it; `bench/check/README.md` 23 reads a short process that was missed as false.
  `RssCompleteIsTrue` therefore speaks of the processes the job listed.
- A timeout of the outer entry over an inner attempt that completed with a failure
  (`one_shot_gate.py` 2316), and a bootstrap failure over an inner directory that exists
  (`one_shot_entry.py` 396), each write a verdict that `audit_outer` rejects;
  `docs/audit-report.md` 146 asks for a stored status that agrees with the inner result.
  A failure of the identity stage (`one_shot_entry.py` 484) writes a verdict, too, but for an
  attempt that says what was refused, and `_validate_outer_attempt` (2233) refuses it for the same
  reason. `RejectedForReason` says that these are all: a flawed attempt, a bound that was reached, and
  a transaction that fell to the bootstrap's failure path after the inner gate had begun.
- An error while the restored root object is hashed (`run.py` 1697, 1736) leaves the function
  with the record that names a kept backup; `bench/check/README.md` 204 says it is recorded.
- Two harness runs of one checkout at once take each other's absence for the original
  (`run.py` 1722), against line 194 there. The runs of `RunnerRuntime` come one after another.
- A hard validation error raises before the row of a measured invocation is written
  (`run.py` 3313), against line 154 there; `HardError` is the step.

## 6. Not modelled, and why

The front end, type inference, exhaustiveness, the lowering passes, Perceus and its verifier, and
most of code generation are recursive functions on trees far larger than TLC's instances; what
their output may rely on is what the runtime's models assume (callers lend what they pass, scopes
drop what they own). Strings, numbers, files and processes of the runtime are
calls to the C library. The repository tooling validates text records.
Of the gate: the matching of a plan with its review, dependency hashes, canonical encodings;
records are their contents. Of the bench: statistics, the reading of traces, the warm seed, and
`disabled_path_gate.py`, an analysis of finished samples. Files of the cache damaged from outside,
errors of deletions, sizes in bytes, temporary files and conflict records are not in
CompilerCache. Iteration over a Map that its callback changes, depth of the C stack during a
cascade, `ring_try` (no generated code calls it), a comparator that changes the list it sorts and
a Drop body that stores `self` are not modelled.
