# Verification of paco

Paco is a compiled language with lightweight tasks, channels, generators
(`iter` functions) and panic isolation. This directory holds TLA+ models of the
parts of the repository that are hardest to test: the concurrent runtime, the
caches that several `paco` processes share, and the agreement between the
passes of the compiler about what a program means and who owns its values. With
them come the TLC configurations that check them on small instances, and TLAPS
proofs of every safety property of the runtime and the caches, for any number
of tasks, threads and processes.

- `src/runtime/paco-runtime`: scheduler, tasks, channels, join handles,
  blocking pool, I/O driver, panic isolation.
- `src/runtime/paco-runtime-ffi`: the C entry points compiled programs call.
- `src/compiler/paco-driver`: `paco run`, `clean`, `get` and `fmt`, the build
  cache and the package cache.
- the rest of `src/compiler`: the path of a program from its text to the
  running code, through lexer, parser (and back through the formatter), type
  checker, match analysis, move analysis, lowering, layout, compile-time
  evaluation and the two code generators.

## 1. Inventory

### 1.1 Runtime components

| component | state | operations | talks to |
|---|---|---|---|
| channels (`channel.rs`, `sync.rs`) | bounded queue, `closed`, `sender_count`, two waiter lists | `send`, `recv`, `is_ready`, `close`, `Sender::clone`, `Sender::drop` | parks and wakes tasks (scheduler) and threads (`thread::park`) |
| scheduler (`scheduler.rs`) | injector, one deque per worker, `parked`, `active`, `shutdown` | `spawn_raw`, `enqueue`, `worker_loop`, `find_task`, `park`, `task_finished`, `run_until_idle`, `Drop` | resumes tasks, is woken by wakers |
| tasks (`task.rs`) | the coroutine in its mutex, a `fired` flag per waker | `resume`, `suspend`, `yield_now`, `Waker::wake` | scheduler, panic isolation |
| join handles (`join.rs`) | the result slot and its waiters | `spawn`, `complete`, `join` | tasks, parking |
| blocking pool (`blocking.rs`) | job queue, `idle`, `threads`, a condition variable | `submit`, `worker_loop`, `spawn_blocking` | a channel carries the result back |
| I/O driver (`io.rs`) | `waiters` by key, timer heap, poller, `shutdown` | `wait_readable`, `wait_writable`, `wait_fd`, `sleep_until`, `poll_loop`, `shutdown` | operating system poller, parking |
| panic isolation (`abandon.rs`, `panic.rs`) | thread-local stack of contexts | `isolate`, `abandon`, `take_abandoned`, `raise` | tasks and generators |
| generators (`paco-runtime-ffi/lib.rs`) | coroutine in a mutex, reference count, thread-local yielder | `new`, `next`, `yield`, `retain`, `release` | panic isolation |
| autodiff tapes (`autodiff.rs`) | the active tape, recorded operations, deferred frees | `tape_new`, `stop_recording`, `release`, `tape_free` | generated code |

What is hard about them: a waker can fire before its task has suspended;
queues, waiter lists and counters have locks of their own, so every operation
is visible half done; `wait_timeout` and `park` return spuriously; a task moves
between threads whose thread locals describe what runs on them; an abandoned
stack never runs its destructors.

What makes them correct: no wake-up is lost and none is delivered twice (a task
enqueued twice is later resumed in the middle of something else, or after it
finished, which takes its worker down); nothing sent, submitted or returned is
lost or delivered twice; the counters that decide about waking and termination
are exact; and every wait whose condition came true ends.

### 1.2 Compiler components

| component | state | operations | talks to |
|---|---|---|---|
| lexer, parser (`paco-syntax/{lex,parse}.rs`) | tokens, position, two context flags | one function per production, `for` desugared on the way | driver |
| formatter (`fmt.rs`) | the output | one function per node | `paco fmt` |
| type checker (`paco-types`) | tables of items, scopes, bindings of type parameters | `collect`, `check_function`, inference of each expression, `unify`, bounds | match analysis |
| match analysis (`paco-match`) | what earlier arms cover | `analyze_match` | type checker |
| borrow checker (`paco-borrow`) | which bindings are moved | `check_*` per construct, merging of branches | driver |
| lowering (`paco-mir/lower.rs`) | blocks, scopes, temporaries, loop targets | `lower_*` per construct, drops at scope ends and jumps | instance registry |
| layout (`layout.rs`, `type_layout.rs`, `glue.rs`) | none | sizes, offsets, live byte, what needs releasing | machine, code generators |
| compile-time machine (`paco-comptime/machine.rs`) | memory, frames, limits | one per MIR statement and terminator, `drop_at`, `clone_at` | provider of bodies in the driver |
| code generators (`paco-codegen-cranelift`, `-llvm`) | slots, drop flags | one per MIR statement and terminator, glue | runtime FFI |
| driver sessions (`paco-driver/lowering.rs`) | instances seen, pending, done; sites and values | lower, drain, evaluate, lower again | all of the above |
| build cache (`cache.rs`) | manifests by entry, binaries by key | `lookup`, `publish`, `prune`, `clear`, touch | other processes |
| package cache, lock file (`pkg_cache.rs`, `git.rs`, `manifest.rs`) | one directory per tag, `paco.lock` | fetch, resolve, write the lock | other processes, git |

The passes are sequential, so what is hard there is not interleaving but
agreement: parser and formatter about precedence, checker and lowering about
types and instances, lowering and back ends about drops, all of them about
layouts and arithmetic. In the caches it is other processes, and processes that
die between two steps.

What makes them correct: formatting does not change a program; what the checker
accepts neither crashes a later pass nor faults when it runs; what runs is what
the program means, in either profile and on either back end, at compile time
too; memory is released once; compilation ends; and `paco run` runs a binary of
the files and of the locked commit as they are.

## 2. Modules

| module | models | granularity |
|---|---|---|
| `BoundedFifo` | what a channel promises: a bounded FIFO queue with atomic operations | one step per operation |
| `TaskPool` | what the scheduler promises: tasks that are ready, running, waiting or done, each on one stack at a time | one step per change a program can see |
| `OneShot` | what a join handle promises: an outcome stored once and taken once | one step per operation |
| `JobPool` | what the blocking pool promises: jobs start in order, once, and end | one step per submission, start and end |
| `Channel` | `channel.rs`, `sync.rs` | one step per lock section |
| `Scheduler` | `scheduler.rs`, `task.rs` | one step between two synchronisations |
| `Join` | `join.rs` | one step per lock section |
| `BlockingPool` | `blocking.rs` | one step per lock section or atomic |
| `IoDriver` | `io.rs` | one step per lock section or poller call |
| `Isolation` | `abandon.rs`, `panic.rs`, the resume in `task.rs`, generators | one step per entry or exit of a coroutine |
| `Select` | `lower_select` of `paco-mir` over `BoundedFifo`-like channels | one step per runtime call |
| `MoveCheck` | the move analysis of `paco-borrow` | a function from a body to accepted or rejected |
| `Lowering` | the `Lowerer` of `paco-mir` as ownership sees it: scopes, temporaries, drops, jumps | a function from a body to basic blocks |
| `Ownership` | an accepted, lowered function run with drop flags | one step per MIR statement or terminator |
| `PkgCache` | `pkg_cache.rs`, `git.rs`, `paco get` | one step per file or git operation |
| `BuildCache` | `cache.rs` | operators on the cache's files |
| `Driver` | `paco run`, `clean` and `get` composed over both caches | one step per file operation |
| `Lexer`, `Parser` | `lex.rs`, `parse.rs` | a stack machine, one operator per parsing function |
| `Formatter` | `fmt.rs` | a function from a tree to a text |
| `Syntax` | `paco fmt --write` on a file | one step per run |
| `Types`, `Usefulness`, `Infer` | `paco-types`, `paco-match` | a function from a tree to a typed tree and its errors |
| `MirLower` | the `Lowerer` as values see it: operands, places, calls, patterns, instances | a function from a typed body to MIR |
| `Layout`, `Arithmetic` | layouts and integer operations | functions |
| `Memory` | memory, frames and places, shared by the next two | operators on a machine |
| `Machine` | `paco-comptime/machine.rs` | one step per MIR statement or terminator |
| `Native` | the code either generator emits | one step per MIR statement or terminator |
| `Semantics` | reference: what a typed program means | an evaluator of the tree |
| `Pipeline` | the driver's sessions over all of these | one step per function lowered, site evaluated or statement run |
| `MCDriver`, `MCOwnership`, `MCSyntax`, `MCPipeline` | instances for TLC; the other modules need only model values, which their `.cfg` gives | |
| `ChannelProofs`, `SchedulerProofs`, `JoinProofs`, `BlockingPoolProofs`, `IoDriverProofs`, `IsolationProofs`, `SelectProofs`, `DriverProofs` | theorems about the module they are named for | |

A variable carries the name of the field it models, and a comment where it
models a local or a place in the code (`pc`, `ret`, `scan`). An operator whose
name ends in `_something` and whose comment starts with "Faulty" is a plausible
mistake in the operator that follows it; it is not used by any specification.
`PROJECT.json` maps definitions to the lines they model; one-line notation
(record constructors, sets of names) is not listed there.

**Channel.** `send` is `CallSend`, `SendCheck` (the unlocked test of `closed`),
then under the queue's lock `SendPush`, `SendRefused` or `SendRegister`, and
either `SendWake` (`wake_all` on the receivers) or the park that
`SendUnparked` ends. `recv` and `close` are cut in the same way. `Notify` is a
count per actor: entries of a task in the run queues, or the one unpark token
of a thread. Tasks return from a park only by their entry; threads also return
spuriously. A thread's stale entry in a waiter list survives, as in the code.

**Scheduler.** Workers, the main thread and one external thread that stands for
everything that fires wakers. `enqueue` is two steps (`Push`, `Notify`), since
the push and the lock of `parked` are separate. `steal_batch_and_pop` moves any
prefix, which covers whatever batch size crossbeam chooses. What a task's body
does is nondeterministic: spawn, wake, yield, wait, return or panic.

**Join.** `complete` stores the outcome and takes the waiters under the lock;
they are notified one by one afterwards, while joiners go on arriving.

**TaskPool, OneShot, JobPool, BoundedFifo.** The abstract specifications have
no locks, queues of waiters, counters or notifications: each of their steps is
one a caller could observe. `Scheduler`, `Join`, `BlockingPool` and `Channel`
each end with the `INSTANCE` that maps their state to the abstract one, and with
the property that they implement it.

**BlockingPool.** `submit` is push, test of `idle`, signal; a pool thread is
pop, count idle, recheck under the signal's lock, wait, uncount, and, after a
timeout, leave if the queue is empty.

**IoDriver.** The poller is external: `add` refuses a descriptor that is
registered and may fail for any other, an event disarms its registration,
`notify` makes the current or next wait return, and a wait may fail. A call
whose `add` failed (`WaitAddFails`) returns the error and leaves its entry in
`waiters`; its caller goes on and may wait or sleep again. The clock is a
bounded counter.

**Isolation.** `frames[t]` is what really nests on a task's stack, `contexts`
and `yielder` what the thread locals say. `iterBlocks`, chosen initially, says
whether the program's `iter` functions make calls that suspend the task. A
generator's mutex (`locked`) is taken by `next`, given back when the generator
yields or returns, and kept when it panics (`panicked`).

**Select.** `is_ready` for each arm, then `recv`, whose status is not looked
at. Its channels are atomic, which `Channel` is shown to implement.

**MoveCheck, Lowering, Ownership.** A program is a small syntax tree (the
statements are listed at the head of `MoveCheck`). `MoveCheck` is
`OwnershipState` and the `check_*` functions over it: which bindings are moved,
whether the point is reachable, and how branches are merged. `Lowering` keeps
the `Lowerer`'s fields (blocks, current block, the dead block after a jump,
scopes with their locals, loop targets) and emits statements and drops in the
code's order: temporaries after each statement, a scope's locals in reverse at
its end, and everything from the target's depth before a jump, a `return` or
the error path of `?`. `Ownership` chooses an accepted program, lowers it, and
executes the blocks; a branch goes either way. The flags follow the code: set
by a write, cleared by a move or a drop, tested by a drop. Two parts of the
state are the model's own: `live`, the values that exist, and the checker's
`lostJump`, which records that a `break` or `continue` left an iteration with a
local of an outer scope moved (see findings). Every local has an owning type;
borrows, closures and Copy types are not in it.

**PkgCache, BuildCache, Driver.** Every file is a function of its key, every
read, rename, removal and git command a step; an error or a signal ends a
process between any two of them and leaves what it wrote. What `paco get`
clones into (`tmp`) is a directory with a commit and with all of its files or
not: a clone and a checkout of the locked commit each begin and end, and the
rename moves whatever is there, if the target is absent. A hash is written as what it hashes,
which makes it injective. The environment edits a source file, moves a tag
upstream, updates the compiler and lets files grow old.

**Lexer, Parser, Formatter, Syntax.** A text is a sequence of pieces, with
`" "` for any white space, so that "two tokens that touch" is part of the model
and the shape of a word is not. Each parsing function is an operator that looks
ahead and pushes what the function then does. `Syntax` formats a file and
parses it again.

**Types, Usefulness, Infer.** A type is a kind, a name and components. `infer`
is one traversal that carries the scopes, the errors and the type parameters
bound so far, and calls for each node what the code's function does before,
between and after its children. The result is a tree with types.

**MirLower** repeats `lower.rs` for the values it computes, where `Lowering`
follows only what is moved, bound and dropped; the two overlap in scopes and
jumps. It works on trees with types, has generic instances, methods, patterns,
`?`, `comptime` and overflow methods, and marks a panic of the compiler by
`crash`.

**Memory, Machine, Native.** A byte remembers which byte of which value it is,
so that reading at a wrong offset or width gives `Garbage` and not a lucky
number; an access outside an allocation, or to a freed one, gives `Broken`. Both
are faults. `Machine` keeps every local in memory; `Native` keeps one word per
local, with aggregates in stack slots that a loop uses again, and returns them
through an address of the caller's. The two generators are one module with a
parameter `Backends`: what they emit differs in the checks around arithmetic.

**Semantics** evaluates typed trees on values that are trees, with no layouts,
moves or blocks. It is the reference `EvaluatesRight` compares with.

**Pipeline.** `Parse`, `Check`, then a session: functions and the instances they
ask for are lowered, sites of `comptime` evaluated, with missing bodies lowered
on request (`Provide`), their values embedded, and everything lowered again for
the profile of the build. `RunMain` then runs `main` on either back end.

The modules about the compiler's passes are recursive in a tree, so they are
for TLC only; those about the runtime and the caches are not.

## 3. Runs

| run | instance | shows |
|---|---|---|
| `channel` | 2 tasks, 1 thread, 2 `Sender`s, 2 values, capacity 0 (so 1), 1 spurious wake-up | `NoLostWakeup` on either side, no double enqueue (`EnqueuedOnce`), exact sender count (`SendersCounted`), RecvError is final (`EndIsFinal`), and `Channel` implements `BoundedFifo` with its liveness (`ImplementsFifo`) |
| `scheduler` | 2 workers, 2 tasks, main and external thread | no task queued twice or resumed after it finished (`QueuedAtMostOnce`) or lost (`NoLostTask`); `active` is exact and `run_until_idle` cannot miss the last task (`NoLostIdleNotify`); `Scheduler` implements `TaskPool`, every ready task being taken up (`ImplementsTaskPool`); `ShutdownEnds` |
| `join` | 2 tasks and a thread on one handle | delivered once, to one joiner (`DeliveredOnce`); nobody sleeps through it (`NoLostJoinWakeup`); `Join` implements `OneShot`: if anyone joins, someone gets the outcome (`ImplementsOneShot`) |
| `blocking_pool` | 3 jobs, 2 submitters, 3 threads | no job stranded and counters exact (`NoStrandedJob`); `BlockingPool` implements `JobPool`: jobs start in order, each once, and run to their end (`ImplementsJobPool`) |
| `io_driver` | a task and a thread, 1 descriptor, 2 waits, 2 sleeps, clock 0..1 | no missed timer or event (`NoLostWakeup`); a task, and a thread whose `park` has not returned spuriously, comes back from a sleep no earlier than its deadline and from a descriptor only for an event of its own call, whatever earlier or failed calls left behind (`NoEarlyReturn`); `SleepEnds` |
| `isolation` | 2 workers, 2 tasks, 2 generators | thread locals match the stacks, and neither a panic nor a `yield` takes the process down, if no `iter` function blocks (`LocalsMatch`); one driver per generator, always, and the mutex is held by that driver or for good by a panic (`OneDriver`); `PanicEndsTask` |
| `select` | 2 arms, one on a shared receiver, capacity 2, 3 values | no value lost or taken twice (`ValueOnce`), no blocking on receivers of its own (`UnsharedNeverBlocks`), `SelectEnds` |
| `ownership` | 1862 function bodies with one parameter: branches, loops, inner scopes, `match`, `select`, `spawn`, `?` | what the move analysis accepts never uses a value that is gone (`NoUseAfterMove`), drops nothing twice (`SingleOwner`), leaks nothing (`NoLeak`) and drops in reverse order (`ReverseDrops`) |
| `ownership_loop` | loops with every jump | **violated**: see findings |
| `driver` | 1 project, 2 `paco get`, 2 `paco run` or `clean` | what runs was built by a compiler and from a text no older than when its command started (`FreshRun`), and from a commit the lock file has named (`RunsLockedCommit`); its binary is missing only if the cache was pruned or cleared meanwhile (`FailsOnlyIfCleaned`); a package directory is whole or absent, and `paco get` locks the commit its directory is at, or keeps the one that was locked (`FetchedExact`) |
| `syntax` | some 6,900 texts | a program the formatter can express comes back unchanged (`RoundTrip`), operators group as they should (`PrecedenceMatches`), and a desugared `for` runs its body once per value, or for ever where a `continue` is not rewritten (`ForVisitsRange`) |
| `pipeline` | 261 programs, both profiles, both back ends | no crash and no fault of what is accepted (`Sound`), results are the program's meaning (`EvaluatesRight`), memory and destructors are accounted for (`MemoryReleased`), `LayoutSound`, `Terminates` |

Each runtime module states its type invariant `TypeOK`, which is proved as a
part of its inductive invariant (section 4).

**Bounds.** Two tasks and a thread are enough for a waiter, an actor that
changes what it waits for, and a third that comes in between; capacity 1 makes
both full and empty channels common, with two values to queue and overtake. Two
workers give stealing in both directions; a task can be woken while it
suspends and be resumed elsewhere. Three jobs for two submitters and three pool
threads allow two jobs to count on one idle thread. With two generators one can
nest in the other, be shared between tasks, and be left by a panic from inside
both. `MaxSpurious` bounds spurious returns, `MaxValues`, `MaxKeys`,
`MaxSleeps` and `MaxTime` the calls of a program and the clock.

The bodies of `ownership` are all bodies of the shapes in `MCOwnership`:
a branch or a loop around one, every pair of short blocks in the arms, with
every way to leave a block, and each followed by nothing or by one more use. A
move analysis that is wrong about merging, or a lowering wrong about a drop,
already is so with one variable and one join; a second variable is there where
values move between scopes. Left out of the passing run is what the findings
are about: jumps with an outer local moved, conditions that move, `select` arms
that leave, reassign, or receive an owned value and do not pass it on.

In `driver`, two tags and two commits let a tag move and a project change its
dependency; two `paco get` race for one directory, also with a move of the tag
between their clones; `MaxSize = 1` makes every second binary a candidate for pruning;
`MaxVersion`, `MaxCompiler`, `MaxChanges` allow one edit, one compiler update
and one upstream change, and `MaxCommands = 3` lets a third command meet what
two earlier ones, dead or alive, left behind. Processes, tags and commits are
symmetric; all its properties are invariants.

`syntax` nests every expression, type and pattern form in every position of
every other, with and without parentheses, and follows a loop for `Rounds = 6`
rounds, more than any of its ranges has values. The bodies of its loops have a
`continue` in every kind of place, nine of them where the parser does not
rewrite it, and each of them comes to its `continue`. One run of `fmt`
(`MaxRuns = 1`) suffices: what it wrote parses to the same tree, so another run
writes the same.

`pipeline`'s programs (`MCPipeline`) exercise each construct, most of them
inside a loop, a generic function, a method or a `comptime` expression. Integers
have 4 or 8 bits (`Bits`), so that each width has overflow within reach of a
literal; the sizes in memory stay 1 and 8 bytes. `Instructions = 200`,
`CallDepth = 6` and `MaxInstantiations = 4` are small so that some programs run
into each; `Fuel = 40` bounds the reference evaluation, beyond what those limits
let a program do that ends. No run uses a state constraint.

**Deadlock** is not checked where a program may finish or may wait for ever for
a value nobody sends (`CHECK_DEADLOCK FALSE`: the runtime, `driver`, `syntax`).
`ownership` and `pipeline` do check it: a lowered function runs until it
returns, and a compilation until it is at rest.

**Fairness.** Each thread takes the steps the code obliges it to: weak fairness
of each actor's `Step` inside a call (never of starting a call), of worker and
main-thread steps, of the 10 ms timeout of a parked worker, of a task's body to
sooner or later suspend or end (blocking calls go to the pool), of the jobs of
the pool to end, of the poll thread and the clock. In `IoDriver` the successful
return of the poller's wait has strong fairness: the code retries a failed
wait at once, and the assumption is that the system call does not fail for
ever. No fairness is assumed of idle timeouts in the pool or of spurious
wake-ups. In `Pipeline` the compiler is a single thread that goes on until it
is at rest; `Fairness` says this without ENABLED, which would evaluate the
whole compiler twice in every state.

## 4. Proofs

Every invariant that a run checks of the runtime, of `select` and of the caches
is a theorem, for all values of the constants, and so are the action property of
`IoDriver` and the safety parts of the four refinements: channel, scheduler,
join handle and blocking pool. Each proof module
has the same plan: an inductive invariant `IndInv`, checked with TLC first; a
lemma for the initial states; a lemma or a step for each action; `Invariance`,
which combines them; and one theorem per property, which follows from `IndInv`.
`Safety` is the specification without its fairness, so what it implies the full
specification implies. `Driver` has no fairness, and its theorems are about
`Spec`.

| module | theorem | property |
|---|---|---|
| `ChannelProofs` | `NoLostWakeups` | `NoLostWakeup` |
| | `TaskEnqueuedOnce` | `EnqueuedOnce` |
| | `EndOfStreamFinal` | `EndIsFinal` |
| | `SenderCountExact` | `SendersCounted` |
| | `TypeCorrect`, `QueueBounded` | |
| | `ChannelImplementsFifo` | the safety part of `ImplementsFifo` |
| `SchedulerProofs` | `OneEntryPerTask` | `QueuedAtMostOnce` |
| | `NoTaskForgotten` | `NoLostTask` |
| | `IdleIsNoticed` | `NoLostIdleNotify` |
| | `SchedulerImplementsTaskPool` | the safety part of `ImplementsTaskPool` |
| `JoinProofs` | `NoJoinerForgotten` | `NoLostJoinWakeup` |
| | `ResultDeliveredOnce` | `DeliveredOnce` |
| | `JoinImplementsOneShot` | the safety part of `ImplementsOneShot` |
| `BlockingPoolProofs` | `NoJobStranded` | `NoStrandedJob` |
| | `PoolImplementsJobPool` | the safety part of `ImplementsJobPool` |
| `IoDriverProofs` | `NoWakeupLost` | `NoLostWakeup` |
| | `WokenForCause` | `NoEarlyReturn` (an action property) |
| `IsolationProofs` | `LocalsAlwaysMatch` | `LocalsMatch` |
| | `DrivenByOne` | `OneDriver` |
| `SelectProofs` | `NoValueLost` | `ValueOnce` |
| | `ReadyStaysTrue` | `UnsharedNeverBlocks` |
| `DriverProofs` | `FetchesExact` | `FetchedExact` |
| | `NeverStale` | `FreshRun` |
| | `LockedCommitRuns` | `RunsLockedCommit` |
| | `NoSpuriousFailure` | `FailsOnlyIfCleaned` |

**Channel.** Any sets of tasks and threads, any finite set of `Sender`
identities, any capacity and any number of values. Assumed: tasks are not
threads, the requested capacity is a natural number, `Nobody` is no actor. The
inductive invariant adds two facts to the properties. `Registered`: a parked
actor that has not been woken still has its entry in the list it parked on;
without it the `wake_all` that is due need not reach the actor. `ValueHeld`: a
sender holds its value exactly from the call to the push or refusal; the
refinement needs it, since `BoundedFifo` gives the argument back at that
instant. `EnqueuedOnce` is needed for itself: a task's entry is counted over
both lists, so that a wake from one list cannot meet an entry left in the other.
The refinement is proved action by action; `capacity.max(1)` matters in it,
since a channel asked for with capacity 0 could accept nothing.

**Scheduler.** Any finite sets of workers and tasks; the main thread, the
external thread and the workers are different. That no task is queued twice is
not inductive: a waker would add a second entry if the task already had one.
`QueuedWhenDue` says exactly when it has one: it is alive, its waker is not
armed and no worker is in its body. A waker that overtakes the suspension makes
the task due while its worker still holds the coroutine; hence `Holders`, which
ties the coroutine's mutex to the places of the workers, and hence a second
worker that takes the task up must wait for it. `Exclusive` keeps the entries
of all queues apart, through batches stolen from another worker. `Counted` is
the exactness of both counters, `Places` which thread can be where.

The refinement maps the twelve variables to three (`State`, `On`, `MainAt`):
what a task is, on which workers' stacks its coroutine is, and whether the main
thread is idling or dropping the runtime. Searching, parking, notifying and
stealing are stutters. The one step that could go wrong is the resumption:
`TaskPool` allows it only for a ready task that has left its stack, which
`QueuedWhenDue` gives for whatever a worker found in a queue and `Holders` for
whoever got the mutex. That a task may be ready and still on a stack is part of
the promise: it is how a wake-up that overtakes its suspension looks from
outside. `run_until_idle` returning means that no task is alive, by `Counted`;
that none is taken up after the drop needs one more invariant (`Joined`): when
the main thread is past its joins, every worker has exited.

**Join.** Any number of joining tasks and threads. `Delivery` describes the life
of the slot: empty, filled by the one `complete`, emptied by one joiner.
`Registered`: as long as the task runs, who sleeps has an entry; `complete`
takes all entries under the lock under which it stores the result, and so
`NoLostJoinWakeup` is preserved by it. For the refinement, a joiner is inside
of `join` from its call to its return whatever it registers, parks and retries
in between; storing and taking are the steps `OneShot` sees.

**BlockingPool.** Any finite sets of jobs and threads; a submitter is no pool
thread (a job that submits another is counted as a submitter of its own). The
property is nearly inductive: `Places` keeps the two kinds of threads apart, so
that `idle = 0` in a submitter's test says, by the exact counters, that no
thread is waiting, and a thread that leaves after its timeout rechecks the
queue. The refinement needs in addition that a job is in one place only
(`Apart`): queued once, or run by one thread, or ended, and only after its
submission. Otherwise a pop could start a job a second time, which `JobPool`
does not allow.

**IoDriver.** Any number of tasks, threads, descriptors and calls. `Keys`: a key
belongs to one call, so an entry that outlives its call is never taken for
another's. `Registrations`: the poller watches a descriptor exactly from `add`
to `delete`, and events are for such calls only. `Tokens` is about the callers
whose parks have all ended with a wake-up (`Steady`: tasks, and threads as long
as no park has returned spuriously). Between the call of such a caller and its
return the driver has one entry for it, or it has one wake-up, never both, never
a wake-up for a timer before the deadline, and never one for a descriptor that is
still armed; the entries that its failed calls left in the table have no event
(`CallTokens`). This is what makes both theorems hold together: the action
property needs that a wake-up cannot be left over from an earlier call, and
`Registrations` that an event in hand is for a registration which is disarmed and
cannot be armed again before its call has returned. `NowPast`: the time that
the poll thread compares deadlines with is not in the future. That `peek`
returns the earliest timer is a lemma (`EarliestTimer`), from the
well-foundedness of the naturals.

**Isolation.** Any number of workers, tasks and generators. What the thread
locals should be is known from the nests (`Locals`), but leaving a generator
restores a local saved when it was entered, so the saved ones must chain the
generators of a nest together (`OutersMatch`). A restored local is right only on
the thread it was saved on, which `Seats` gives: a task is on one worker while
it runs and, if no iter function blocks, it is suspended only outside of all
generators. That the process stays up (`Alive`) is a second induction on top of
the first: with the locals right, a panic finds the context of the coroutine it
is in and a `yield` its own generator, so the steps that end the process cannot
be taken. `OneDriver` holds without that proviso: `OncePerFrame` and `Guarded`
say that a generator in some nest is locked or has no handle left, and a call
needs the lock and a handle. Its other half, that the mutex of a generator left
by a panic stays locked, is kept by `LocksKept`: nobody gets into such a
generator again, so no return or yield of a later call gives its mutex back.

**Select.** Any number of arms, any of them shared, any positive capacity. The
values in the queues are pairwise different (`QueuedOnce`), without which a
`recv` could leave a copy of what it took.

**Driver.** Any number of projects, processes, tags, commits, edits and
commands. Assumed: index keys and inputs are the records the cache stores (and
hashes are injective, as in the model), and that "missing" is not one of the
values. The invariant says, for each step of a command, what it has read by then
and how that relates to what is on disk now (`RunOK`, `Getting`). `Grows` is the
reason a fact read once stays true: texts and compilers only get newer, a lock's
history only grows, and a package directory does not change once it is there.
Binaries do disappear, so a process records that it was cleaned under
(`BinaryThere`). `LockKnown` and `IndexKnown` carry the locked commit through
`paco.lock` and through the manifests written by other commands. For
`FetchedExact`, `GetOK` (a part of `Getting`) follows the directory a `paco get`
is filling: at the rename it is whole, and its commit is the one the process will
report (`Cloned`, `Exact`); when the rename finds a target, the commit is read
from that one, which by `Grows` no other process replaces afterwards.

**Left to TLC.** Liveness under fairness is out of the prover's reach:
`ShutdownEnds`, `SleepEnds`, `PanicEndsTask`, `SelectEnds`, `Terminates`, and
the fairness parts of `ImplementsFifo`, `ImplementsTaskPool`,
`ImplementsOneShot` and `ImplementsJobPool`; what is proved of these four is
that every step of the implementation is a step of the abstract specification
or none. The compiler's modules (`Ownership`, `Syntax`, `Pipeline` and
what they use) define their functions by recursion on trees; what those compute
for every input needs an induction over data that the prover cannot do, so their
properties are checked on the bounded inputs of section 3.

## 5. Findings

One has a run, `ownership_loop`, which quotes the line it contradicts in
`PROJECT.json`: a branch that ends in `continue` is left out when branches are
merged, and the loop check looks only at the end of the body, so a move before
the jump is forgotten and the next iteration moves the value again.

The others were met while modelling. The models follow the code, and where a
property would otherwise fail its precondition, or the choice of programs, says
so. Lines are those of the file named first in each list.

Runtime:

- A task that suspends inside a generator and is resumed on another worker has
  lost its panic context there; its next panic exits the process
  (`abandon.rs:16`, `panic.rs:31`; `docs/design/spec.md:696` says a panic ends
  its task). `LocalsMatch` and `PanicEndsTask` hold for programs whose `iter`
  functions do not block.
- A panic inside a generator leaves the generator's mutex locked by a stack
  that never runs again; a later `next` on the shared handle blocks its worker.
  The comment on `paco_rt_generator_next`
  (`paco-runtime-ffi/src/lib.rs:396-398`) says "every later call returns `1`".
  `OneDriver` states what the code does: the mutex stays locked.
- On a closed, drained channel `is_ready` is true and the status of `recv` is
  dropped (`lower.rs:2572`): the `select` arm runs with a binding nobody wrote
  (`docs/design/spec.md:770`).
- The first `join` takes the result out of the slot (`join.rs`): another `join`
  on the same handle parks for ever although the task finished.
  `OneShot` promises a result to one joiner only.
- Two tasks that wait for one descriptor: the poller refuses the second
  registration and the call fails in place of waiting. The entry it made in
  `waiters` is never removed (`io.rs:104-105`, `io.rs:120-121`); `NoEarlyReturn`
  shows that it does no harm to later calls.
- A plain thread in `sleep_until` parks once, so a spurious return or a stale
  unpark token ends its sleep early (`io.rs:134`), and the timer it leaves ends
  the next one. `NoEarlyReturn` holds of a thread until a `park` has returned
  spuriously.
- A `select` with a `default` branch can block in `recv` when another task
  shares the receiver and takes the value between `is_ready` and `recv`.
- `paco_rt_main` (`paco-runtime-ffi/src/helpers.rs:352`) calls the entry point
  as a function that returns a 64-bit integer: a `main` that returns an
  aggregate gets no address to return it through, and one that returns a
  narrower integer leaves the upper bits undefined. `RunMain` calls `main` like
  any other function.
- The tape that records is per OS thread (`autodiff.rs:33-36`), not per task.

Caches (`paco-driver/src`):

- The inputs of a manifest are the sources that were read, and neither
  `paco.mod` nor `paco.lock` (`lib.rs:1604-1612`): after an edit of these the
  cached binary, with the dependency as it was, still is a hit, though
  `cache.rs:1-2` says "keyed by every input that can change them".
  `RunsLockedCommit` therefore speaks of a commit the lock file has named, not
  of the one it names.
- With a locked commit `paco get` reports that commit without a look at a
  directory that is already there, which may be at another
  (`pkg_cache.rs:98-104`, `pkg_cache.rs:130-131`); the comment on `Fetched`
  (`pkg_cache.rs:46-47`) says "the exact commit its cache directory ends up
  checked out at". `FetchedExact` compares with the directory only where no
  commit was locked; a build checks the directory again and refuses it.

Move analysis (`paco-borrow`) and drops:

- A `while` condition that moves a local is accepted, although it is evaluated
  again for every iteration.
- The arms of a `select` are walked one after the other in one state, so an arm
  that returns leaves the later ones unchecked, and an assignment in one hides
  a move in an earlier one.
- `paco_rt_recv` writes a `select` arm's binding through a pointer
  (`lower.rs:2566`), so its drop flag is never set: an owned value the arm does
  not pass on, or receives without a name, is leaked.

Parser and formatter (`paco-syntax/src`):

- The formatter drops or adds parentheses that matter around closures,
  `return`, `yield`, `spawn` and block-like operands, `(a < b) == c`,
  `spawn (a + b)`, `& &x`, a cast before `<`, `(x.f)()`; it drops type arguments
  of calls, `pub`, attributes, `comptime`, bounds of const parameters, generics
  of extern functions, comments, and the comma after a block arm; it prints the
  desugared `for`; and each run wraps a `select` arm in one more block
  (`fmt.rs:153` tests the opposite). `RoundTrip` leaves these forms out.
- A `continue` of a range `for` is not rewritten to advance the cursor
  (`parse.rs:2697-2773`) when it stands in a `select`, in the condition of an
  `if` or a `while`, in a scrutinee, a guard, a callee, a receiver or the target
  of an assignment: the loop runs the same round for ever. `ForVisitsRange`
  states both cases. An inclusive range that ends at the maximum overflows
  its cursor; an integer literal above the `i64` maximum becomes 0.

Checker (`paco-types/src/lib.rs`) and match analysis:

- The caller's own type parameters are not rigid in a call (6818, 6874):
  `fn h<T>(x: T) -> i64 { f(x) }` is accepted for any `T`, and `g(g(x))` is
  rejected when the names are equal.
- Code after a diverging statement has no recorded type (3607-3611) and the
  lowering panics.
- A bare name of a unit variant is a catch-all pattern; scrutinees that are
  tuples or structs get no exhaustiveness check, and a refutable `let` is
  accepted: both end in `Unreachable`.
- `==` on structs and tuples and `<` on `bool` are accepted, and refused or met
  with a panic by some back end; a primitive satisfies any user trait; a borrow
  of an enum cannot be matched with the enum's patterns; literals in patterns,
  struct fields and binary operators do not adapt their width.

Lowering (`paco-mir/src/lower.rs`) and back ends:

- `detach` (726-735) leaves an operand of Copy type in place, so `return s.a`
  reads `s` after its drop; the comment above it says otherwise.
- The user's `drop` of a generic type is never instantiated
  (`docs/design/spec.md:326-337`).
- `mangle_type` gives tuples no arity (562): two different tuple types can
  share a symbol, against the comment at 523-527.
- An associated call takes its type arguments from the result type (3219), and
  `Self::f()` is looked up under the name `Self` (3780).
- `lower_unwrap` of a borrowed Option (3568) and `lower_place` of a bare unit
  variant (2877) panic.
- `x + { x = 2; 1 }` reads the new `x` (3048).
- `assert` on a comparison evaluates its operands again for the message (2027).
- A field behind a borrow that is itself in a field adds its offset to the slot
  of the borrow. A scalar argument that is borrowed implicitly is passed by
  value by both code generators and by address by the machine.
- A constant whose initialiser overflows panics the compiler.

## 6. Not modelled, and why

- **Automatic differentiation and its tapes.** The transform rewrites
  floating-point code, and its correctness is about real derivatives; TLC has
  no reals. Which order the tape's calls come in is decided by that transform,
  so a model of the tape alone would check orders the compiler does not emit.
- **Borrows and their conflicts** in `paco-borrow`, partial moves, closures:
  the move analysis of whole locals is modelled, the rest is not yet.
- **Floats, slices, closures, cells, raw pointers, dimensions, `dyn`, quoted
  code, imports and constants** in the checker, lowering and back ends: the
  programs of `Pipeline` have integers, booleans, characters, texts, tuples,
  structs, enums, borrows and generics. Tasks, channels and generators appear
  only in the modules about the runtime and in `Select`.
- **Name resolution and HIR**: a program of the model is one file with distinct
  names, so resolution would only add diagnostics.
- **Scanning of characters, escapes, error recovery, spans, diagnostics,
  printing, stack traces**: text without a property.
- **Linker driver**: command lines of external tools. The optimiser of LLVM is
  external too.
- The retain and release pairs of the FFI handles are `Arc`; the half of the
  FFI that wraps system calls (sockets, files, clocks, math) has no state of its
  own. Number formats, sorting and text operations are functions without state,
  over floats or long byte strings.

## 7. Plan

1. Borrow conflicts, partial moves and Copy types in `MoveCheck`.
2. Slices and closures in `Pipeline`.
