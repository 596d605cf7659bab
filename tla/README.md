# A verification project for the Nymph compiler

Nymph is a statically typed language compiled to JavaScript. The repository
holds the compiler (Rust, `crates/*`), the JavaScript runtime that compiled
programs carry with them (`crates/nymph-codegen/src/*.js`), a language server, a
formatter, a CLI, a standard library and the language's design documents.

Two parts of it are concurrent programs in their own right: the task runtime
(structured concurrency and cancellation inside a compiled program) and the
language server (an owner thread, workers and bounded queues in between). They
come first here, followed by the stateful protocols around them.

## 1. Inventory

| component | state it keeps | operations | what is hard | what makes it correct |
|---|---|---|---|---|
| **Task runtime** `nymph-codegen/src/task_runtime.js` | executions (`#children`, `#ownerHandles`, abort signal, outcome promise), handles (`observed`), task contexts (`#children`), the root outcome | spawn, drive, await, checkpoint, cancel, join of a context, join of the lineage, select, race, root start and cancel | every `await` is an interleaving point; cancellation races values that are already queued; two ownership relations (context and lineage) | failing executions join what they spawned before closing and settling; cancelled executions produce nothing; no panic is lost; no circular join; the root settles |
| **Activation runtime** `nymph-codegen/src/activation_runtime.js` | a stack of frames, each with a stack of cleanup scopes; suspensions; `nymphCurrentActivation` | push, tail call, return, suspend, resume, cancel, cleanup scopes, state transitions | cleanups that throw while unwinding; a suspension resumed or cancelled twice; a state transition that fails half way | every registered cleanup runs exactly once, in reverse order, on every path |
| **State loops** `nymph-codegen/src/emit.rs` (what it emits for `loop (let use ...)`) | slots of the frame: a location per binding, a temporary per binding and `continue`, the registered cleanups | initialize, snapshot, evaluate, commit, break | cleanups are arrows over slots that are written again | while an iteration runs, its resources are open and all earlier ones closed, once |
| **Persistent map and value runtime** `hashmap_runtime.js`, `box_rt.rs`, `strip.rs` | immutable values | insert, remove, lookup, iterate, host boundary conversions | collisions and node splitting | agrees with a finite map |
| **Language server owner** `nymph-lsp/src/server.rs` | request tracker, diagnostic tracker, pending queue, submitted map, deferral batch, barriers, shutdown state | receive, schedule, supersede, evict, dispatch, drain, complete, cancel, shutdown, exit | completions race protocol messages; queues of finite capacity; duplicate and reused ids; document versions and generations that move while a worker computes | one answer per request; no answer or diagnostic for superseded input; no blocking on a full queue; shutdown answers everything |
| **Protocol inbox** `nymph-lsp/src/server.rs` (relay thread) | a channel to the owner, the flush flag of finite batches | relay, flush, finite batch | a batch must neither starve completions nor lose a message | every message is handled once, in order |
| **Analysis worker pool** `nymph-lsp/src/analysis_scheduler.rs` | per-worker queue, cancellation tokens, worker sessions rebuilt from snapshots | submit, run, synchronize, reconstruct, adopt, invalidate | jobs overtake each other; a panic or a cancellation in the middle of a synchronization | a worker's session equals a session rebuilt from the job's snapshot |
| **Documents and compiler state** `document_store.rs`, `compiler_state.rs`, `diagnostics.rs` | open documents with versions and generations, overlays over files on disk, projects, the set of published diagnostics | open, change, close, save, watched files, configuration, collect and clear diagnostics | an overlay closed while a watcher event is under way; two URIs for one file | the compiler sees the overlay if and only if a document is open; stale diagnostics are cleared |
| **Language queries** `hover.rs`, `references.rs`, `rename.rs`, `semantic_tokens.rs`, `line_index.rs` and others | none | pure functions of a session | position arithmetic in UTF-16 | pure |
| **Compiler session** `nymph-compiler/src/project/session.rs` | package registry, tombstones, aliases, versions, the Salsa database | set, remove, alias, rebuild, profile, lints | registry and database are two copies of one state; identities must survive a removal | every query sees exactly the registry's sources |
| **Incremental queries** `project/queries.rs` | Salsa memo tables | parse, resolve, check, lower, emit, with parallel prewarming | recomputation, cancellation by a panic | from-scratch consistency (Salsa's promise, external) |
| **Link plan, assembly, emission, bundle** `project/*.rs` | none (functions) | order modules, select reachable items, assemble | initialization order with cycles | dependencies first, deterministic |
| **REPL** `nymph-compiler/src/project/repl.rs` | committed declarations and bindings, a staged entry | stage, check, commit, roll back | an entry that fails after it was staged | a failed entry leaves no trace |
| **Semantic analysis** `nymph-sema`: range analysis `range_analysis.rs` | a scope stack of believed values, pair bounds, the proofs recorded | eval, block, refine, classify, record, audit | what a branch learnt outlives it; names shadowed or reassigned; the ends of the integer range | an omitted check never fails, a compile error is never wrong |
| **Semantic analysis**: exhaustiveness `exhaustive.rs` | the matrix of the unguarded arms, or the intervals covered | usefulness, interval sweep, catch-all | it reads patterns by its own rules, beside those of inference and emission | an accepted match misses no value, a refusal names a missing one, unreachable arms are dead |
| **Semantic analysis**: the rest | per-query inference state | infer, unify, solve, effects, stable lowering | recursive algorithms over types | soundness of each algorithm |
| **Syntax, AST, HIR** `nymph-syntax`, `nymph-ast`, `nymph-hir` | none | lex, parse, lower | error recovery | pure |
| **Formatter** `nymph-format` | none | layout | comments | idempotence |
| **Diagnostics and edits** `nymph-diagnostics`, `nymph-errorcode` | none | render, apply edits atomically | overlapping edits | all edits or none |
| **CLI** `nymph-cli` | the panic hook of `compile_guard.rs`, child processes of `run` and `repl` | run, build, check, new, repl, doc, format | signals that race the child's end | a signal reaches the child, a second one stops it |
| **Project files** `nymph-project` | none | manifests and discovery | paths | pure |
| **WASM playground** `nymph-wasm`, **editor extension** `extension/`, **standard library** `stdlib/` | none of their own | thin wrappers | none | not modelled |

### How the parts interact

A client message reaches the owner thread through the protocol inbox. The owner
updates the document store and compiler state synchronously, takes a snapshot,
and schedules requests and diagnostics on the worker pool, which sends completed
jobs back over a channel. A worker synchronizes its own compiler session to the
job's snapshot and runs one query. The CLI and the REPL use a compiler session
directly. The compiler emits JavaScript that embeds the activation runtime and
the task runtime; `nymph run` starts it under Node and forwards signals, which
the launcher turns into `cancel()` of the root task.

## 2. Plan

Done:

1. `TaskRuntime` (with `TaskTree`, `TaskRuntimeRefinement` and
   `TaskRuntime_proofs`): the task runtime and its abstract promise.
2. `LspServer` (with `LspServer_proofs` and `FoldFacts`): the owner with its
   trackers, queues, workers and barriers.
3. `ProtocolInbox` (with `ProtocolInbox_proofs`): the relay thread and finite
   batches.
4. `ActivationRuntime` (with `ActivationCleanups_proofs` and
   `ActivationRuntime_proofs`) and, on top of it, `StateLoop`.
5. `WorkerSession` (with `WorkerSession_proofs`): worker sessions, the document
   store and the compiler state against job snapshots, with cancellation and
   errors half way.
6. `RangeAnalysis` (with `RangeAnalysis_proofs`): the analysis beside an execution
   of the program it analyses.
7. `MatchPatterns`: the exhaustiveness check beside the emitted match.

Next, in this order:

8. Proofs: the action properties of `LspServer`.
9. `select` over handles that have other owners.
10. `DiagnosticOwnership`: origins that claim and clear published targets.
11. `Repl`: stage and commit with the worker of the CLI; `CompilerSession`:
    registry against database inputs.
12. Pure algorithms: persistent map, link order.

## 3. The modules

### TaskRuntime, TaskTree, TaskRuntimeRefinement

`TaskRuntime` is `task_runtime.js` with the activation runtime reduced to
"a body runs until its next await or its end". An execution is a number given
when it is spawned. `phase` says where its async function is parked, `parent`
is `#children` of the spawner, `ctx` the context that adopted its handle,
`observed` the flag of the handle. Everything that happens in one uninterrupted
stretch of JavaScript is one action; every `await` and every `.then` is an
interleaving point, and promise reactions run in any order, which covers every
order the microtask queue can have. The generated body is free: it spawns into
its own or an inherited context, awaits a handle or a host operation, cancels a
handle, returns, or panics.

An execution of kind `race` is the recipe of `nymphTaskRace`, which runs outside
any activation: each of its `spawn` calls therefore runs the first segment of the
runner before it returns (phase `spawning`, `RaceSpawn`, and `Caller`, where
control goes when that segment ends), even when the race was cancelled before it
started. `RaceWait` reaches `nymphFirstSettlement`, `RaceWon` takes the lowest
`settlementSequence` (`before`: which runners of the race settled earlier) and
cancels the losers, `RaceAborted` is the abort that comes first, and `RaceJoined`
waits for every runner, which nothing interrupts. Then the race joins its context
as a block does. `select` waits for handles with the same
`nymphFirstSettlement`, and owns and cancels nothing; it is not modelled.
Nor is the handle that a task value keeps for all who drive it (`#defaultHandle`,
199 and 216): here a body drives only executions that it knows.

`TaskTree` is the promise in terms of a tree of executions only: who was `born`
of which `parent`, who was `asked` to stop and each `outcome`. An execution is
spawned by one that is pending; a set of executions is asked to stop only
together with the running children of each; an outcome is final, one that was
asked to stop produces nothing, one that fails has no pending child, and one that
is cancelled was asked to or saw another that was. `TaskRuntimeRefinement` maps
`asked` to the fired AbortSignals and `outcome` to what `#drive` resolves the
promise with.

### LspServer, MCLspServer

The owner thread of `server.rs` with the worker threads of
`analysis_scheduler.rs`. The owner's loop is split where it can block or be
overtaken: dispatch of pending work, waiting for an event, the messages of a
batch, the tail of a batch where deferred completions are applied, joining. Each
message kind is one action that makes every call of its handler: retiring a
reused id, superseding, reserving room by consuming completions, evicting,
enqueueing. A worker takes a job, computes, and sends its completion in separate
steps. A document is its revision; a job carries the revisions of the snapshot
it was scheduled with, and a completion is judged by them. That a worker answers
from its job's snapshot is taken for granted here and shown by `WorkerSession`.

`OutstandingCap` is the number of workers times one running and `QueueCap`
queued jobs, plus `PendingCap`: the code's `WORKER_COUNT +
WORK_QUEUE_CAPACITY + OWNER_PENDING_CAPACITY`.

Not modelled: which origin owns a published target (lines 847-935) and re-keying
when a manifest changes (1705-); errors of the client's output, which end the
loop.

### ProtocolInbox

The relay thread of `server.rs:1019-1122` and the owner's side of it. Messages
are numbered in the order the client writes them. Every channel operation is a
step, including each arm of the two `select`s; the bounded queue is a sequence
of at most `QueueCap`. The relay ends in two steps, dropping its end of the queue
and then that of the flush channel, and the owner may look between them. `eof`
is the owner's knowledge that the queue has ended; when it sees the end of the
flush channel first, it handles the batch it has and finds out later.

### ActivationRuntime

`activation_runtime.js`: the frames of an activation are a sequence of frames,
a frame a sequence of cleanup scopes, a scope a sequence of numbered cleanups,
of which any may throw. One drive's operations are actions; what JavaScript does
without leaving the driver (unwinding a frame, a whole state transition) is one
action, because nothing can come between. `log` is a history of the cleanups
that ran and why. A defect of an activation that belongs to a task is pending
until the task runtime has joined the task's children; then `FinalizeDefect`
unwinds it. A suspension resumed while another drive is under way is used up and
lost: that is what the code does, and the properties say nothing of it.

The pairs given to a state transition are what the compiler emits: all that the
innermost scope holds, each with a cleanup of the header. The error for a
cleanup that is not active is therefore unreachable and not modelled.

### StateLoop

What `emit.rs` makes of a state loop with managed bindings, on top of
`ActivationRuntime`: each step is one operation of the runtime and the stores
around it. A resource is the number of the registration it was acquired for, so
that the cleanup registered for resource 3 should close resource 3.

### WorkerSession, MCWorkerSession

One worker of `analysis_scheduler.rs` (lines 94-330), with the part of
`document_store.rs` and `compiler_state.rs` its session consists of. The owner
opens, changes and closes documents, is told of files that changed, and sends
jobs with a snapshot of its store; the world writes files and the manifest and
tells the owner later or never. A document store and a compiler state are
records, and their operations (`Opened`, `OpenOrChange`, `RefreshSource`,
`Close`, `SynchronizeFiles`, ...) operators from one record to the next, used by
the actions that call them. A job synchronizes document by document
(`SynchronizeOne`), may give up at every checkpoint (`GiveUp`: cancelled, failed
or panicked), adopts the snapshot and works. Several URIs may spell one file. A
text is where it comes from: the revision of an open document or the number of a
write to disk.

Abstracted: untitled documents, more than one project, renames, diagnostic
targets and symbols (functions of the session), `refresh_manifest` (the server
never calls it).

### RangeAnalysis, MCRangeAnalysis

`range_analysis.rs` with the arithmetic of the runtime. A behaviour unfolds a
program construct by construct: each action is one construct of a function body,
the analyzer's state before it becomes the state after it, and one execution of
the same program on some arguments goes along. `known` is the scope stack
flattened, with what each open branch or block will restore in `frames`; `pairs`
are the bounds between symbols. `proof` is the last decision, its audit by
`runtime.rs`, and what the operation did in the execution. Integers have a small
`Width`, and `Fit` is the check against their ends; the ends of an interval have
twice that width, as the `i128` of the code has twice that of an `i64`, and
saturate, wrap or lose bits where the code's do (`Saturated`, `Wrapped`,
`ShiftLeft`). `confused` is raised where the analysis is known to believe or to
decide something false (section 6), so that the properties say what it gets
right: for `%`, `<<` and `>>` with the operands `Miscomputed` names, for the
negation of the least interval end, for binders without a scope, and for a
quotient refused by the range of `int`.

What a program is made of is assumed by name (`TypesAssumption`,
`ProgramsAssumption`), because the constants hold expressions: operands are
literals of the integer types, names, and, in conditions, lengths of lists.

A `for` is over `a .. b` or `a ..= b`, a slice has one end or two (`OneEnd`,
`TwoEnds`), of which the runtime judges each by itself.

Left out: operators between integers of different types, slices of strings, bitwise
complement, conditions with `||`, lengths of strings and tuples, host indices, and
longer expressions than one operator, which `let` builds.

### MatchPatterns, MCMatchPatterns

`exhaustive.rs`: Maranget's usefulness over a matrix of rows, the interval sweep
for `int` and `uint`, the catch-all rule for the rest. Each arm is a step, and so
is the end of the arms. Types, constructors and fields are data (`TypeOf`), a
pattern is a record, a row a sequence of patterns, the matrix a set of rows: order
does not matter to usefulness. Beside it stand `Matches`, what a pattern matches
by inference, lowering and the emitted tests, and `Selected`, the arm the emitted
code runs: the last arm, when it has no guard, is emitted without its test and
relies on the check. Arms are well typed; groupings are their inside.

Left out: views of embedded enums, whose constructors come from other enums, and
a scrutinee of unknown type, which is not judged. Strings stand for every type
that wants a catch-all; one string is in no pattern, so that no finite number of
literals covers the type. Of the others of these types only what strings show is
checked: that a list pattern with nothing but a rest takes every list, or that
ranges of characters could tile theirs, is not modelled, and the rule refuses both.

## 4. The runs

| run | instance | shows |
|---|---|---|
| `task_safety` | 4 executions, one await each, one fault | failing executions join what they spawned before they close and settle; cancellation descends and has a cause; no defect is lost silently; siblings of a panic are cancelled; no circular wait; a race returns the outcome of the runner that settled first, after every loser settled, and drops no loser's panic |
| `task_live` | 3 executions, 2 awaits each, 2 faults | the root and every handle settle; the runtime implements `TaskTree` |
| `lsp_requests` | 1 document, 2 ids, every kind of message, 4 messages, all capacities 1 | one answer per request, every debt tracked, no worker blocked on the completion channel, barriers, shutdown, results after their batch |
| `lsp_documents` | 2 files of a project and a loose one, 2 workers, 4 messages | nothing computed from superseded text is sent; a refresh is only lost for a cause |
| `lsp_live` | 1 document, 2 ids, 3 messages | every request and barrier is answered, exit joins the workers |
| `inbox` | a queue of 1, a transport of 2, 7 messages, a client that may leave | no loss or reordering, finite batches that close, one count per flush, the relay is joined |
| `activation` | 2 frames, 3 scopes, 4 cleanups of which any throws; a second drive under way | every registration closes once, in reverse order; defects are kept; transitions are all or nothing |
| `worker_session` | 2 files, one with two spellings, 4 document revisions, 1 change on disk, 1 request, 2 waiting jobs | a worker answers from the text of its job's snapshot, however often synchronization gave up half way and also when a later job came first, its session sees what a session rebuilt from the snapshot would, and of two spellings of a file the one updated last in the snapshot speaks |
| `ranges` | 5 variables, 3-bit integers in intervals of 6 bits, every operator, programs of the constructs in `MCShapes` | a check that is omitted would not fail, a refused operation cannot succeed, and what is believed of every variable is true, unless the analysis was confused |
| `patterns` | 11 types, up to 3 arms, guarded or not, 4 to 9 patterns per type | an accepted match runs an arm that matches, a refusal names a missing value, exactly dead arms are reported (of an integer or a string no arm is called dead that is not), but for the misreadings the properties name |
| `state_loop`, `patterns_nested` | as above | the findings of section 6 |

Why the bounds are enough. Four executions make a spawner, its child, a
grandchild and a sibling, which is every relation the runtime looks at, or a race
with two runners (`main` may return the race itself) or with one that spawns; one
fault with one await each places a panic or a failing close at every point of
another's await. Capacities of one make every queue full with two messages, and
four messages are enough to reuse an id, edit under it and shut down; capacities
only enter comparisons with counts. Seven messages make an inbox batch exceed its
bound if the flush were not limited. In `worker_session` four revisions open two
spellings and edit or close one between two jobs, and one change on disk falls
before, between or after them. Three-bit integers have both
ends of the range within reach of one operation and both ends of an interval within
reach of two, and every proof of the analysis is about one operation under a few
facts (658086 states, and the theorems hold for every width). Three arms over types
of depth two are the least that let two arms cover what neither does alone and a
third be dead; a line of four integers has both ends, a gap and touching intervals.
Four cleanups are two old and two new ones in one transition. Deadlock is checked in the runs of the task
runtime, the inbox and the server; in the others a program, an activation or a
worker's jobs end and nothing is left to do.

In `activation` the second drive is explored up to its end and beside a first
activation that has made at most two registrations (`Focus`): it is there for
what the host does to the first one meanwhile.

In `worker_session` two jobs wait at once only up to the third revision and before
the references request (`Focus`), which is enough for two spellings to be open and
one of them edited while the later job is taken first; one waits after that.
Without the comparison of revisions (`analysis_scheduler.rs:169`) `LastUpdateSpeaks`
fails, and neither of the other two: going back step by step finds the right
documents and texts, but not which of two spellings was updated last.

`lsp_requests` and `lsp_documents` have a client that never reuses an id it
still waits for in a request that the server refuses before scheduling
(`StrictClient`): without it `NeverAnsweredTwice` fails (section 6). It may reuse
ids in every other way.

## 5. Fairness

- `TaskRuntime`: the event loop runs every queued reaction, and a body reaches
  its next await or its end (`EventLoop`); a host operation completes
  (`FairHost`). The last one is an assumption about programs, not about the
  runtime: an operation that never completes and ignores its signal holds up its
  task by design, and also a cancelled block that joins it
  (`task_runtime.js:309`).
- `LspServer`: weak fairness of the owner's loop as a whole and of each worker
  thread: threads are scheduled, an analysis ends. Nothing is assumed of the
  client, and no single arm of a select is favoured.
- `ProtocolInbox`: the same for the relay and the owner.

## 6. Where the code and its documents disagree

Two are kept as runs that TLC must find violated:

- `state_loop`: the cleanup of a replacement reads a temporary that the next
  pass of the same `continue` overwrites: from the second replacement on, the
  new resource is closed instead of the old one (`async-model.md:216,220`). With
  `continue` taken once, as in the repository's test, it cannot be seen.
- `patterns_nested`: a bare variant name as the sole field of a variant pattern
  (`Some(Red)`) is matched as that variant by inference and emission and read as
  `_` by the exhaustiveness check (`exhaustive.rs:643-659`). A match of `None` and
  `Some(Red)` is accepted and runs its second arm for `Some(Green)`; a following
  `Some(Green)` is called unreachable (`exhaustive.rs:8`, `infer_pattern.rs:576`).

Others were met on the way and no run keeps them:

- `exhaustive.rs:706,709`: an exclusive `int` range that ends before the least
  `int` is empty, but the saturating subtraction makes it cover that `int`; the
  `uint` twin uses `checked_sub`. The bare name of a variant with fields is a
  binding for inference and that variant for the check (a false refusal). Inside
  another pattern a range or a string is one opaque constructor: nested ranges
  that tile the line are refused, a second nested string is called unreachable.
  `is_irrefutable` (821-828), by which a type that wants a catch-all is judged,
  does not look into alternatives: a match of a string whose arm is `"a" | _` is
  refused though it misses nothing, while `int_cover` and `uint_cover` (682-692,
  755-765) take the same alternative for a catch-all (a false refusal).
  `RunsAMatchingArm`, `RefusalNamesMissing` and `UnreachableIsDead` name each of
  these in their premises, and leave out nothing else.
- `range_analysis.rs:328`: binders of closures, matches and destructurings, of
  `for` over a range without exact ends and of state loops get no scope, so that
  an identifier bound there reads the range of the variable it shadows: after
  `let i = 2`, `i as uint` in a closure with a parameter `i` loses its check
  (`language-identity.md:637`). A `let` that shadows a name keeps the pair bounds
  and aliases keyed by it. The interval of `x % n` is wrong when the divisor is
  exact (`10 / (3 % 3)` is proven safe), shifts by an unknown count are refused
  that could succeed, and any method called `length` is taken to return an index.
  `confused` is raised by each of these.
- `range_analysis.rs:754-758`: `saturating_shift_left` relies on `checked_shl`,
  which looks at the count and not at the bits. No `let` clips an interval to its
  type, so after `let a = i * i` of an unknown `int`, `a << 1` loses bits and is
  refused, and after `let a = u * u` of a `uint` it is proven safe though it can
  overflow. Lines 213-220 negate the least `i128`, which the product of three unknown
  `int`s saturates to: a build that checks for overflow panics, another one makes an
  empty interval. `confused` is raised by both.
- `range_analysis.rs:383,734,805-811`: the quotient of a division is a `float`,
  for which the target falls back to the range of `int` while the interval is
  still that of the dividend. A `uint` known to exceed the greatest `int`, divided
  by a value known not to be zero, is refused as an integer division by zero
  (`confused`).
- Conditions that contradict each other leave an empty interval in code that is
  never reached. `1 >> n` under `n >= 5 && n < 0` shifts an `i128` by a negative
  count (748), a panic where overflow is checked. Of a shift by such a count
  `classify_operation` (798-803) says safe and the audit (`runtime.rs:148-152`)
  invalid, for they test the two ends in opposite order; the check is kept.
  `SafeIsAuditable` therefore leaves out operands with an empty interval
  (`vacuous`): the attempt to prove it without did not go through.
- `task_runtime.js:152`: cancellation stops at a settled child, so that a
  grandchild whose spawner has settled is neither cancelled nor joined before
  the cancelling execution closes its resources (`async-model.md:150`).
- `task_runtime.js:311`: a cancelled block drops the unobserved panic of a
  grandchild in its context (`async-model.md:156,160`).
- `server.rs:1315,1333`: a request refused before scheduling does not retire the
  live request of the same id, which then is answered twice (comment at 374).
- `server.rs:491`: an edit of one file supersedes the refresh of another file of
  the project without covering it (`diagnostics.rs:6`); supersession is therefore
  one of the causes `DiagnosticsOnlyLostForCause` allows a lost refresh, beside
  the limits, a failed job and shutdown.
- `compiler_state.rs:896-917`: with two spellings of a file open, a references
  request on the one updated first makes its text the module's, though the other
  was updated last (`document_store.rs:20-22`, `compiler_state.rs:894-895`); with
  three, closing one picks among the rest by the client's version numbers
  (667-695). A manifest that appears between two jobs before the watcher tells
  gives an open document the text on disk, and an edit of a broken manifest is
  not replayed.
- `task_runtime.js:104`: `join()` waits for the children present when it is
  called. A running child that spawns into the context it inherited afterwards
  escapes the block (`async-model.md:144`).
- `task_runtime.js:309`: see section 5 (`async-model.md:297`).
- `server.rs:1097-1100`: when the client disconnects during a flush, the end of
  the flush channel can be seen before queued messages and the batch closes
  without them, against the comment at 1079; they are handled afterwards. The
  property `BatchCapturesWhileOpen` is therefore stated for a connected client.

## 7. Proofs

Every theorem holds for all values of the constants. What is assumed of them is
named in the module that declares them, and TLC evaluates it on every run:
`BoundsAssumption` (`TaskRuntime`: numbers of executions, awaits and faults),
`InboxCapacities` (a queue of at least one, a transport), `Capacities` and
`Layout` (`LspServer`: at least one worker, queues of at least one, and a route and
a key for every document), `ActivationAssumption` (`ActivationRuntime`: bounds on
frames, scopes and registrations, and no activation called null),
`SpellingAssumption` (`WorkerSession`: every URI spells a file, a file's path makes
a URI that spells it, and URIs are ordered), `TypesAssumption`
and `ProgramsAssumption` (`RangeAnalysis`: names have one of four types, an
integer has at least two bits, a list is no longer than a `uint` can count, and
operands are what the syntax allows where the model uses them).

### Task runtime

`TaskRuntime_proofs` builds one invariant, part by part, each on the ones before,
and ends with the refinement of `TaskTree`. In each the step of the invariant is split by what a step does to the part in
question (`TreeSteps`, `OneSteps`, `NotifySteps`, `ParkSteps`, `WaitSteps`,
`KnowsSteps`), so that the 30 actions are gone through once per question.

- `TypeCorrect`: `Spec => []TypeOK`: the types, and that at most one body is
  inside a synchronous segment, also while a race starts its runners in its own.
- `FailingJoins`: `Spec => []JoinedBeforeFailing`. The invariant of settled
  executions is not inductive by itself. `JoinInv` adds `LineageKept` (a spawned
  execution is still in its spawner's `#children`, is in the join the spawner is
  parked in, or has settled), `LineageJoined` (a joining execution's `#children`
  is empty, for only a running body fills it) and `Fresh` (nothing exists before
  the root starts). `ClosesAfterJoin`: `Spec => CloseAfterJoin`, the action
  property, from the same invariant.
- `Descends`: `Spec => []CancellationDescends`. `TreeInv` gives the tree its shape:
  executions are numbered as they are spawned, the chain of spawners of each
  (`#ownerHandles`) is that of its spawner and the spawner, all older. `LeftAsked`
  says that what no descent through `#children` reaches any more had settled or
  was asked when it left, which closes the set of asked executions downwards
  through `Cancelled`, the code's recursion stated along the chain of spawners.
- `DefectStopsSiblings`, `DefectsSurface`, `RaceIsOwned`: `[]SiblingsCancelled`,
  `[]NoSilentDefect`, `[]RaceOwnsItsRunners`, from `SafetyInv`: an execution in a
  failing join has a cause, one that notified its context had a defect, a block
  that produces a value saw none in what it joined (`BlockJoined`), a race takes
  its winner among the runners that settled, and lets go of none before all have
  (`RaceWinner`).
- `RuntimeImplementsTree`: `Spec => ImplementsTaskTree`, the refinement. Each step
  under `SafetyInv` spawns one execution, asks a set of executions together with
  their running children, or settles one, or leaves what `TaskTree` shows alone.
  That the set asked is closed downwards is `CancelledCovers`, that the one which
  settles may do so is the safety invariant.
- `NoDeadlock`: `Spec => []NoCircularWait`. An execution depends on the handles it
  can name and on those spawned below it (`DependsOn`). No set of executions
  exists in which each depends on another of the set (`NoCircle`): a spawn adds
  one that nobody older depends on except through its spawner, and a handle that
  is passed on, by an awaited value or a race's winner, is passed by one that the
  receiver depended on already. Whoever waits waits for one it depends on.

### Protocol inbox

`ProtocolInbox_proofs` proves for every capacity and any number of messages
`TypeCorrect`, `BatchIsBounded`, `FlushAnsweredOnce` and `CapturesWhileOpen`,
from one inductive invariant: the types and five parts, `Counting` (what was
forwarded was consumed or is queued, and the relay holds a message exactly while
it sends one), `Ending` (the relay ends only when it was stopped or the client
closed), `Handshake` (where the one flush request, or its answer, is), `Room`
(how many messages the open batch can still take: `2 * QueueCap + 2` in all) and
`Captured` (what was accepted when the owner asked is held, forwarded or within
the count that answers). Room is what bounds a batch, Handshake is what makes
Room hold across the two threads.

`OrderIsKept`: `Spec => []NothingLostOrReordered`. What was handled, the open
batch, the queue, the message the relay holds and what it has not yet received
make one line, which is always the messages in the order they were sent: every
step moves an element across one of the seams of that line (`MoveOne`).

### Range analysis

The first part of `RangeAnalysis_proofs` is about integers: the interval computed for
an operator holds its result, or the result saturated to 128 bits
(`ArithmeticDescribes`), but for what `Miscomputed` names. The power is a
recursive function; that it is one at all, and that it stays between the powers
of the ends, goes by a least counterexample (`LeastNatural`), because induction
is out of reach. A saturated result is within the range of a type exactly when
the result is (`SaturatedIn`), since those ranges are well inside 128 bits.

The rest shows the soundness of the analysis:

- `TypeCorrect`: `Spec => []TypeOK`, of the analyzer's values and the execution's.
- `BeliefsHold`: `Spec => []BeliefsAreTrue`. Inductive is `RangeInv`: `Sound` here
  and in every open frame (`AllFramed`), unless confused. `Sound` says of a state
  of the analyzer that each value describes what the name is (`Knows`), that
  names bearing one symbol have one value (`Agree`), also through the symbol of a
  list's length, and that the pair bounds hold for all bearers of their symbols
  (`PairsHold`). `Rebind` is the lemma about `let`: to bind a name keeps all of
  it if the new value describes what is bound and its symbol, if it has one, is
  borne by its equals (`Placed`). Frames hold what is restored at the end of a
  branch, which is why it must be sound there for the execution as it was.
- `SafeChecksHold`, `RefusedFails`, `AuditsAgree`: `[]SafeUnlessConfused`,
  `[]InvalidNeverSucceeds`, `[]SafeIsAuditable`. One lemma for each construct that
  is judged (`ComputeVerdict`, `DivideVerdict`, `ConvertVerdict`, `IndexVerdict`,
  `SliceVerdict`) takes `RangeInv` in the state before and shows the verdict right
  of the execution and the audit agreeing with it. `SafeIsAuditable`, of two readers
  of one decision, is only proved; the runs check what a proof that passed its audit
  is worth.

### Language server

`LspServer_proofs` proves for any documents, workers, request ids and capacities:

- `TypeCorrect`: `Spec => []TypeOK`.
- `AnsweredOnce` and `DebtsTracked`: `[]NeverAnsweredTwice` and
  `[]EveryDebtIsTracked`, of a client that does not reuse an id it waits for in a
  request the server refuses before scheduling (`StrictClient`, which the runs
  assume too; without it the code does answer twice, section 6).
- `NeverBlocked`: `[]NoWorkerBlocks`.

All four follow from `ServerInv`, whose core is a predicate of the owner's record:
`Sound(o, r)`, where `r` is what the workers run. It has four parts. `Numbered`:
only jobs that were started are named, and nothing is newer than the store.
`Waiting`, `Finished`, `Queued` and `Executed`: a job is in one place, that is, it
waits, is in one queue, is run by one worker or has one result on the channel, and
all but those that wait are submitted. `Outstanding(o) <= OutstandingCap`. And
`Owes(o, {})`: requests and live request jobs are inverse to each other, an answer
is owed exactly where one of these or a barrier stands, barriers have ids of their
own, and none of this outlives a shutdown.

A handler runs several operators in a row, between which the record is not yet
what the invariant says: an id was asked about and nothing stands for it, or its
request was retired and not answered. `Owes(o, F)` therefore has the set `F` of
ids for which nothing stands. Each operator has one lemma that says how it moves
an id into or out of `F` and what it does to the number of outstanding jobs
(`AskFacts`, `ReplyFacts`, `RetireDuplicateFacts`, `EvictFacts`,
`ScheduleRequestFacts` and so on), and a handler leads from `Owes(o, {})` to
`Owes(o, {})`. That the channel never fills is counting: the results on it and the
job of a worker that ends are different submitted jobs (`RoomFacts`), and no more
than `OutstandingCap` are submitted, because every place a job can take is
reserved before (`ReserveFacts`) and a job that was cancelled keeps its place until
its result is read.

Retiring, dispatching, refreshing and applying results are folds over sequences.
The prover cannot instantiate a theorem whose parameter is an operator, and so
neither the library's induction nor its facts about folds. `FoldFacts` goes around
it: the operator of the fold is a constant of that module, `Step`, and each fold
has an instance of it with `Step` replaced. What `FoldLeft` computes is there
shown to be a function of the prefixes of the sequence, by a least prefix that
fails (`SomeTable`, `FoldSteps`), and what is true of the base and kept by each
step is true of the result (`FoldLeads`). Only one function is so computed
(`FoldUnique`), and where a step only adds to what was folded so far, to fold
`s \o t` is to fold `s` and then `t` behind it (`FoldConcat`).

### Activation runtime

`ActivationRuntime_proofs` proves, for any activations and any bounds on their
frames, scopes and registrations:

- `ActivationTypes`: `Spec => []TypeOK`.
- `CleanupsCloseOnce`: `Spec => []EveryCleanupClosesOnce`.
- `DefectsAreRetained`: `Spec => []NoDefectSwallowed`.
- `CleanupsCloseInReverse`: `Spec => ClosesInReverse`.
- `TransitionsAllOrNothing`: `Spec => TransitionIsAllOrNothing`.

`ActivationCleanups_proofs` holds the lemmas about sequences of cleanups that the
five rest on. Inductive is `IndInv`, which TLC checks as well: the types and, of every
activation, `Sound`. It has three parts. `Once`: the cleanups of the stack and
those of the log have numbers of their own, none is in both, and together they are
the numbers given out so far. Occurrences, which the property counts, are not
what a step moves; that they come to one follows at the end (`CountedOnce`).
`Retained`: what is thrown is what the activation keeps, and while it runs
nothing was thrown. `Shape`: where an activation stands says whether it still has
frames, which have at least one scope each; without it `Last` and `Front` of the
operations would mean nothing.

The operations act on a stack of stacks of sequences, the properties speak of all
of it in a row. `FlattenConcat` is what connects them: `FlattenSeq` of `s \o t` is
that of `s` followed by that of `t`, likewise `CleanupDefects` (`DefectsConcat`),
both from `FoldConcat`. So each operation cuts what is live into three sequences,
of which the middle one moves to the log in reverse (`Closing`, `OnceUnwound`).
How a drive ends is proved once for each way of ending (`ContinueStep`,
`ThrowStep`, `UnwindStep`) and used by the fifteen actions.

A state transition does not cut a sequence: it replaces members of the header by
members of the innermost scope. What makes that right is a fact about the pairs
the compiler emits (`PairFacts`): they name different header cleanups and
different new ones, and are as many as the new ones, so every new cleanup is in a
pair, because an injection into a finite set of the same size covers it. Hence the header
afterwards has what it had but for the replaced, and all that was acquired
(`InstalledFacts`), each once; and of a transition that fails, the header has what
it had but for the replaced (`KeptFacts`), while all that was acquired was closed.

The two action properties follow from the same invariant, step by step
(`OrderStep`). All steps but a transition run the end of what is live in reverse
(`UnwindsEnd`, `ClosingEnd`), and none of them runs a replaced cleanup. A
transition finds what is live in four parts (`Finds`: what is under the header,
the header, the body scopes, what it acquired) and runs the body in reverse, then
the replaced in reverse and, if it fails, what it acquired and what is left
(`TransitionOrderly`, `TransitionGoesOn`, `TransitionFails`). That is first stated
of which number stands before which (`Orderly`); as the numbers of the new log
are distinct, a number has one place in what was live and one in what ran, and
the property with its indices follows (`OrderlyCloses`).

### Worker sessions

`WorkerSession_proofs` proves, for any URIs, files, spellings and client versions,
any number of documents and jobs, and any order of edits, writes to disk, notices,
requests and failures:

- `WorkerTypes`: `Spec => []TypeOK`.
- `WorkerAnswersFromSnapshot`: `Spec => []AnswersFromSnapshot`.
- `ReconciledLikeRebuilt`: `Spec => []SessionMatchesRebuild`.

`IndInv`, which TLC found no counterexample to on the instance of `worker_session`
with three revisions and one waiting job, has beside the types three parts. `Snapshots`:
documents differ in their last update, so that a snapshot has an update order, and
no snapshot is later than the last notice. `Agreement`: the steps still to be done
make the session's documents those of the job (`Pending`), and a session that is
used again has the documents and the profile of its snapshot. `Fresh` says what a
session is worth if the server was told of every change of the manifest, and what
if it was told of every change:

- `Settled`: every name is what the manifest makes of the URI (`IdOf`), and every
  open document has an open spelling that speaks for its module (`Spoken`: it is
  the module's overlay, and the module's text is its text). A project is
  synchronized as soon as a document is open; under a broken manifest there are no
  names, and the open documents are those with an error.
- `FromDisk`: where the project is synchronized, a file that no open document
  spells is a module with the text on disk, or no module if there is none.

Neither speaks of how the session came about. A change on disk makes the
condition of `Fresh` false, and so does a notice, as the snapshot is then of an
earlier one; the next job can only make it true by a rebuild (`MustRebuild`), and
an empty session is both. Every operation keeps both (`OpenOrChangeIs`, `CloseIs`,
`RefreshIs`, `SearchIs`, `SurveyIs`): `Synchronize` in four steps, named, scanned,
claimed and replayed, of which the session is not settled in between
(`Unsettled`, `Readied`), `SynchronizeFiles` by what a scan does to each file
(`Scans`). What takes over when a spelling closes is only known to be one of those
left (`RemainingIs`), and that there is one is that of finitely many spellings one
has the highest version, and of these one the highest rank (`NewestIsOne`).

The second property compares two sessions. `RebuiltIs` folds the documents of the
snapshot, in update order, into a sound session; `SameSight` shows that two
sound sessions of the same documents and profile look the same, because `Settled`
and `FromDisk` leave open only what `Visible` does not show: modules of closed
projects, names of files that are not open, and which of several spellings speaks.
The folds are instances of `FoldFacts`. The order is a sorted enumeration of a
finite set, which exists because the number of elements not above an element is
an injection into as many places (`OrderExists`).

### What stays with TLC

- Liveness: `RootSettles`, `HandlesSettle`, `EveryRequestAnswered` and the like.
  The prover has no rule for fairness here, nor for `ENABLED`.
- The action properties of `LspServer` (`ResultIsCurrent`, `PublishedIsCurrent`,
  `BarrierWaitsForEarlier`, `NothingAfterShutdown`, `ResultsAfterBatch`,
  `DiagnosticsOnlyLostForCause`): they need the history of each operator that the
  lemmas above do not keep.
- `LastUpdateSpeaks` of `WorkerSession`: `Settled` leaves open which of several
  spellings speaks, and what the code promises of it needs the order of all updates
  since the session was built.
- `StateLoop`, of which no theorem is stated: its one property does not hold.
- `MatchPatterns` recurses over patterns and types with `RECURSIVE` operators,
  which the prover does not take; what usefulness computes for every matrix is an
  induction over data.

## 8. Not modelled

Inference, solving, effects and stable lowering (`nymph-sema`, but for the two
algorithms above), parsing, the formatter, rendering of diagnostics and the
language queries are pure functions over large syntax trees: a model would be a
transliteration. Memoization is Salsa's. The persistent map, the link plan, the
REPL, the compiler session, diagnostic ownership and select are in the plan. Files, manifests, child processes and the editor extension are I/O around
these parts.
