# Nervus in TLA+

This directory holds a TLA+ model of Nervus, TLC configurations that check it on
small instances, and proofs that TLAPS checks for all instances. The reference is
the code under `src/` (the repository's own `src/src`, `src/packages`, `src/apps`);
the architecture document is quoted where it states what the code should do.
Every module starts with the code it models; `PROJECT.json` maps every definition
to its lines.

## 1. The system

Nervus is a TypeScript kernel for agents: one process holds a Kernel, the Kernel
holds registries of plugins (models, Tools, Skills, context contributors, agents)
and the open Sessions, and a Session runs one Turn at a time against a model.
Everything is single-threaded JavaScript, so the interleavings are those of
promise continuations: code between two awaits is atomic, code across an await is
not.

| Component | State | Operations | Talks to |
|---|---|---|---|
| Semaphore (`kernel/semaphore.ts`) | `#active`, `#queue` | `acquire(signal)`, `release` | Sessions (active Turns), Models and Tools: one each, sized by the Kernel's options |
| LeasedRegistry (`kernel/leased-registry.ts`) | entries with `active`, `leases`, `drained` | `register`, `acquire`, `release`, disposer | every capability registry; Turns hold the leases |
| Session lane (`sessions/session.ts`) | `#turnTail`, `#appendTail`, `#activeTurn`, `#scheduledInputs`, `#stopping` | `send`, `resumePendingInputs`, `cancelActiveTurn`, `shutdown` | journal, Turn |
| Turn (`session.ts #execute`, `#executeTool`) | Step, attempts, ToolCalls, open calls | the Step loop, compaction, Tools, catch, repair | context, models, tools, authorizer, journal |
| Sessions module | map of open Sessions | `create`, `open` | journal, Kernel |
| Journals (`jsonl-journal.ts`; in memory, `MemorySessionJournal` in `journal.ts`) | a file per Session, `#tails` | `append(expectedRevision)`, `read`, `list` | file system |
| Models (`models/model.ts`) | registrations; one Semaphore for the calls of all Turns | `generate` (retries, backoff), `generateAttempt` (timeout, permit, stream) | adapters |
| Tools, authorization | registrations, authorizer | `execute`, `authorize` | authorizer, local effects |
| Supervised Mode (`packages/host`) | `turnApprovals`, `promptTail` | `authorize` | the operator |
| Agents, Skills, context | specs, leases, blocks, budgets | `resolve`, `hold`, `assemble`, `planCompaction` | registries, tokenizers |
| Kernel (`kernel/kernel.ts`) | `#state`, the root Fiber | `createKernel`, `createSession`, `openSession`, `createAgent`, `updateAgent`, `dispose` | Sessions, every plugin |
| Host (`packages/host`) | a plan; on disk `.host-assembly/` | `validateHostProfile`, `explainHost`, `planHost`, `assembleHost`, `recordSessionAssembly` | Profile, library, Kernel |
| Profile (`packages/profile`) | layers of documents | `mergePatch`, `resolveProfile`, `validateSchema` | files that somebody edits |
| Capability library (`packages/capability-library`) | manifests, digests | `planCapabilityLibrary`, `instantiateCapabilityPlan` | package files, the Kernel's plugins |
| CLI, coding agent (`src/cli`, `apps/coding-agent`) | the state directory, `workspace.json` | `validate`, `explain`, `chat`, `run`, `resume` | Host, Sessions |
| MCP (`mcp/mcp.ts`) | a remote catalogue | connect, register | Tools |

The hard behaviours, and the modules whose properties are about them:

- **Interleaved continuations.** A queued permit aborted while it is handed over
  (`Semaphore`); a plugin disposed and registered again under a Turn's lease
  (`LeasedRegistry`, `KernelLifecycle`); two calls that open one Session, and
  `dispose()` in the middle of either (`KernelLifecycle`); a resumption whose read
  is older than the Turns it schedules (`SessionLane`); prompts of parallel ToolCalls and parallel Turns
  (`SupervisedAuthorizer`); two objects on one journal file (`JsonlJournal`).
- **A late event against a timeout, a retry or an abort.** `ModelCalls`.
- **History compacted again and again across Turns, Steps and failures.** `ContextWindow`.
- **Crash and restart between any two appends.** `SessionLane` (Inputs and Turns),
  `TurnLoop` (calls and effects), `JsonlJournal` (bytes on disk).
- **One append failing and the rest going on.** `SessionLane`, `TurnLoop`,
  `JsonlJournal`.
- **Cancellation and shutdown at any await.** `SessionLane`, `TurnLoop`,
  `SupervisedAuthorizer`.
- **Processes that share a directory.** Files edited while they are read twice and
  hashed twice, two processes that claim one state directory, a directory that is
  checked by one plan and used by the next, a crash between resolution, reference and
  Session (`HostAssembly`).
- **Layers and graphs.** Null in a layer above or below another (`Profile`);
  cycles, bundles and shared dependencies (`CapabilityLibrary`).
- **Budgets shared by nested loops.** `TurnLoop` (attempts of responses, retries
  and compaction; Tools per Step and per Turn).

`PROJECT.json` lists each hazard at its line with the properties that cover it.

## 2. The modules

| Module | Models | Composes / implements |
|---|---|---|
| `BoundedPermits` | abstract: a set of holders of at most `Limit` permits | |
| `Semaphore` | `kernel/semaphore.ts` | implements `BoundedPermits` |
| `ModelCalls` | `models.generate`, `generateAttempt`: recording, permit, stream, timeout, retry | extends `Semaphore` |
| `LeasedRegistry` | `kernel/leased-registry.ts` and the guard of its callers | |
| `KernelLifecycle` | `kernel.ts`; `create` and `open` of `SessionsModule`; the leases of a Turn; plugins and Agents | extends `LeasedRegistry` |
| `SessionLane` | Input queue, Turn chain, append chain, cancel, shutdown, crash, open | the frame around `TurnLoop` |
| `TurnLoop` | one Turn from `turn/started` to its terminal event, recovery | the inside of `SessionLane`'s "working" |
| `ContextWindow` | `context.ts`: projection, blocks, dropping, compaction; `skills.contextBlocks` | what `TurnLoop` sees as `Assemble` |
| `SupervisedAuthorizer` | `createSupervisedToolAuthorizer`, `raceApproval` | what `TurnLoop` sees as `Authorize` |
| `AtomicJournal` | abstract: a history that grows by whole batches | |
| `JsonlJournal` | `jsonl-journal.ts` down to its file operations | implements `AtomicJournal` |
| `Profile` | `packages/profile`: merging and validating layers | |
| `CapabilityLibrary` | `packages/capability-library`: scan, `expand`, `visit` | |
| `HostAssembly` | `packages/host`, and the commands of the CLI and the coding agent, as processes that share a disk | extends `Profile` and `CapabilityLibrary` |
| `ModelCallsProofs`, `KernelLifecycleProofs`, `SessionLaneProofs`, `TurnLoopProofs`, `ContextWindowProofs`, `SupervisedAuthorizerProofs`, `JsonlJournalProofs`, `HostAssemblyProofs` | theorems | each extends its component; the first two also hold those of `Semaphore` and `LeasedRegistry` |

`MC*.tla` modules name the model values of the runs.

### How state and actions correspond to the code

**Semaphore.** `active` and `queue` are the private fields; `call[c]` is where
caller `c` is in `acquire` (idle, waiting, holding, released, rejected) and
`aborted[c]` its signal. `AcquireAborted`, `AcquireFree`, `AcquireQueued` are the
three ways through `acquire`; `AbortQueued` is the abort listener of a waiter,
`AbortElsewhere` an abort that finds none. `HandOff` and `GiveBack` are the two
branches of the release closure.

**ModelCalls.** `pc[c]` is the await at which `generate` of call `c` stands.
`text[c]` stands for everything received, as the list of the attempts it came
from. `stream[c]` is what the Adapter has done. `Delta`, `ResponseCompleted`,
`StreamFails`, `StreamDone` are events of the stream that win the race of
`raceWithAbort`; `Interrupted` is the timeout or the Turn's abort winning it, and
ends, like the `finally` block, with the release of the permit. Every caller is a
call of a different Turn.

**LeasedRegistry.** A registration is an object with identity; `entries` maps an id
to it or to `None`. `Register` carries the `contains` check that every caller makes
first (models, Tools, Skills, contributors). `Acquire` and `Release` count leases,
`Dispose` is the disposer up to `await drained` and `FinishDispose` what follows.

**KernelLifecycle.** A holder of the registry is a Session object with the id that
its Turn leases, so `Acquire` and `Release` are the registry's own actions. `at[o]`
is where object `o` stands: made, accepting an Input, in a block of its Turn, over.
A synchronous block of several leases (`holdContributors`, the capabilities,
`skills.hold` with its undoing, `finally`) is a series of steps during which nothing
else moves (`Busy`). `call[c]` is the await at which a `createSession` or
`openSession` stands, with what it has read; `opened` is the map of Sessions;
`rev[o]` is `#revision`, which every append expects (`Expected`). `phase` is the
Kernel's `#state`, split where `dispose()` waits: for the Sessions, then for the
root Fiber. `DisposeKernel` reaches only the Session that is in the map, as the
code does.

**SessionLane.** `#turnTail` is a chain of promises, one link per
`#scheduleInput`: the sequence `lane`. `previousTurn` of link k is link k-1.
`ops` is `#appendTail`: what was asked to be appended and has not settled. `Send`,
`Cancel`, `Shutdown` are public methods; `resumePendingInputs` is `ReadPending`, up
to the journal's answer, and `Resume`, which schedules what was read (`reading`)
and is not scheduled now. The ghost `outrun` holds the Inputs whose Turn
passed in between; `Refuse`, `Execute`,
`Finish`, `Throw`, `Settle` the continuations of one link; `Commit` and
`FailAppend` the two results of the oldest append together with what its caller
does next; `Crash` loses memory, `Open` is `SessionsModule.open`.

**TurnLoop.** `pc` names the await at which `#execute` stands. `log` is the durable
record. A step asks for a batch of events and says where it continues; `Commit`
makes it durable, `FailAppend` enters the catch block. `Assemble` is
`context.assemble` with its three outcomes (fits, must be compacted, throws);
`StartAttempt`, `AttemptFails`, `Retry`, `CallFails` are the loop of
`models.generate`; `tools[i]` is the progress of the i-th call of the Step in
`#executeTool`; `Recover` is the repair in `open`.

**ContextWindow.** `events` is the journal as `projectHistory` reads it.
`Assemble` makes the blocks in `compareBlocks` order; `Shed` is one iteration of
the loop that truncates or drops a block, first by the sum of estimates
(`counted = FALSE`), then, after `BuildRequest`, by the Adapter's `countTokens`,
which differs from the estimate by at most `Skew`. `PlanCompaction` is
`planCompaction`, `Compacted` a compaction's answer. A text is its number of
tokens; `holds` is a ghost: the recorded messages a block's content stands for.

**SupervisedAuthorizer.** `calls` are the calls of `authorize` in order, which is
the order of `promptTail`; `approvals` maps a Turn to its remembered set, an
object with identity (an index into `sets`), because the code reads the set before
the prompt and writes to it, or replaces it, afterwards.

**JsonlJournal.** One record per `JsonlSessionJournal` object: its `#tails` queue
and the phase of the append in progress (`CheckRevision`, `WriteTemporary`,
`Rename`; `IoError` may end each). `file` is the content of the Session's file. `Crash` loses the
objects and keeps the files.

**Profile, CapabilityLibrary.** Operators. `MergePatch` is `mergePatch` on documents
of two levels, `Composed` the order of `resolveProfile`; `LastWord` is the reference:
the last layer that speaks of a field decides it. `Expanded` and `Visited` are the
two depth-first walks with their errors, `PlanLibrary` the scan before them;
`Needed`, `Loadable` and `IsLoadOrder` say what a load order is without walking.

**HostAssembly.** A situation is the Profile's files, the edits to come, the packages
and the command lines; `proc[p]` is one process, from its files to its Turn.
`ReadSource` reads one file; `Validated` and `Resolved` are the two passes of
`planHost` and their comparison; `HashPackage`, `CheckPackage` and `Import` are the
digest of the plan, the one before the import, and the import. `ReadMetadata`,
`Claim`, `WriteMetadata` are `ensureStateWorkspace`; `ReadReference`,
`StoreResolution`, `FillResolution`, `AppendReference` are `recordSessionAssembly`.
A file is created in one step and written in the next, and is "torn" in between.
`workspace.json`, references and histories are those of a state directory, which is that
of the process's present plan (`StateDirectory`: the Profile's, or the Host's default, or
none, when the journal is in memory and ends with the process). `nervus-code` makes two
plans: `ReadMetadata`, `Claim` and `WriteMetadata` use the directory of the first, and
from `Claimed` on the process plans anew and goes on with the directory of the second.
`claimed` remembers the first for the properties; the code keeps nothing of it.

### Abstractions

Message contents, ids, timestamps and wording are left out; an event is its type
and the Turn, Step and call it names. A provider, a Tool, a compactor and a
contributor are the set of their outcomes. Token counts are abstracted in
`TurnLoop` to "fits, or must be compacted, or fails"; `ContextWindow` has them. A Session's memory is
exactly what the object's fields hold.

## 3. The runs

| Run (cfg) | Distinct states | Properties | What it shows |
|---|---|---|---|
| `model_calls` (`MCModelCalls`) | 160,419 | PermitAccounting, PermitsAreStreams, WholeAnswers, NoOvertaking, ImplementsPermits, CancelledNotAnswered, CallsSettle | Permits are neither lost nor minted when an abort races a hand-over, nobody is overtaken, and no permit survives its attempt; an answer is the whole stream of one attempt; a cancelled call is not answered; every call settles although Adapters may hang |
| `context_window` (`MCContextWindow`) | 262,430 | WholeHistory, WholeTurns, RequestFits | A model is called with the whole history, once, in the request or in its summary; the count that was checked is of the request that is sent |
| `kernel` (`MCKernelLifecycle`) | 401,569 | LeasedIsCurrent, DisposedHoldsNothing, ContributorsRecorded, OneWriterAtATime, CancellationRecorded, DisposalDrains, DisposeEnds | Plugins that go and come never change a capability under a lease, and every lease is returned; a history has one writer at a time however many objects concurrent calls make; `dispose()` ends, after the cancellation is recorded |
| `session_lane` (`MCSessionLane`) | 612,585 | FifoTurns, TurnsSequential, ConsumedOnce, PendingNotForgotten, InputsSettle, ShutdownEnds | Sends, resumptions, cancellation, shutdown, a crash and a failed append in every order: see below |
| `turn_loop` (`MCTurnLoop`) | 412,484 | CallsClosedUnlessFailed, TurnEndsOnce, LimitsRespected, ResultsBeforeNextStep, EffectsRecorded, TurnTerminates, CancelTerminates | Two Turns with a crash, repair, a failed append and cancellation between any two steps: every call and Turn is closed exactly once; TurnLimits bound compaction, retries and responses together; results precede the next Step, in order; effects are recorded first; a cancelled Turn ends whatever it waits for |
| `supervised` (`MCSupervisedAuthorizer`) | 45,860 | AllowedByOperator, QueueAdvances | Nothing runs without the operator's word for it; an aborted Turn does not block the prompts behind it |
| `jsonl_journal` (`MCJsonlJournal`) | 367,042 | ReadYourWrites, ImplementsAtomic, AppendsSettle | The file operations of one journal object implement an atomic append, across I/O errors and a crash; a read sees every append acknowledged before it began, and those under way then that succeed |
| `host` (`MCHostAssembly`) | 380,420 | ProfileIsSnapshot, LoadOrderSound, RunsWhatItRecorded, OneWorkspace, TurnsAttributed | If no provides conflict, a plan is refused exactly when there is no load order; a Profile edited while it is read is one that was there; what is imported is what was recorded; those that work in a state directory have one workspace, unless an edit of the Profile sent a process to a directory that it did not check; a Turn has a recorded resolution and the Agent of its Session |
| `session_lane_failed_append` (`MCSessionLaneFailure`) | violation | OneActiveTurn | Finding 1 |
| `turn_loop_failed_append` (`MCTurnLoopFailure`) | violation | CallsClosed | Finding 2 |
| `supervised_concurrent` (`MCSupervisedConcurrent`) | violation | AllowTurnRemembered | Finding 3 |
| `kernel_concurrent_open` (`MCKernelConcurrentOpen`) | violation | OneTurnInHistory | Finding 4 |

In `session_lane` the promises settle and shutdown returns, and an Input starts
one Turn at most, also when an append fails, except by a resumption whose read is
outlived by a whole Turn (observation D). The remaining properties have the
hypothesis `failures = 0`: after a failed append they do not hold, which is
finding 1. `CallsClosedUnlessFailed` and `TurnEndsOnce` of `turn_loop` have the same
hypothesis, because of finding 2: a call that stayed open is still closed by a later
repair, after the end of its Turn. The other properties of `turn_loop` hold with a
failed append too.

The semaphore is checked inside `model_calls` and the registry inside `kernel`, where
the code uses them. What these do not do, a release that is repeated, is covered by
the proofs about the modules themselves.

`PROJECT.json` lists for every property a mutant: a plausible mistake in the code
with which TLC finds the property violated under the same cfg. The mutants stand
beside the definitions they change, with a comment that says so.

### Bounds, and why they are enough

- `model_calls`: three calls, one permit, so that two wait; two attempts, so that
  one can fail and be retried; one delta per attempt, enough to tell the attempt
  it came from. Delays are {0, 1} because `baseDelayMs` may be 0, in which case
  the code does not wait at all.
- `context_window`: the window (8) holds the fixed blocks and about two messages,
  and a Turn of two Steps makes up to three, so priors are dropped from the second Turn on;
  summaries of size 1 and 3 make a summary that fits and one that must itself be
  summarized. Two passes per Step where the code has four, so that the limit is
  reached. Three Turns are the least in which a compaction is compacted.
- `kernel`: two calls and two Session objects of one Turn each, the least that can
  meet on one history; a model, two Skills (so that `hold` can fail on the second
  and undo the first), a contributor, and a second registration for one of the
  Skills; only the contributor and that Skill are removed before `dispose()`,
  which removes everything. No `updateAgent`: it is `createAgent` once more.
- `session_lane`: two Inputs, three links of the chain, one crash, one failure, one
  resumption at a time. The chain is local: a link looks at its predecessor, so
  three links have a first, a middle and a last, the third being an Input that is
  resumed. In `session_lane_failed_append` three Inputs: the first runs, the second
  fails, the third overtakes.
- `turn_loop`: two Turns, because recovery and the history distinguish the latest
  Turn from earlier ones. The first has two Steps, two attempts, two ToolCalls in a
  Step and three in all, so every limit is both reached and shared; the second has
  the smallest limits (an update of the Agent between them). One compaction pass, a
  crash, a failed append.
- `supervised`: two Turns, Steps of at most two calls, three calls, one Tool that
  is allowed at once and two that ask. An approval can be used by the same Turn,
  withheld from the other Turn, and overtaken by a sibling.
- `host`: every library of three packages (each absent, a plugin or a bundle of up to
  two others) is planned by one process; every stack of a file, its parent, an
  overlay and command-line values, each silent, null or valued; a file, alone or
  with a parent, that deletes a whole section; the commands
  `validate` and `chat` under three series of edits of files and code; three
  processes on one state directory, one of which may crash, also such that two of
  them store one resolution for two Sessions; and two processes, of one workspace or of
  two, of which one or both read a Profile whose state directory is edited, to or from one
  that is named, the default, or a journal in memory, while the other may be told one
  of the directories by its command line. The first three are
  inputs of pure algorithms, which have no interleavings; the fourth has one reader,
  because readers do not disturb each other; the fifth has three so that one can come
  after the race of two; the last needs two, because `OneWorkspace` compares two, and one
  edit, because a process plans twice. Nothing is edited back to what it was.
- `jsonl_journal`: three appends of one or two events at any expected revision up
  to 2, so some are conflicts; one reader, one crash. One object: see
  observation B.

`CHECK_DEADLOCK FALSE` stands because every run may end: all Inputs sent, all
requests answered, all Turns over, the Kernel disposed, the processes gone. That
nothing stops before its time is what the liveness properties say.

### Fairness, and why the code justifies it

A step under weak fairness is a continuation whose promise is settled, which the
event loop runs, or a timer, which fires.

- `ModelCalls`: recordings are answered (by the journal), timeouts fire, aborts are
  noticed, permits that were handed over are used. No fairness on `Receive`:
  nothing obliges an Adapter to deliver anything. The wait for a permit has no
  timeout, and ends because the calls before it end.
- `KernelLifecycle`: the journal answers, a Turn moves on from each of its awaits, an
  aborted Turn ends (`CancelTerminates` of `TurnLoop`), a resolved promise resumes
  its disposer, the Fiber goes on with its plugins. Nobody is obliged to call, send,
  add, remove or dispose; a Turn that nobody aborts may run for ever, which is the
  second alternative of `DisposeEnds`.
- `HostAssembly`: none; its properties are about what a process may do.
- `SessionLane`: links run when their predecessor has settled, appends settle, a
  Turn ends (what `TurnLoop` shows, given its assumptions) or gets its permit because
  Turns of other Sessions end; `InputsSettle` and `ShutdownEnds` are relative to
  that, and an authorizer that never answers a Turn nobody cancels voids the
  first. Nothing is assumed of
  the callers: no send, resumption, cancellation, crash or reopening is obliged.
- `TurnLoop`: the loop continues from every await that something ends by itself:
  appends, context assembly, model attempts (timeout), retry delays. A running
  Tool returns, times out or is aborted. An authorizer owes no answer, it may be a
  person; that is why `TurnTerminates` has its second alternative. Context
  contributors are assumed to answer: `context.ts` awaits `contribute()` without
  the Turn's signal, so a contributor that hangs holds the Turn.
- `SupervisedAuthorizer`: the chain of promises moves on; the operator owes nothing.
- `JsonlJournal`: file operations end, with a result or an error.

### Findings

1. `session_lane_failed_append`. `#scheduleInput` makes each Input's promise the
   next one's `previousTurn`. When the append of `input/accepted` fails, the async
   function throws at `await accepted`, before it awaits `previousTurn`. Its promise
   settles while an earlier Turn runs, and the Input behind it starts. TLC shows a
   Turn running, an Input whose acceptance fails, and a third Input whose Turn
   starts next to the first.
2. `turn_loop_failed_append`. When the append of a terminal event of a call fails,
   the catch block records `turn/failed` alone. The call has no terminal event, and
   `open()` repairs only a latest Turn that has none.
3. `supervised_concurrent`. Two calls of one Step both find no remembered set
   before their prompts. Each approval for the Turn makes a new set and the second
   replaces the first: the operator is asked again for a Tool already allowed.

4. `kernel_concurrent_open`. `open()` repairs an interrupted Turn and reads the
   history again; it takes the length of what it reads as the revision of the new
   Session without another look at the latest Turn. A second `open()` that read the
   repaired history may have started a Turn by then. The first object is made at the
   revision inside that Turn, its appends pass the revision check, and it starts a
   Turn in the middle of the other. `OneWriterAtATime`, which is proved, says how far
   this can go: the object that is overtaken writes nothing more.

Observations that no run states:

- A. A Turn that ends on its Tool limits, by cancellation or by failure keeps an
  assistant message with ToolCalls that have no ToolResult. The history of a later
  Turn contains it. `ResultsBeforeNextStep` is about one Turn, as the sentence in
  the architecture document is about the next Step.
- B. Two `JsonlSessionJournal` objects on one directory pass the revision check
  together and the later rename erases the other's batch. `JsonlJournal` takes the
  set of objects as a constant and shows it with two; the run has one, as a process
  has.
- C. `generateAttempt` takes the permit before its `try` block and calls
  `adapter.generate()` in between. The Adapters in the repository are async
  generators, whose call does not throw; one that did would keep the permit.
- D. `resumePendingInputs` filters what it read by what is scheduled now. An Input
  that was scheduled at the read and whose whole Turn has passed since is in
  neither and starts again (`session.ts:90`). `ConsumedOnce` excludes it by `outrun`, and so shows that
  it is the only way.
- E. The AgentSnapshot records the revisions of the capabilities at the time the spec
  was resolved, not those the Turn leases: `SnapshotIsUsed` of `KernelLifecycle` does
  not hold when a plugin was replaced since. `docs/ARCHITECTURE.md:112-117` can be
  read either way.
- F. A process that dies inside `writeFile` of `workspace.json` leaves a file that no
  later process accepts or replaces; a process that reads it before it is
  written fails too.
- G. The same for a resolution is hidden: `EEXIST` is ignored, so a torn file counts
  as recorded. Without a crash it can be torn for a while: of two processes that
  store the same resolution, the second refers to the file while the first still
  writes it. `TurnsAttributed` says that these are the only two ways.
- H. The reference is recorded before the Session is created. A crash in between
  binds the id to an Agent for a Session that was never created.
- I. A null by which a file deletes a value of its parent is gone before the chain
  meets the Host's defaults, and the default returns
  (`docs/plans/m15-profile-driven-host-assembly.md:94-106` speaks of one order of
  layers). The same happens to a section that a single file sets to null: the file
  says that it is deleted, and the Host's defaults come back as if it had said
  nothing. `ForgetsDeletion` names exactly these two cases in `ProfileIsSnapshot`.
- J. `nervus-code` explains and assembles with two plans. `ensureStateWorkspace` checks the
  directory of the first (`coding-agent/src/index.ts:120-124`); references, journal and
  Session use the directory of the second (`:125-126`), and nothing compares the two. If
  the Profile's `state.journal.directory` is edited in between, a process works in a
  directory whose `workspace.json` names another workspace, or that has none.
  `OneWorkspace` excepts exactly the processes to which this happened (`Redirected`);
  without the exception TLC shows two workspaces in one directory.
- K. The double read of the Profile does not notice a file that is edited and edited
  back; the digest check does not cover the time between it and the import (`raced`).

## 4. What is proved

TLAPS checks these for every value of the constants: any set of callers, ids,
registrations, Sessions, processes, ToolCalls; any number of Turns, crashes and
failures; any limit, budget and size. The assumptions are the named `ASSUME`s of the
modules: a limit is a positive natural number, `None` is none of the values it stands
for the absence of, bounds are natural numbers, a command line names a Session and a
workspace, the default state directories are directories (`DirectoryAssumption`). Two are about what `HostAssembly` is given: the Profile files are finitely many
and an edit writes a content that the file never had (`FilesAssumption`: with a content
that comes back the double read of a Profile is fooled, observation K), and a library has
a manifest, or nothing, for each of finitely many ids (`LibraryAssumption`). A hypothesis that is more than that is part of the theorem's statement.

Each component has an inductive invariant of its own, a conjunction of named parts.
The property alone is never inductive; what had to be added is what the paragraphs
below say.

**`ModelCallsProofs`, the semaphore.** `IInv` is `TypeOK`, `QueueIsWaiters`,
`PermitAccounting` and `NoIdlePermit`. `PermitAccounting` alone (active is the number
of holders, at most the limit) is not inductive: `HandOff` gives a permit to the head
of the queue without counting, which is right only if the head is a waiter and not a
holder, and if it is in the queue once (`QueueIsWaiters`). `NoIdlePermit` (a call waits
only while every permit is in use) is what makes the hand-over the only way to a
waiter. From `IInv`: `PermitsAccounted`, `PermitsNotIdle`, `Fifo` (a grant goes to the
head), and `Refinement`: every step of the semaphore is a step of `BoundedPermits` or a
stutter. `RemoveAtProps` is the lemma on sequences that the abort of a waiter rests on.

**`ModelCallsProofs`, the calls.** `CallsInv` puts on top of `IInv` where the permit of
an attempt is at each await of `generate` (`PermitPlace`) and what its local variables
hold there (`AnswerPlace`). A call that was refused its permit is not retried, and one
that is to be retried has released it; without this a second attempt could find the
permit of the first (`PermitsFollowStreams`). `AnswersAreWhole` needs that nothing
received survives its attempt. `AttemptsAccounted`, `AttemptsFifo` and `CallsRefinePermits` are the
semaphore's theorems for the steps of `ModelCalls`; `CancelledStaysUnanswered` is the
action property about an abort that meets a late answer.

**`KernelLifecycleProofs`, the registry.** `IInv` is `TypeOK`, `LeaseAccounting`,
`EntriesMatchDisposers` and `DrainedInv`. A lease protects its id only because a
registration with leases has an unfinished disposer, whose registration occupies
its id; the four parts say this. From it: `LeasesAccounted`, `LeaseProtects` (while
a lease is held its id resolves to the registration leased), `DisposalWaits`. The
number of leases is a cardinality, so the lemmas on `Release` and `Acquire` use the
facts on finite sets of the library.

**`KernelLifecycleProofs`, the Kernel.** From `KernelAssumption` (what belongs to what
among the constants). First, `KernelUsesRegistry`: every step of the Kernel is a step of
`LeasedRegistry` or leaves it alone, so the theorems above carry over
(`KernelLeasesAreCurrent`, `KernelDisposalDrains`). Then one inductive invariant per
property, each on top of `KernelTypes`:

- `DisposeFreesLeases`. The Fiber ends with every disposer returned
  (`DisposersReturned`, which stays true because nothing registers after `dispose()`);
  a lease always has a disposer that has not.
- `OneWriter`, from `WriterInv`: an object that has written stands at the end of what
  it wrote (`EndsWithOwn`), no revision and no read is ahead of the history
  (`RevisionsKnown`, `ReadsKnown`), the history is created once (`CreatedFirst`). An
  append expects the object's revision to be the length of the history; so if
  somebody else has written since, it fails, and for ever.
- `RecordsContributors`, from `HoldsInv`: what the Turn holds at each place
  (`HoldsMatchPlace`) and that the snapshot is of it. The property alone is not
  inductive: a Turn that begins must hold nothing yet.
- `CancellationFacts`, from `CancelInv`: an object that has started a Turn and is not
  inside one has recorded its end, or was overtaken (`Settled`), and the stopped
  Sessions remain quiet once `dispose()` has passed them.

**`SessionLaneProofs`.** `LaneInv` says what `#turnTail` and `#appendTail` mean together:
every append on the second is one that a link of the first awaits, one each
(`OpsAwaited`), nothing is under way without a Session object (`GoneIdle`), and only what
was sent is scheduled and recorded (`OnlySent`). On it stand `TurnsInOrder`, from
`InOrder` (a link runs when those before it have settled, and is then `#activeTurn`), and
three theorems with an invariant that relates the chain to the record.
`RecordIsSequential`: the record ends with the start of the Turn that is between its
start and its end, and with a closed Turn if there is none (`RecordFollows`).
`InputsRunOnce`: an Input is accepted once and before it is queued, and is on the chain
once (`AcceptedFirst`, `WaitingOnce`), whatever failed. `PendingIsRemembered`: a Turn
that has run has consumed its Input (`RunConsumes`). All but `InputsRunOnce` have the
hypothesis `failures = 0` inside the property. `OneTurnAtATime` is the complement to finding 1: if no append can fail
(`MaxFailures = 0`), two Turns never overlap.

**`TurnLoopProofs`.** An append that is awaited is neither in the record nor in vain, so
the invariants speak of the record as it will be when it settles (`Held`), and of the
place where `#execute` goes on then (`Where`); with these, an append and its settlement
are one case. `LoopInv` counts: attempts and ToolCalls against the limits, in the
loop, in compaction and in retries (`LimitsAreKept`). `RecordInv` says which results the
record has at each place (`StepsFollowResults`, `EffectsAreRecorded`). `TurnsEndOnce`
and `CallsAreClosed` are about the end of a Turn, and neither is inductive without the
calls that are open at each place of the loop (`CallsInv`): the catch block closes
exactly those, and after a crash so does the repair (`Repairs`), which reads them from
the record.

**`ContextWindowProofs`.** `ContextInv` is about the journal (Turns ascend, nothing of a
Turn follows its end, a summary holds exactly the messages up to the end of a Turn,
the open Turn has no end yet) and about a Step in progress: the blocks that are
selected, with those that were dropped for a compaction, cover the history from the
summary on, each message in one of them. It follows that a request without the latter
is refused or compacted, never sent (`HistoryIsWhole`); that a compaction of
compacted histories extends a summary and leaves no gap (`SummariesAreWholeTurns`); and
that the count is of what is sent (`RequestsFit`). No fact about sums of tokens is needed.

**`SupervisedAuthorizerProofs`.** `NothingRunsUnasked` rests on `SetsServeOneTurn`: the
approval sets are shared by reference, and each serves one Turn and holds only what the
operator allowed for that Turn. `PromptsOneByOne`, from `ChainInOrder`: no call passes
another on `promptTail`. `SingleCallsRemember` is
the complement to finding 3: with Steps of one ToolCall (`MaxBatch = 1`) an approval for
the Turn is never lost.

**`JsonlJournalProofs`.** `JournalIsAtomic`: for one object (`OneObject`), every file
operation of `append` is a step of `AtomicJournal` or a stutter. `ChainInv` says that the
appends of `#tails` are pending, each in one place, and that the one in progress is the
first; `FreshContents` that what it is about to rename is the present history and its
batch. For two objects the latter is false (observation B). `ReadsSeeWrites` has the
same hypothesis, and covers what was acknowledged when the read was called (`past`) as
well as what was pending in its object (`awaits`): the first was in the file then and
stays there (`AcknowledgedStays`), and a read is done when the second have settled
(`ReadersAwait`).

**`HostAssemblyProofs`, the files.** Argued from when files are read and written, not from
what is in them. `WorkspaceInv`: the process that created a directory's `workspace.json` is
alone with it until it has a content, and who goes on to its second plan has read its own
workspace in the directory that it claimed. `ImportInv`: between its check and its import a package has the
planned digest, or was edited there (`ImportsWhatWasPlanned`). `AttributionInv`: what a
process has written by the time it is at each place (`WrittenBy`), and that a torn
resolution is being filled unless somebody crashed (`EventsHaveAssemblies`).

**`HostAssemblyProofs`, the state directory** (`StateHasOneWorkspace`). `WorkspaceInv` is
about the directory that was claimed, the property about the one that is used. That they
are the same without an edit is a fact about the Profile, whose files were read four times:
by `SnapshotInv` (below) each plan has the Profile of one moment since its start
(`PlanFacts`), there is one chain through the files of a moment (`OneChain`), hence one
Profile (`OneProfile`) and one directory. `ClaimFacts` keeps this of the first plan while the
second is made. If nothing was edited since the first began, both moments have the files
of now (`WorksWhereClaimed`); otherwise a directory that differs is `Redirected`.

**`HostAssemblyProofs`, the Profile** (`ProfilesAreSnapshots`). Two things are to be
shown. In time: the property speaks of a process that has read everything twice, and says
nothing of one that is still reading, so it is not inductive. `SnapshotInv` says of each
source read so far between which edits it was read: those of the first pass between the
start and some moment, those of the second between that moment and now. If the passes
are equal, a file had the same content at its two reads, hence, since no content comes
back (`NoReturn`), at that moment too; and the chain was followed to its end, so it is
the chain of that moment (`PathOfChain`). In layers: `MergeLaw` says what one merge does
to a field, `FoldOfLayers` what a sequence of merges does, and `ComposedSays` puts the two
folds of `resolveProfile` together, which is where deletions are forgotten. The attempt to
prove it is how the second case of observation I was found.

**`HostAssemblyProofs`, the library** (`PlansAreLoadOrders`, `LoadOrdersAreSound`). The
invariant is easy: whoever has a plan has the plan of the library (`PlanInv`). The work is
in that plan, for every library. `expand` and `visit` are recursive functions over a call
(an id and the ids above it), and their loops are folds of recursive calls. A call below
has one id more above it, so there is a rank, and a function of these calls exists
(`FixedPoint`, `ExpandExists`, `VisitExists`) and facts about all calls can be shown from
the calls below (`Downward`, an induction over a set instead of a predicate). With it:
`ExpandSucceeds` (without an error it finds the plugins that an id leads to, and nothing
among them is missing or part of a cycle), `VisitSucceeds` (without an error it places
its id after its dependencies, and nothing that is being visited above), and
`ExpandFails` and `VisitRefuses` (an error met on a `Trail`, where each id above leads
to the present one, means that something needed is missing, or is a bundle under a
plugin, or requires itself). The trail is what the property alone lacks: from a call by
itself, `DEPENDENCY_CYCLE` says nothing about the library.

Sequences in the models are filtered by sets of positions instead of `SelectSeq`,
whose definition has a local recursive function that the prover does not expand.

A local function `f[a, b]` is not supported either, so the walks of the library take one
tuple. The induction theorems of the TLAPS library cannot be instantiated; induction is by
`Upward`, over the set of the numbers of which a statement holds.

Only model-checked: every liveness property (`CallsSettle`, `DisposeEnds`, `InputsSettle`,
`ShutdownEnds`, `TurnTerminates`, `CancelTerminates`, `QueueAdvances`,
`AppendsSettle`), since neither fairness nor ENABLED is within the prover's reach. Every
invariant and every action property that a run checks is stated by a theorem.

## 5. Not modelled, and why

- The content of messages, prompts, events and snapshots; formatting; logging.
- Provider streams (`adapters/openai-compatible.ts`): parsing. `ModelCalls` has
  what comes out of it.
- Local file and shell Tools, MCP transport, terminal output, metrics and Session
  queries of the CLI and the coding agent: I/O and conversion. What MCP registers
  is a registration like any other.
- YAML, path confinement, references and secrets of Profiles, configuration of
  packages, duplicate package ids: validation of values without state.
- What happens in a journal in memory: it records neither resolutions nor references, and
  ends with its process.
- Failures of an assembly that only end the process: the contract's `validate`, Supervised
  Mode without an approval adapter, `createKernel` or `createAgent` throwing. To the others
  they are a crash that writes nothing.
- Damaged journal files and `list()`: parsing.
- Several processes on one Session: nothing in the code protects its journal
  (observation B), and `HostAssembly` assumes that nobody does it.
  `recordSessionAssembly` reads and appends without a lock, which matters only there.

## 6. Plan

`TurnLoop` refined to the "working" stage of `SessionLane`, so that the frame and the
inside share one history. A property for the hazards that have none in `PROJECT.json`, of
which two journal objects on one directory matter most (observation B).
