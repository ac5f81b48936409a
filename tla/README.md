# Freddie in TLA+

Specifications of the core of Freddie, an agent harness built from Cordis plugins
(`src/packages`), checked with TLC and, where a result should hold for every instance,
proved with TLAPS. Each module names the source file it translates; `PROJECT.json` maps
every definition to its lines.

1. [The system](#the-system) - inventory and what makes each part correct
2. [Modules](#modules) - which module models which part, and how
3. [Runs](#runs) - what TLC checks, bounds, fairness
4. [Proofs](#proofs) - what TLAPS proves and along which argument
5. [Findings](#findings) - where code and documentation disagree
6. [Not modelled](#not-modelled) and [plan](#plan)

## The system

An *agent* owns a *session* (an append-only event log), an *inbox* (two pending lists of
messages) and a *driver* (an async function that runs *turns* of *steps*). A step is one
model request with the tools it calls. The log is batched to storage by a write-behind and
owned, per session id, by a persistence coordinator; tools start background jobs that outlive
their call; all of it is assembled from plugins by a kernel that loads and unloads them.
Everything runs on one JavaScript thread, so the hard behaviour is what may happen at an
`await`, in a microtask between an async function and its caller, inside listeners of an
event, and when the process dies.

| component | state | operations | what must hold | module |
|---|---|---|---|---|
| agent driver and inbox (`core/agent-loop/src/agent.js`, `core/agent/src/inbox.js`) | phase (idle, running, maintenance) with abort signal and wake latch; turn and step numbers; two pending lists | `send` (followup, steer, inject), `cancel`, `runMaintenance`, `whenIdle`; `kick`/`turn`/`preStep`/`step` | no accepted wake is forgotten; an aborted activity begins nothing and converges; a message is in one place; the log stays legal whatever throws; a turn reports how it ended | `AgentDriver` |
| tool-call scheduler (`core/agent-loop/src/tool-calls.js`) | slots, in-flight map, group counters, scheduler failure | `executeToolCalls` | exclusive calls are barriers; answers go to their own call in call order; nothing runs after it returned or threw | `ToolPool`, `ToolRound` |
| session log grammar (`core/session/src/index.js`, `invariant.js`) | event list, reentrancy flag, surface | `append`, `deriveMessages`, listeners | turns and steps are bracketed and numbered; results answer calls; an observer may not append | `SessionTrace` |
| log repair, checkpoints, a tool call's stages (`core/session/src/repair.js`, `session/session-checkpoint-policy`, `core/tools/src/index.js`) | the stored log across processes | `interruptedTurnClosers`; checkpoint before a request and before a tool body; `prepare`, `dispatch`, `finalize` | a log cut anywhere becomes legal; no body runs that the stored log does not tell; a result tells the truth about its body | `InterruptedTurn` |
| write-behind (`session/session-persistence/src/write-behind.js`) | pending events, timer, deadline and pause flags, active write, barrier | `enqueue`, `flush`, deadline | nothing lost, repeated or reordered; one write at a time; a resolved flush means stored | `WriteBehind`, `DurableLog` |
| persistence coordinator and prepared sessions (`coordinator.js`, `preparations.js`) | live sessions, id ownership, per-id operation chain, cache of prepared sessions | `prepare`, `load`, `inspect`, `append`, adopt, retire | one owner per id; a retired session is stored before it is forgotten; a prepared session is never stale; nobody waits for ever | `PreparedSessions` |
| persistence backends (JSONL, SQLite) | files, tables | `appendBatch`, `loadStored`, `commitRepair` | a batch is stored whole or refused; a torn tail is recognised | (in `InterruptedTurn`) |
| plugin kernel (`framework/cordis/src/fiber.js`, `reflect.js`, `registry.js`) | per fiber: state, epoch, running load or unload, services found; service store | mount, `update`, `dispose`, `provide`, `notify` | a fiber that has settled runs with the services there are now; an unload ends after those that depend on it | `PluginFibers` |
| jobs (`jobs/jobs-local/src/index.js`, `jobs/tool-jobs/src/index.js`) | job records, waiters, owner cleanups, notices | start, read, kill, wait, settle, dispose | each finished job is told of exactly once; teardown leaves none running | `BackgroundJobs` |
| agent lifecycle (`core/agent-loop/src/index.js`, `core/agent/src/index.js`) | registry, ownership, in-progress preparations | `prepare`, `publish`, `dispose`, configured agents | a failed publication is undone; disposal waits for the driver | (disposal order in `BackgroundJobs`) |
| subagents (`subagent/subagent/src/continuation.js`) | activations, per-child locks, ownership tree | deliver, watch settlement, dispose | a delivery is not lost to a settling activation; children before parents | - |
| goals (`goal/goal`, `goal/goal-round-driver`) | goal fold, round reservation | start, pause, block, drive | one round at a time, none for a stale goal | - |
| schedules (`schedule/schedule`) | due times, timer | create, cancel, drive | each occurrence delivered once or recorded missed | - |
| compaction, approvals, LLM retry, remote streams, session controller, terminals | - | - | see [not modelled](#not-modelled) | - |

How they interact: the driver claims from the inbox, appends to the session and calls the
scheduler; the scheduler appends `tool/call` and `tool/result` and hands contexts back to
the inbox; each append is published to observers, one of which is the persistence
coordinator, whose write-behind batches it to a backend; the checkpoint policy flushes before
a request and before a tool body; a restarted process loads the log through the coordinator,
which repairs it; goals, schedules, subagents, jobs and clients call `send` and `cancel` from
status, inbox and job listeners; disposing of a fiber disposes of what its plugin registered.

The abstract contracts tie the modules together: `AgentDriver` implements `SessionTrace` and
`ToolRound`, `ToolPool` implements `ToolRound`, `WriteBehind` implements `DurableLog`, and
`InterruptedTurn` uses what the last one says of `flush()`, and the rules of the grammar as
a pass over its log.

`PROJECT.json` lists the hazards of this code at the line where each bites, with the
property that watches it or the module planned for it.


## Modules

### `AgentDriver` - the phase machine, inbox and turn loop

One action per synchronous section, i.e. the code between two places at which other code
may run. `pc` names the place the driver is suspended at:

- *Interleavable*: an `await`, the microtask hop before an async caller resumes, or the
  listeners of `agent/status` and `agent/error`: any call on the agent may come in.
- *Publishing*: observers of a session append run inside `append()`, where a nested append
  throws. Of the agent's calls only a `cancel` that has nothing to clear gets through
  (`cancel` aborts the signal without an append). These places matter: an abort raised by
  an observer of `turn/start` or `step/start` is noticed by a different check than one
  raised at an `await`.

| state | code |
|---|---|
| `kind`, `cause`, `wakeRequested`, `turn`, `step` | `phase`: its kind, `abort.signal.reason`, latch, numbers (`lastTurn` while idle) |
| `nextTurn`, `nextStep` | `inbox.state` |
| `decision`, `claimed`, `turnEnds`, `stepEnd`, `thrown`, `replay` | locals of `preStep`, `turn` and `kick` |
| `calls`, `started`, `committed`, `concluded` | the open step's tool round |
| `event`, `closedSteps` | the end of the session log, as much as its grammar can tell apart |
| `sent`, `owed`, `disposed`, `truncated` | history variables, read by properties only (`sent` also keeps messages distinct) |

`owed` records what the sources promise about wakes: a waking message is owed service from
`send` until it is claimed or withdrawn. Two exclusions are the sources' own: after a
disposed cancel, and in the gap between a live driver's last look at the inbox and its
exit. A third is the code's: a live driver that leaves a turn by rejection, failure or an
empty first step parks what is queued (`LeaveTurn` clears `owed` there; `LiveDriverClaims`
shows where that departs from the notes, for a message that came after the turn's first claim). Messages are model values, each sent at most once;
LLM stream, prompt assembly, hooks and tools are external and may resolve, reject or abort at
each await. `cancel`'s causes are reduced to `user` (standing for `user` and `parent`, which
the driver does not tell apart) and `disposed`. Not modelled in this component:
`inbox.replace` and splices at arbitrary positions. Two actions are coarser than the code:
`Cancel` clears both lists, the latch and the signal in one step, where `inbox.clear()` is two
splices whose listeners run before the signal is aborted (`agent.js:94-99`); and `RequestBuilt`
merges the appends of `request/header` and `request/context` (`agent.js:410-428`).

Of a tool round, `AgentDriver` keeps only what a turn can see: calls start in order, are
committed in order, may add context or conclude. That this is what the scheduler does is
the subject of the next module.

### `ToolPool` - the scheduler; `ToolRound` - its contract

`ToolPool` models `executeToolCalls` and `runGroup` await by await: the mode of a call is
chosen again each time `executionMode` is asked (tools may be registered or removed in
between), `prepare` may answer, fail or be a final result, a dispatched tool settles in any
order, `finalize` may throw, and the signal may be aborted at any await. `first`, `last`,
`started` and `committed` count calls of the whole message (the code's per-group counters
plus its `next`). `ToolRound` is the abstract contract, and both `AgentDriver` (`RoundSpec`)
and `ToolPool` (`RoundSpec`) implement it: whatever interleaving the pool produces, the turn
sees the round it was modelled with.

### `SessionTrace` - the log's grammar

One action per rule of `core/session/src/invariant.js`, the executable companion that
validates a log in development. An event that breaks its rule has no action, so
"`AgentDriver` implements `SessionTrace`" (`TraceSpec`) says every append is legal:
brackets, consecutive numbers, chunks and results only in their own step.

### `WriteBehind` - batching to storage; `DurableLog` - its promise

`WriteBehind` is `SessionWriteBehind` with the coordinator's `flush()`, its write callback
(`appendLiveBatch`, the contiguity check of `appendCore`) and the start of a fresh session
log. Events are numbers in the order of acceptance. Promise reactions are actions of their
own: `startWrite`'s `catch` (`Fail`), its `finally` (`Finally`), `continueAutomatic`,
`drainBarrier`'s two continuations; other microtasks may run between any two, but a timer
only fires when none is due (`Quiet`). `active` therefore has a value `landed`/`failed` for
a promise that is settled while its `finally` is still due: `this.active` is still set
there, and `flush()` may come in. The backend stores a whole batch or throws. A throw after the
batch was stored (a lost acknowledgement) is not modelled: the coordinator's cursor would
not move and the next append would be refused by the backend, not by this code.

`DurableLog` is the abstract promise to producers: the stored log is a growing prefix of
what was accepted, and a flush resolves only when all that was accepted before it was asked
for is stored.

### `InterruptedTurn` - crashes, checkpoints and repair

The composition that decides what a restarted process may believe: the driver's turn (`at`, with
the numbering of its `phase` in `turn` and `step`, which a loaded agent takes from the log's last
`turn/start`),
the stages of each call in the tool runtime (`stage`: `unstarted`, `deciding` while
pre-execute listeners and the approval are awaited, `gate` at the checkpoint of
`tools/execute`, `body`, `settled`, `committed`), the log with its stored length (`durable`),
and the crash. A checkpoint is the guard the flush stands for: `durable = Len(log)` before
`step/start` and before a request, and, for a tool body, the length the log had when the call was
dispatched (`needs`, `Checkpointed`), since other calls go on appending meanwhile. That a
flush promises this much is what `DurableLog` says of `WriteBehind`.

`Store` lengthens the stored part at any moment; `Crash` leaves it with any prefix of what
was being written, perhaps with half a frame behind it (`torn`); `Load` reads what is left and
writes what `interruptedTurnClosers` returns (`Closers`: one pass over the log, then a result
per unanswered call, `step/end`, `turn/end`). The repair is a batch like another: a crash
may cut it, and the next load repairs the rest. The log is a sequence of real events here,
since repair reads it; the validator of `invariant.js` is another pass over it (`LegalLog`).
Not in this module: a throw of the scheduler (the runtime turns what its listeners and tools
throw into results), a `tools/execute` listener that answers with success and never calls
`next()` (`core/tools/src/index.js:687`), so that a result without an error implies a body that ran, and the SQLite backend, whose transactions leave nothing torn.

### `PreparedSessions` - the coordinator and its cache

One stored session id and everybody who wants it. Clients call `prepare`/`load` (`want =
"reserve"`) or `inspect`; Sessions are created under the id, append, are disposed of and
retire; somebody appends without a Session; entries of other ids push this id's entry out
of the cache (`Evict`). The operations that the coordinator runs one after the other per id are
the records of `chain` (`load`, `check`, `commit`, `append`/`appending`, `write`, `created`, `suffix`,
`forget`), the first of which runs. The cache entry (`entry`, `phase`) is *not* under that order: its
reservation, invalidation and eviction happen at other moments, and every waiter re-reads the
maps when it resumes (`Look`, `Resume`). A Session is a number; an event is the number of the
Session that appended it, so that a foreign write shows in the log. A live or retiring Session
and its write-behind are one batch at a time (`Write`); `WriteBehind` has the details.

`append()` without a Session is asked for only while no Session of the id is live, one call at a
time (`AskAppend`), but it *runs* whenever the chain comes to it, and `appendCore` does not ask who
owns the log (`coordinator.js:397-409`): queued behind the commit of a reservation that is then
published, or beside a retirement, it puts its events at the owner's cursor (`EndAppend`). The field
`intruded` of `state` is a history variable that says so; no action's guard reads it. `OwnedLog` and
`NothingForgotten` speak of the logs nobody intruded on, and without that exception they are false: a
Session has stored one event and appended a second when it is disposed of; an `append()` that is asked for
then is stored under the second's number and moves the cursor past it; the Session's last batch passes its
event over as stored (`coordinator.js:888`), and the id is forgotten. A live Session loses an event the
same way if the append was queued behind the commit of the reservation it was published from. The notes say
that detached `append` calls may race (`2026-07-23-collapse-persistence-flush-state.md:17`) and that "every
event remains durable in its original order" (`2026-08-08-bounded-session-persistence-write-batching.md:29`);
no first-party plugin makes such a call today.

The backend may fail in each operation: a load, the revision check or the repair of a commit, an
adoption before or after its repair, an append and a live batch. Four limits. No `append()` is asked for
beside a live Session. A batch that fails is not stored. The failure of a retiring Session's batch makes it
`stuck`; backend teardown, which retries it, is not modelled. `retirements` holds one
retirement per id, so that a second retiring Session replaces the first (`coordinator.js:731`); the
model does the same (`Dispose`).

### `PluginFibers` - the kernel

A fiber is a plugin instance. Its `epoch` names the providers it should run with, `inertia` is the
load or unload that runs, and whatever changes the epoch meanwhile is only noticed when that
job ends (`BodyReturns`, `FinishUnload`). A step is the code from one `await` to the next,
with everything `notify()` reaches synchronously: the fibers that look the service up again,
those that unload because of it, and what these provided (`Notify`, a closure rather than a
recursion). `_unload()` takes its disposables off the list at once (`left`), runs them and awaits
each (`RunDisposable`, `SeesSettled`).

`FiberAssumption`: parent and injection are acyclic together. A plugin that injects a service
only its own child provides waits for itself in the code as well; it is excluded. Not
modelled: the config of a fiber (see [plan](#plan)), isolation of service names, other
effects than mounting and providing, the `check` predicate with which a provided service may hide
itself from a fiber (`fiber.js:436`), and a plugin that withdraws its own service before it unloads. The disposer of a provided service awaits the live
dependents only, and `InnerFirst` says no more: a dependent that is itself being disposed of may
finish later.

### `BackgroundJobs` - the registry, its waiters and two teardowns

`start`, `read`, `kill`, `wait` with its timeout and abort, `settle`; the disposal of an agent
(`life`: its scope closes first, which runs the effect that cleans its jobs up, then it is
unregistered), the disposal of the registry, and the notices of `tool-jobs`. A waiter whose
timer fired is still counted until it resumes (`expired`), and one released by `settle` resumes later
(`resolved`): whether a notice is due is decided between the two. How a job ended is reduced
to `settled`. A job that settles while `tool-jobs` is being reloaded has no listener
(`unheard`): its owner is not told, which `ToldOnce` excepts by name.

`start()` itself has no closing check: `disposeAll()` awaits the jobs it has found (`ending`), then clears the
store of whatever is in it. That nothing is added meanwhile is derived, in three steps. Each
tool that starts jobs asks `ctx.get('jobs')` in the same synchronous section (`tool-bash:278-287`,
`tool-pwsh:268-277`, `tool-terminal:203-206`, `tool-subagent:262-266`, `tool-workflow:293-295`).
`get` is strict: it answers only while the providing fiber is `ACTIVE` (`reflect.js:120`; `Visible`). And an
unloading fiber leaves `ACTIVE` before the first of its effects, `disposeAll()` among them, is
run (`fiber.js:469-471`, `:510`; `Unload`, then `DisposeAll`). The mount of `tool-jobs`, whose controller `servesOwner()`
asks for, is withdrawn at any time before or after (`Reload`) and is not relied upon. A caller that keeps the
service across an `await` breaks `NoneOutlives`: that is the mutant `MutVisible`.

What happens to the answer of
`job_output` after the registry gave it (an abort replaces it, `core/tools/src/index.js:672`) is
not part of this component.

### Supporting modules

`MCPreparedSessions`, `MCPluginFibers` and `MCBackgroundJobs` give TLC a symmetry, a view or a
concrete graph; the other modules are checked as they are. `AgentDriverProofs`,
`ToolPoolProofs`, `WriteBehindProofs`, `BackgroundJobsProofs`, `PreparedSessionsProofs`,
`PluginFibersProofs` and `InterruptedTurnProofs` hold the theorems, `SeqSetLemmas` lemmas on
sequences, their prefixes and removals, and the sets of their elements. Operators named
`Mut...` are the model with one plausible mistake in it; each stands before the definition it
replaces, is used by no specification, and shows that the property of the same `mutants`
entry would notice.

## Runs

| run | question | instance | distinct states |
|---|---|---|---|
| `driver` | the driver's safety, its liveness, and the refinements of `SessionTrace` and `ToolRound` | 3 messages, last turn 1, 3 steps, 2 calls | 225,673 |
| `driver_disposed`, `driver_truncated_tools`, `driver_empty_turn` | [findings](#findings) | 2 messages | - |
| `pool` | barriers, answers, nothing left running, `ToolRound`, return | 5 calls, pool of 2 | 378,646 |
| `write` | order, no stranding, one write, `DurableLog`, events stored, flushes settled | 5 events, 2 flushers | 106,146 |
| `interrupted` | what a restarted process reads | 2 calls of a message and of the log, 2 turns, 2 steps, 2 crashes | 318,971 |
| `prepared` | one owner, current copies, nothing forgotten | 2 clients (one inspects), 2 Sessions, logs of 2 | about 970,000 |
| `prepared_liveness` | every caller is answered | 2 clients, one live Session and one only loads use, logs of 1 | 37,229 |
| `prepared_stale_cursor` | [finding 4](#findings) | 1 client, 2 Sessions, logs of 3 | - |
| `fibers` | settled fibers are current, inner ones end first | 4 fibers, 2 services, 1 update | 417,639 |
| `jobs` | each end told once, none outlives its owner | 3 jobs, 2 agents, 2 callers of one of them, 2 jobs per owner | 1,091,188 |

What the properties say, besides each module's `TypeOK`:

- **`NoLostWake`**: at rest, nothing is owed. **`LatchServed`**, **`AbortConverges`**: and it is
  reached.
- **`OnePlace`**: a message is pending once, or claimed, never both - across claims, restores
  by a pre-step listener, and withdrawals.
- **`AbortStopsWork`**: after an abort no turn, step, request or chunk is recorded and no tool
  dispatched, wherever the abort came in.
- **`CompletedIsAnswered`**, **`TruncationWins`**: what `turn/end` says agrees with how the
  steps ended, whatever sequence of continuations led there.
- **`TraceSpec`**, **`RoundSpec`**, **`LogSpec`**: refinements of the contracts above.
- **`BarrierHolds`**: around an exclusive call, everything earlier is answered before it is
  recorded and nothing later is recorded before it is answered - also when a call becomes
  exclusive after its group was formed. **`AnswersAreOutcomes`**: a call is answered with its
  own outcome. **`NothingLeftRunning`**, **`Returns`**.
- **`EverythingInOrder`**: stored, being written and pending are consecutive segments of the
  accepted events (the batch may overlap the stored part by the seed). **`NothingStranded`**:
  pending events are some timer's, write's, barrier's or flush's business, unless retries are
  paused after a failure or the session could not start. **`OneWriteAtATime`**,
  **`EventuallyStored`**, **`FlushSettles`**.
- **`LegalLog`**: what a process works on follows the grammar, after any number of crashes at
  any event, crashes during repair included. **`HonestAnswers`**: a result that says the body did not
  run is the result of a body that did not run, in this process or an earlier one.
  **`RanIsRecorded`**: a body that ran is in the log a later process reads. **`AnsweredOnce`**: a
  call has one result.
- **`OwnedLog`**, **`ReservationHolds`**, **`InspectIsCurrent`**: the coordinator's cursor, a held
  reservation and an inspected copy agree with what is stored, however long ago they were
  read; the stored log is the beginning of its owner's, unless an `append()` without a Session came
  in between. **`NothingForgotten`**: with the same exception, a Session is forgotten only once its
  events are stored.
  **`NobodyStranded`**: whoever asked is answered.
- **`SettledIsCurrent`**: a change that arrives in the middle of a load or unload is made up
  for at its end. **`InnerFirst`**: an unload ends after the fibers it mounted and the live ones that
  used its services.
- **`ToldOnce`**: a notice is sent if and only if nobody else is known to hear of the end.
  **`NoneOutlives`**: however late a tool starts a job, a gone agent has none, and a closed registry
  none, though `disposeAll()` awaits only those it found.

Bounds and why they are enough.

- `driver`: the number of turns is bounded by `Msgs`, as each further turn needs a message.
  With three, a driver is given work, a wake after the abort and one more during the replay.
  `MaxSteps = 3` stops tool calls from the third step on: a turn needs a step that ends, steering,
  and tools in the step after, for `CompletedIsAnswered` and `TruncationWins` to be at stake.
  `MaxCalls = 2` allows one call committed, one skipped.
- `pool`: five calls and a pool of two give a full pool with a call waiting, and an exclusive
  call with a group on both sides.
- `write`: five events are one more than the longest queue of distinct fates (stored, in the
  active batch, retained, pending in the open window, accepted during a barrier). Two flushers
  are needed to join a barrier; a third only joins the same way.
- `interrupted`: two calls overlap, so that one is answered while another runs; two turns and two
  steps reuse call ids, which the repair must not confuse; the second crash may hit the
  repair of the first.
- `prepared`: one client holds or waits while the other invalidates, evicts or inspects; one
  Session lives while another is prepared, retiring or being created. Logs of two events tell
  a copy from what was stored after it. Liveness is checked with shorter logs and with a Session kept
  for loads, so that a load is never blocked by the bound alone. `OpenAppends` lets
  `append()` leave a turn open, which is the finding's case: everything else is checked without
  it, since it breaks `OwnedLog` for that one reason.
- `fibers`: two providers compete for a name; a fiber in the middle injects and provides; the last
  is mounted by one provider and depends on the middle one, so that it is unloaded from
  two sides. One `update()` suffices to meet every state of a fiber.
- `jobs`: a limit of two with three jobs reaches it; two callers wait for one job or for two; the
  second agent's jobs must survive the first's teardown.

`prepared` and `jobs` use symmetry (clients; jobs and callers): they are only compared for equality,
never ordered, and neither run checks liveness. Sessions are ordered by `Fresh` and are not
permuted. `prepared` also has a VIEW, `Remainder`: it drops the data of Sessions to which nothing refers any
more, which no action reads before `Look` or `Create` resets them, and the logs of Sessions that
are neither prepared, owner nor about to be; of an owner that was intruded on it keeps the log's length, as no
property and no action reads more of it. What is dropped changes neither what is enabled nor what
the callers do, so that `prepared_liveness` uses the view too, without the symmetry (without the view it passes
as well, with 240,298 states). `Bounded` cuts `prepared` short: one caller at a time inspects, as two inspections
only share a load, which `prepared_liveness` has; and logs beyond two events are checked, not continued. `CHECK_DEADLOCK
FALSE` throughout: an agent may rest for ever, a scheduler ends, a log with nothing to store is
idle, bounded turns, updates and jobs run out, and a disposed kernel or registry has stopped.

Fairness. `AgentDriver`: weak fairness of `Drive`, the driver's continuation. It stands for
"every await settles", which for an aborted signal is the documented contract of hooks,
model calls and tools, and for "a maintenance job returns". Calls on the agent, the restoring
pre-step listener and a failing scheduler are not fair: liveness must not depend on them. An
endless stream of chunks is a fair behaviour of a live driver; the liveness properties only
speak of aborted or latched ones. `ToolPool`: weak fairness of the scheduler's continuations
and of each tool's settlement (the scheduler has no timeout of its own). `WriteBehind`: timers
fire, continuations run, a write and the session's start settle one way or the other; no
caller has to flush, no event to arrive, and `Land` is not forced over `Fail`.
`PreparedSessions`: promises settle, a caller's loop goes on, a reservation is released (it is bound by
`using`), a retiring Session is flushed or fails; and calls, new Sessions and evictions
stop at some time, as an endless stream of them may keep one caller coming round for ever (the
loop has no turn-taking). `InterruptedTurn`, `PluginFibers` and `BackgroundJobs` have no
liveness property.

## Proofs

Every safety property and refinement of `AgentDriver`, `ToolPool`, `WriteBehind`,
`BackgroundJobs`, `PreparedSessions`, `PluginFibers` and `InterruptedTurn` is proved, for every
value of the constants (two of `PreparedSessions` under a condition, below).

`AgentDriverProofs` (any set of messages, any restored turn number, any bounds):

- `TypeCorrect`: `Spec => []TypeOK`. `TypeOK` is split into `TypeFlags` and `TypeData`, as
  Boolean-valued variables suit one prover and the numbers and sequences another; one step
  per action. `committed <= started <= calls`, and no round open outside a step, are part of it.
- `WakesAreServed`: `NoLostWake`. Alone it is not inductive; `WakeInv` adds, for every place
  the driver may stand at, why an owed wake is still served: it is pending; at rest or in an
  aborted driver the latch is set; at `exiting` the driver is aborted; while status listeners
  run `kick`'s copy `replay` is set, or maintenance holds the latch. Four lemmas say what
  insert, claim, withdraw and restore do to the set of pending messages.
- `AbortIsRespected`: `AbortStopsWork`, an action property from `TypeOK`.
- `DriverImplementsTrace`: `Spec => TraceSpec`, the refinement. `NumberInv` relates the
  driver's `step` to the log's count of closed steps, which the grammar numbers by; each action
  maps to one rule of the grammar or to a stutter (`TraceStep`).
- `CompletedMeansAnswered`, `TruncationIsReported`: from `ReasonInv`, which says what `turnEnds`
  remembers of the steps so far, from each `step/end` to the turn's end.
- `DriverImplementsRound`: `Spec => RoundSpec`. Outside a step the round is closed (`Closed`),
  so that each step opens a new one.
- `MessagesStayApart`: `OnePlace`. `PlaceInv` says that what is claimed, the steering list and
  the follow-up list are each without repetition, pairwise apart, and made of messages that were
  sent; the last part is what makes a new message distinct. The lemmas say what append,
  removal, tail and concatenation do to sequences without repetition.

`ToolPoolProofs` (any number of calls, any pool):

- `TypeCorrect`, `AnswersAreKnown` (`AnswersAreOutcomes`), `NothingOutlivesTheRound`
  (`NothingLeftRunning`) from `PoolInv`: the types, the order of a group's counters (`Counters`), that a
  started call has an outcome or is in flight unless the scheduler failed (`Outcomes`), and
  when the scheduler's copy of the signal is current (`Halting`).
- `ExclusiveRunsAlone` (`BarrierHolds`) from `BarrierInv`, which adds what the log has of the counters
  (`Recorded`): no call beyond `started`, an answer for each up to `committed`. A call is exclusive
  only as the first and last of its group.
- `PoolImplementsRound`: `Spec => RoundSpec`.

`WriteBehindProofs` (any set of callers, any number of events):

- `Inductive`: `TypeOK /\ Control /\ Order`. `Control` says who may be writing in each state of
  the barrier (a barrier that awaits has an active write; without a barrier the active
  write is a deadline's; a queued `continueAutomatic` finds none); `Order` is
  `EverythingInOrder` queue by queue, with the start of the session. `FreshTail` computes what
  the cursor filter leaves of a batch. The three are proved together because the types of the
  filtered batch need the order and the order needs the control.
- `TypeCorrect`, `NothingLost` (`EverythingInOrder`), `WritesAlternate` (`OneWriteAtATime`),
  `NothingForgotten` (`NothingStranded`) follow.
- `FlushKeepsItsPromise`: `Spec => LogSpec`, with `Promised` (what a caller asked for is
  accepted, and stored once it is resolved).

`BackgroundJobsProofs` (any jobs, agents, callers and limit):

- `TypeCorrect`.
- `JobsEndWithTheirOwner` (`NoneOutlives`) from `OutliveInv`: types, `Recorded` (a job that is active is on
  record) and `Cleaned` (a job on record has an owner whose effect is attached, or is one of those
  its cleanup awaits; while the registry closes, every job on record is one that `disposeAll()`
  awaits, which holds because no job starts from `Unload` on).
- `EndsAreToldOnce` (`ToldOnce`) from `ToldInv`: by `Telling`, until a job settles `reported` says just
  that somebody had it stopped, and who waits for a job waits for one that has not settled.

`PreparedSessionsProofs` (any callers and Sessions, any lengths):

- `PreparedAlways`: `PreparedInv`. Operations on an id run one after the other, but the cache
  entry changes between them, so that the invariant says how the two meet. `Queue`: each queued
  operation is of somebody it still concerns, and nobody has two queued. `Order`: behind the entry
  of a finished load no `created` or `suffix` is queued and no `commit` but its own. `Cached`: an entry excludes
  a live Session and, once loaded, is of the log's present length. `Revisions`: a copy somebody wants
  either shows by its revision (`base`) that it is outdated or is what is stored. `Clerks`: a
  reservation has one caller, and the entry it fits. `Appending`, `Owning`: what a running
  append and an owner exclude. Each part is kept step by step (`QueueStep`, `OrderStep`, ...).
- `TypeCorrect`, `HeldReservation` (`ReservationHolds`) and `CurrentInspection` (`InspectIsCurrent`)
  follow.
- `OwnedLogHolds` (`OwnedLog`) and `RetiredIsStored` (`NothingForgotten`), from `LogInv`, assume
  `~OpenAppends`: that no caller of `append()` leaves a turn open without a Session. Without it both are
  false: the repair of finding 4 leaves the cursor behind, a Session that then owns the id
  writes at the stale cursor, and is forgotten with a log that is not what is stored (TLC shows
  this from logs of four events). `LogInv` adds that a known log without an owner is closed. Both keep
  their exception for an `append()` that came in between; that the cursor is the end of the
  stored log (`OwnedLog`, first part) is proved without it.

`PluginFibersProofs` (any plugins and services whose dependencies are acyclic):

- `KernelAlways`: `KernelInv`. `SettledIsCurrent` only speaks of settled fibers; the invariant says it
  of all. `Found`: what a live fiber has found is what there is, also while it loads or
  unloads. `Called`: its epoch follows from that, unless its body threw. `Took`: what it runs
  with is what it was loaded for. `Undone`: an unload has on its list, or awaits, each mounted
  fiber that is not gone, and has on its list exactly the services its fiber still provides. `Users`:
  who loaded with a service has a provider that still provides it or awaits that user.
- Nearly every action ends in `notify()`, whose effect on other fibers is a least fixed point. It is
  treated once: `LeftCloses` shows by monotonicity that the intersection defining `Left` is
  itself closed; `NotifiedWay` that each fiber then leaves, loads or stays; `NotifiedFound`
  that every live fiber has found what is shown afterwards; and `NotifyKeeps` that the
  invariant holds if what the action hands over fits (`Ready`, `Jobbed`, `Awaited`, `Kept`). The
  actions' lemmas establish these four.
- `TypeCorrect`, `SettledFibersCurrent` (`SettledIsCurrent`), `UnloadsEndLast` (`InnerFirst`). For the
  last, `UnloadEnds`: only `FinishUnload` ends an unload.

`InterruptedTurnProofs` (any number of calls, turns, steps and crashes):

- The readers. `Scan` (repair) and `Traced` (the validator) are recursive functions over the log.
  That each has a value and goes on by one event (`ScanAppend`, `TraceAppend`) is an induction
  over the log's length, done without the library's induction theorems: a set of numbers that
  holds 0 and is closed under successor holds the interval (`IntervalInduction`, from the least
  element of what it misses), and a recursion whose steps are functions has a solution
  (`RecursionExists`).
- The log. `Tracks` relates the two readers: they agree on the open turn and step, what the
  validator has pending is what repair knows as named and started, and what a step has left to
  answer is a run of its calls up to the last. `Told` says what the readers know of the events: none
  is ahead of the numbering, each recorded call is open or answered, started calls are recorded, no
  two results answer one call. `Whole` is both, and `Cuts` says it *of every prefix* of the log: that is
  what makes a crash, which cuts it anywhere, no case of its own (`CutsCut`). `Fits` says which event
  may follow; it keeps `Cuts` (`CutsStep`) and implies `Follows`, the validator's rule
  (`FitsFollows`). What repair appends fits event by event (`ClosersClose`).
- `Inductive`: `IInv`, that is the types, `Sound` (a log with `Cuts`, honest results, and the
  bodies that ran recorded in its stored part) and, while the process is up, `DriverInv`: the numbering
  agrees with both readers, and in a step the calls' stages with what the scan has open (`CallsInv`,
  `CallInv`). A body enters while its call is named, so that no result of it exists that could
  become false (`BodyEntered`); the length its gate waits for has its `tool/call`.
- `TypeCorrect`, `LogStaysLegal` (`LegalLog`), `AnswersAreHonest` (`HonestAnswers`),
  `BodiesAreRecorded` (`RanIsRecorded`), `CallsAreAnsweredOnce` (`AnsweredOnce`).

Assumptions: only the constants' (`AgentAssumption`, `PoolAssumption`, `WriteAssumption`,
`JobAssumption`, `PreparedAssumption`, `FiberAssumption`, `InterruptedAssumption`) and
`~OpenAppends` where said. That `None` and `0` are no fiber, job, epoch or client is among them,
as TLC takes it for granted of model values. Only model-checked: the liveness properties
(`AbortConverges`, `LatchServed`, `Returns`, `EventuallyStored`, `FlushSettles`, `NobodyStranded`),
as fairness and `ENABLED` stay with TLC; and `AskedSoFar`, a bound of TLC's instance that folds over
the log, is never expanded.

## Findings

1. `driver_disposed` (`DisposedParks`). `wakeDriver` reads `abort.signal.reason`, which keeps
   the *first* reason. After `cancel(user)` or `cancel(parent)`, a `cancel(disposed)` is
   invisible, and a waking send then latches and starts a new driver. Notes and
   `docs/subsystems/core.md` say a disposed cancel leaves it parked. Subagent teardown makes
   this sequence (`continuation.js:694`, then the handle's disposal).
2. `driver_truncated_tools` (`ClosesWhenNothingOwed`). `max-tokens` sticks in `turnEnds`; when
   steering continues the turn and a later step runs tools, the turn closes although a request
   is owed for their results (`docs/architecture.md:63,77`).
3. `driver_empty_turn` (`LiveDriverClaims`). A turn whose first decision is empty returns
   without looking at the inbox. In the trace the turn has claimed its first message; a steering
   message is sent while the prompt is assembled, a pre-step listener empties the decision, and the
   turn completes. The new message stays queued without a latch, although "a live driver needs
   no latch because it claims queued work itself".
4. `prepared_stale_cursor` (`AppendsAtTheEnd`). `commitPrepared` writes a repair without touching
   the cursor of the id's known state (`coordinator.js:592`). After an `append()` that left a turn
   open and a repair, a batch numbered like the repair is accepted and the one that continues the
   log is refused, until the caller that repaired has loaded the log again. The package's
   README (15, 26) says the first `seq` must be the stored next one.

## Not modelled

- I/O and presentation: SQL and file formats, processes, terminals, HTTP, user interfaces, hosts,
  extensions, packaging. Model adapters and their retries are external to the driver (a stream may yield,
  fail or recover). They are by far the larger part of the repository's lines.
- Of the modelled components: `inbox.replace` and arbitrary splices; `create()` without a
  Session, `readFrom` and format checks of the coordinator; the layered tool registry and
  code mode's nested calls; a fiber's config, isolation and events; two hazards on
  `provide()` outside its plugin and on a request built before compaction.
- Components for which a later module is planned: below. `PROJECT.json` gives each part's status
  and reason.

## Plan

1. `PluginFibers` with the config: `update()` or `restart()` while the body of a fiber runs takes the
   epoch away and back to the same value, so that its end sees no change and the old
   config stays (`fiber.js:464,497`); a run of its own.
2. `AgentLifecycle`: prepare, publish, dispose, configured agents; disposal over the driver's
   contract; a failed publication is undone.
3. `SubagentContinuation`: delivery, settlement watch, tree disposal; then `GoalRounds`.
4. `Surface`: append and replace of messages, compaction under maintenance.
5. Proofs of the modules above, as they come.
