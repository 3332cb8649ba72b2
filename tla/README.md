# A TLA+ model of SatQuery AI

SatQuery AI answers questions about the Earth by running *investigations*: a
query is compiled to a DAG of acquisition, assessment and reasoning tasks, the
DAG is executed with checkpoints in a durable journal, recurring observations
are scheduled over it, and an Earth view shows live and stored data in layers.
This directory holds TLA+ modules for the parts of the program where correctness
is decided by the order in which things happen - the execution engine and its
journal, the lifecycle of an investigation, the monitoring scheduler and its
trigger policies, and in the Earth view the live vessel feed and the lifecycle of
data layers - with TLC configurations and TLAPS proofs.

Paths below are relative to `src/engine/satquery-ai/satquery/` unless they begin
with `APP`, `EV` (`src/APP/earth-view`) or `docs` (`src/engine/docs`).

## 1. The system

| Component | State it keeps | Operations | Hard behaviour |
|---|---|---|---|
| **Execution engine**, `platform/execution.py` | locals of `execute()`: results, pending and rejected dependencies, ready heap, remaining, running futures; the cancellation token | `execute`, `finish` (recursive), `_run_task`, `ExecutionCancellationToken.cancel` | completions in any order, cancellation at any await, retries, exceptions that leave futures behind |
| **Execution journal**, `platform/execution_journal.py` | runs, checkpoints, hash-chained events, in memory or SQLite | `begin`, `checkpoint`, `record_event`, `has_execution`, `events` | crash between a side effect and its record; resumption |
| **Investigation lifecycle**, `platform/investigations.py`, `platform/runtime.py` | `Investigation.status`, `result_ids`; the table of active executions | `start`, `resume_start`, `add_result`, `complete`, `complete_partial`, `fail`, `cancel`; `execute_investigation`, `cancel_investigation` | several commits per request, any of which may fail or be the last before a crash; concurrent requests |
| **Monitoring scheduler**, `platform/monitoring.py` | schedules with `next_run_at` and `revision`; runs with status, lease and worker | `set_enabled`, `revise`, `claim_due`, `heartbeat`, `recover_expired`, `finish`; `MonitoringService.run_due` | two callers of `run_due`, several processes, lease expiry racing a late finish, cancellation |
| **Trigger policies and recovery**, `platform/runtime.py` 1764-2226 | events `trigger_*` of the monitoring event log | evaluate, cooldown, start, recover | budget per tick, recovery against live executions |
| **Agent turns and sessions**, `agent.py` | sessions with a revision | `stream_turn`, `save`, cancel | revision conflicts, cancelled turns |
| **Image analysis**, `orchestrator.py`, `router.py`, `registry.py` | none between requests | one request | - |
| **Planning, perception, reasoning, science, rasters, governance**, `platform/*.py` | immutable artifacts | pure computations | numeric, not behavioural |
| **Earth Memory, connectors, caches** | content-addressed index, HTTP caches | index, search, fetch | I/O |
| **API, UI, SDK, CLI**, `api.py`, `ui.py`, `client.py`, `__main__.py` | the background poller | HTTP endpoints | they are the callers in the models |
| **APP event bus**, `APP/backend/.../streaming/memory.py` | subscriber queues over a durable log | `publish`, `subscribe`, `aclose` | gap-free hand-over from replay to live, overflow |
| **APP stores**, `sessions/sqlite.py`, `projects/sqlite.py` | SQLite tables | CRUD, `mutate` | shared connection and transactions |
| **Earth view live vessel feed**, `EV/src/data/aisWatchdog.js`, `aisStreamAdapter.js`, `EV/server/providers/vessels/ais-live.js` | the watchdog's status, owned generation, silence, ladder and deadline; the adapter's sockets; the key in the environment | `ensure` (configure, tick), the five socket handlers, `dispose` | events of sockets given up long ago, one connection per key, a key that is refused or rotated, restarts within the process |
| **Earth view layer lifecycle**, `EV/src/data/lifecycle.js` | the entry of a layer: enabled, initialized, uncertain, lifecycle, intent epoch, queued intent, adoption epoch, chain of turns, timer, refresh epoch | `setEnabled`, `toggle`, `clearSelectedLayers`, `destroyLayer`, `_runPeriodicUpdate` | a newer request aborts an older one inside any call of the layer's module; compensation that fails; callbacks that request again |
| **APP agent runtime, LLM, vision, engine client** | per-request | - | external services |
| **APP frontend and the rest of the Earth view** | what is drawn | - | user interface |

How they interact. `MonitoringService.run_due`, the API's execute and resume
endpoints, trigger policies and agent tools all call
`PlatformRuntime.execute_investigation`, which commits the lifecycle of the
investigation around one call of `ExecutionEngine.execute`. The engine calls
task handlers (coroutines, or functions in threads) and writes the journal. One
server process has one event loop; several processes may share the SQLite
databases of monitoring, and a process that is restarted finds what the former
one committed. The two parts of the Earth view share no state with the engine:
the feed lives in the Earth view's own server and is driven by an interval and
by every request for vessels; layers live in the page, where the vessel layer is
one of the modules that a layer's manager enables and updates.

What makes each component correct:

- engine and journal: the graph is respected; every execution ends with an honest
  result; a crash, a cancellation or an exception followed by any number of
  resumptions repeats no side effect that is not declared retry safe, and recomputes
  no checkpoint;
- lifecycle: an execution in progress belongs to exactly one request and to a RUNNING
  investigation; COMPLETED is final and backed by checkpoints and an indexed result;
  no request leaves an investigation RUNNING behind;
- monitoring: an occurrence is executed at most once, runs of a schedule do not
  overlap, a claim is never stranded, a settled outcome is final, a schedule cannot
  get stuck;
- triggers: a tick keeps its budget and a policy its cooldown; a match leads to one
  investigation, whose chain of events is complete, is not closed under a client that
  works on it, and ends;
- vessel feed: one connection per key; a refused key and a rate limit are respected
  whatever happens to the probes; "live" means that records arrive; no failure is
  final;
- layers: what is recorded of a layer that rests is true of its module, or marked
  uncertain, as far as the turns go (section 4); the newest request owns the visible
  state, and only it is granted; one update loop; a destroyed layer leaves nothing at
  work.

`PROJECT.json` lists the hazards, each at its line, and the properties that
cover them.

## 2. The modules

| Module | What it is |
|---|---|
| `ExecutionEngine` | the scheduler, its coroutines and the journal: one action per step between two awaits |
| `ExecutionEngineProps` | its properties, and the inductive invariants `SafetyInv`, `SchedulerInv`, `GraphInv` and `SucceededIsSecured` |
| `ExecutionEngineProofs` | type correctness, and that unsafe tasks run once |
| `PlanExecution` | the abstract contract of `execute()`: begin, continue, run, secure, return |
| `EngineRefinement` | the refinement mapping from `ExecutionEngine` to `PlanExecution` |
| `EngineRefinementProofs` | the invariants of the loop, and that the mapping is a refinement |
| `InvestigationLifecycle`, `InvestigationProps`, `InvestigationProofs` | one investigation and its requests, composed with an instance of `PlanExecution` |
| `MonitoringScheduler`, `MonitoringProps`, `MonitoringProofs` | schedules, runs, workers and `run_due` calls over one repository |
| `MonitoringTriggers`, `TriggerProps`, `TriggerProofs` | the pass that recovers and starts the follow-ups of trigger policies |
| `AisFeed`, `AisFeedProps`, `AisFeedProofs` | the watchdog of the vessel feed composed with its transport adapter, the upstream, the operator's key and restarts |
| `LayerLifecycle`, `LayerProps`, `LayerProofs` | one data layer: its callers, the chain of turns, the module it drives |
| `MCExecutionEngine`, `MCInvestigation`, `MCMonitoring`, `MCTriggers`, `MCAisFeed`, `MCLayers` | instances for TLC |

An operator whose comment begins with "Mutant" is a plausible bug of the
definition after it. It is used by no specification; it serves to check that the
properties notice the bug.

### ExecutionEngine

State and code: `begun`, `logged`, `checkpoint` are the journal (which plans
have a row, which task events exist, which outputs are stored); `results`,
`pending`, `rejected`, `ready`, `remaining`, `completed`, `running` are the
locals of `execute()` of the same names; `batch` is `completed_futures`, `sweep`
the rest of `sorted(remaining)`; `finishing`, `stack` and `kids` are the
activation records of the recursive `finish()`, innermost last; `future` and
`attempt` are the `_run_task` coroutines, kept per execution because an
exception that leaves `execute()` does not stop them. `invoked`, `inputs` and
`closed` are history; `closed` says whether the checkpoints that the latest
execution restored are closed under dependencies, which they need not be once an
output could not be encoded or a task accepted a partial dependency.

Steps are the pieces of code between two points where another coroutine, a
cancellation or a crash can come between: popping a ready task
(`StartTask`), the return of `asyncio.wait` (`Collect`), popping a completed
future (`FinishCompleted`), and in `finish()` the checkpoint (`SaveCheckpoint`,
`RaiseFromFinish`), the recorded outcome (`RecordOutcome`) and each dependent
(`VisitDependent`). The epilogue of a cancelled execution is `LeaveLoop`,
`Drained`, `Capture`, `BeginSweep`, `SweepTask`, `EndSweep`, `Return`.

Abstractions. Outputs are reduced to what encoding them does (`EncodeOutcomes`);
the two journal writes of `finish()` have the same type and task and are one;
creating a future and its first step (which journals `task.running`) are one,
because `asyncio.wait` lets the first steps run before anything else can happen
to them; the semaphore inside `_run_task` never blocks, since the loop starts no
more than `concurrency` futures; captured outcomes are finished in any order
(the code uses creation order); the guard `t \notin running` of `StartTask` says
only that a dictionary of futures has one entry for each; "Execution stalled" is
not an action but the property `NeverStalls`. Left out: a failing journal write
in `_report`, threads of synchronous handlers that outlive a timeout, and a
second cancellation of the caller during the epilogue (modelled by `Interrupt`
in the lifecycle).

### PlanExecution and the refinement

`PlanExecution` says what a caller of `execute()` may rely on. Of every plan: only a
task that was run succeeds or gets a checkpoint; checkpoints are kept; if all of the
plan is `done` - succeeded for the latest execution, restored or run - the outcome is
SUCCEEDED, if it is PARTIAL something is, if it is FAILED nothing; CANCELLED only
follows a cancellation; a crash or an exception ends an execution at
any point. An exception does not end the coroutines that are running: `strays` are
their tasks, which may go on calling handlers outside any execution.

`Strict` adds what holds when no task accepts partial dependencies and an output that
cannot be encoded raises: a task is run again only if it is retry safe, one with a
checkpoint is run only by a stray, and what succeeds is checkpointed. Plans compiled
by `workflows.py` are not strict (lines 108, 139 and 150 accept partial dependencies),
and `finish()` handles `TaskOutputEncodingError` (execution.py:187-192), which leaves
a task SUCCEEDED without a checkpoint; for them a resumption may restart a restored
task (`Forfeit`), and a task may succeed that is not secured (`Succeed`).

One promise has a condition on the resumption, `closed`: if an execution restored a
task but not a dependency of it, SUCCEEDED does not imply that every task succeeded,
and a coroutine may outlive `execute()`; section 4 has the trace.

`EngineRefinement` maps `executing` to `phase # "idle"`, `runs` to `invoked`, `secured`
to `checkpoint`, `done` to the tasks with a SUCCEEDED result, `strays` to the tasks
with a live coroutine of an execution that is over, and `Strict` to `StrictPlan`.
`ImplementsPlanExecution` is checked on a strict diamond (`execution_resume`) and on
one whose join accepts partial dependencies, with every encoding result
(`execution_partial`), and proved in `EngineRefinementProofs` for every plan.
`Refuse` has no guard on the history: the code also counts tasks that were
cancelled before they started as uncertain, and refuses more than it must.

### InvestigationLifecycle

One investigation; `status`, `result`, `indexed` and `reported` (the tasks that the
indexed result lists as succeeded) are durable, `active` is
`_active_execution_cancellations`, `step[r]` the place where request `r` is.
Requests are numbered as they arrive.
The engine is an `INSTANCE` of `PlanExecution` over the same variables, so the
lifecycle is checked against what the engine promises of every plan (`Strict =
FALSE`, as the plans it compiles are) rather than against the engine itself.
All callers of `execute_investigation` share one event loop and it awaits only
inside the engine, so `LoopIsFree` makes the pieces before and after atomic with
respect to other requests, while each of their commits is a step of its own that
may raise (`Fail`) or be the last before the process dies (`Crash`).

Abstractions: a step of the engine is not taken while a request is between two awaits,
which is how one event loop runs them; a failed indexing after the closing commit
changes nothing durable and is merged with `Close`; the except branch's own commit is
assumed to succeed; `add_task`, `add_evidence`, missions and the orchestrator's own
investigations are left out.

### MonitoringScheduler

A *worker* is a process; a restarted process is another worker with another
`worker_id`. A *call* is one `run_due()`; calls of one worker are serialised by
`_run_lock`, and read the clock (`instant`) before they wait for it. Each
repository method is one transaction and one action. An occurrence `<<s, t>>`
identifies a run as `_run_id` does. `dispatch[o]` is the asyncio task created for
a claim; `beat[o]` its heartbeat.

`Punctual` and `OneProcess` choose the environment. With `Punctual = FALSE` the
clock may run ahead of everything, so that leases expire before a loop gets to
its next step; with `TRUE`, runnable steps and due heartbeats come before the
next tick. With `OneProcess = TRUE` a worker starts only when no other is up,
the deployment docs/development/SETUP.md describes; with `FALSE` several
processes share the database, which leases and worker ids are for.

Abstractions: schedules of equal priority and waiters of the semaphore are taken
in any order; "partial" counts as completed; whether the mission is active is
chosen freely; `recover_expired` and reading the list of schedules are one step,
since nothing is awaited between them and another process in between changes
nothing this call reads twice; the overlap policy is not edited; creating
schedules, notifications and the event log are left out.

### MonitoringTriggers

A pass is what `run_due_monitoring` does under `_monitoring_trigger_lock`:
`_recover_monitoring_trigger_chains`, then `_run_monitoring_trigger_policies`.
An evaluation is a policy with a diagnostic. `matched`, `suppressed`, `created`,
`failures` and `terminal` are its events in the monitoring event log (event
identifiers are deterministic and inserted once); `status` and `begun` are its
follow-up investigation and whether the journal knows its plan; `todo` is what the
loop has left, its least element by `Rank` the evaluation in hand, and `step`
where the pass is with it. Each commit is an action, so that a crash can come
between any two; other requests come in only while a follow-up executes
(`LoopIsFree`), where they may execute other follow-ups, end, or cancel pending
ones. An execution is the outline that `InvestigationLifecycle` details: refused,
opened, begun, ended or failed.

Abstractions: the diagnostics and policies a pass finds are any set, because
both change between passes; the evaluation event is left out, as it only repeats
whether the policy matches; failed events are counted up to `MaxAttempts`, the
only number they are compared with; one schedule and one process.

### AisFeed

`feed` is the closure state of `createAisWatchdog` (status, owned generation, last
generation, ladder, armed watch, key fingerprint). The two times the code
subtracts from the monotonic clock are kept as what is compared: `silent`, the
time since the socket was commissioned or delivered, and `wait`, the time until
`nextAttemptMono`. `sockets` is the adapter's map, `wire` the sockets as the
upstream sees them (also those the adapter has forgotten), `frames` the Blob frame
whose decoding is awaited, `key` the environment variable that key setup
writes. `sent` (the key with which the last socket subscribed), `restored` (the
key was changed back before an `ensure` saw the change), `refused`, `barred`, `quiet`
and `driven` are history. A socket is not bound to a key when it is commissioned: the
subscription is built when it opens and reads the environment then
(aisStreamAdapter.js:418, ais-live.js:371), so `Open` sets `sent` to the key of that
moment.

The watchdog's handlers are functions of `feed`, as in the code, which returns
actions and holds no socket; an action of the module is an event of the event
loop: `Ensure` (`configure`, `tick` and the actions they return), the handlers
`Open`, `Message`, `Defer` and `Decode`, `UnexpectedResponse`, `ErrorEvent` and
`Close` of *any* generation at any time, `SetKey`, `Dispose`, `Elapse`.

Abstractions: the content of a frame is what the adapter makes of it, a record, or an
error envelope of one of the three kinds (a malformed frame changes nothing); a
factory that throws, returns nothing or has no `on` is one failure of the new
generation; counters saturate where nothing compares them any more; the transport
module is present, so `unsupported` is never entered. One Blob frame is decoded at a
time.

### LayerLifecycle

`entry` is the entry of one layer in the manager's map: layers share nothing but the
visibility guards. `turn` is the closure of the turn of `runIntentTurn` and
`_doToggle` that has begun: whose request it is, the await it is at (`phase`), what it
works towards, whether it is aborted, whether it is the compensation of a refused
adoption, and whether the `disable()` started by `cancelEnable` is still awaited.
`strays` counts the calls of `disable()` that nobody awaits: `finishFailedEnable`
removes the listener `cancelEnable` only after its own await and after the listeners
of its settlement (lifecycle.js:907-935), so a newer request or a withdrawal in
between starts one (`AbortTurn` in phase `failed`), and it ends whenever it likes
(`StrayDisabled`). `chain` is the promise chain, `records` the answers callers wait
for, `queued`, `adopt` and `reserved` are `latestQueuedAbsoluteIntent`,
`pendingVisibilityAdoptionEpoch` and the reservation of Clear All. `module` is whether
the layer's module really polls or renders, `"revoked"` when it was turned off by such
a stray call.

A step runs from one await to the next. Synchronous callbacks can make requests:
`Reentries` puts one inside a step wherever the code after the callback depends
on it (settlement, transition, refused adoption, the notifications of a
request); elsewhere it is the next step.

Abstractions: a module is external; a call that answers has its effect, one that
it rejects may have had it; `disable()` of `cancelEnable` is subsumed in the
`disable()` that the same turn awaits before it settles; a guard answers either
way at any time; refresh epochs are reduced to whether the update in flight is
still current. Left out: the lane of parameters (its effect here, that
parameters before `enable()` may be refused, is a choice of `EnableCalls`),
restoring saved layer sets, signals of `refreshLayer`, and a module whose call
never returns.

## 3. What the runs check

| Run | Instance | Properties |
|---|---|---|
| `execution_resume` | diamond of four tasks, one retried, one coroutine that may swallow its cancellation, two at once, two executions, codec errors that raise | `UnsafeAtMostOnce`, `StrictSawAllInputs`, `ImplementsPlanExecution` |
| `execution_partial` | the same diamond, its last task accepting partial dependencies, every encoding result, two executions, fair | `StartedAfterDependencies`, `NeverStalls`, `ExecutionEnds`, `ImplementsPlanExecution` |
| `investigation` | two tasks of a plan that is not strict, three requests, crashes, fair | `ExecutionIsOwned`, `CompletedIsBacked`, `NoOrphan`, `CompletedIsFinal`, `RequestsEnd` |
| `monitoring_process` | one process, two overlapping calls, two schedules of which one allows overlap, one dispatch at a time, fair | `NoOverlap`, `ConcurrencyBound`, `LeaseHeld`, `NothingStranded`, `ClaimsSettle` |
| `monitoring_shared` | two processes at once, one may die, one schedule that is edited, two intervals, any delay | `NeverReplayed`, `NextIsFresh`, `OneRunningRun`, `SettledIsFinal`, `LostClaimsExpire` |
| `monitoring_triggers` | two diagnostics of one policy, two attempts, a budget of two, crashes, interruptions and clients, fair | `BudgetHeld`, `CooldownRespected`, `LineageIsComplete`, `EndedChainsRest`, `NotClosedUnderfoot`, `ChainsSettle` |
| `ais_feed` | two keys, three sockets, a ladder of one rung, two edits of the key, one restart, fair | `OneConnection`, `OwnedUnderItsKey`, `LiveIsHonest`, `BarredKeyIsSpared`, `SilentLosesTheSlot`, `AlwaysTriesAgain` |
| `layer_lifecycle` | four epochs, one withdrawal, fair | `SettledIsTrue`, `EffectiveIsNewest`, `OneLoop`, `GoneIsQuiet`, `GrantedToTheNewest`, `RequestsEnd` |
| `execution_replay`, `execution_sweep`, `monitoring_revision`, `investigation_wedge` | see section 4 | one violated statement each |

Bounds. Four tasks are enough for a source and its dependent, an independent source
and a task that joins both, which is every relation `finish()` distinguishes, with a
cascade of depth two. Two executions let the coroutines that an exception leaves
behind live into a resumption; the tasks 1 and 2 are retry safe, so that such a
coroutine may call a handler whose task the resumption runs as well. Two executions of
`execution_partial` have a resumption restore a join without its inputs. `MaxRuns` is
the number of executions in the engine, and of runs of one task in the lifecycle,
where one is enough: its properties ask whether a task was ever run, and repetition is
the engine's matter. In monitoring `LeaseTime = 2` with `MaxTime = 2` or `3` lets a
lease expire, be recovered, and its slot be followed by later ones; `MaxRevision = 2`
allows one edit between any two steps; each of the two calls is one contender for the
lock or for a claim, and a conflict over a claim has two parties. Three calls, three
processes and more schedules are covered by the proofs for the properties that have
one.

`MaxDisturbances = 2` allows a crash of a pass that follows a crash, or a client
and a crash; a cooldown of one and three instants have a match inside and one
outside of it; a budget of two is what one chain, recovered and tried again, and
another one can exceed.

In `ais_feed` `MaxGen = 3` sockets leave the ladder of one rung, are down and try
again; `Stale < Recycle < AuthProbe` are in the order of the code's two, five and
sixty minutes, and a Retry-After of two is longer than the rung; `MaxEdits = 2` lets
the key be changed, and changed back between two calls of `ensure`; `MaxDisposals = 1`
lets any socket be one of the former server. The keys are interchangeable, so `MCSpec`
does not begin with the second one. In `layer_lifecycle` `MaxEpoch = 4` is a request
at work, one that supersedes it, one made by a callback while the second settles, and
a destruction or a last request after them; `MaxWithdrawals = 1`; one Clear All at a
time. The safety properties of both are proved for all bounds.

The passing runs have, in the order of the table, 470,773, 441,523, 467,943, then for
monitoring 121,830 and 426,382, and 172,032, 150,489 and 1,359,891 distinct states. Type
invariants are proved (section 5) and not repeated as properties of the runs.

`CHECK_DEADLOCK FALSE` is set where the systems stop by design: after
the last execution, request or call, or at the last tick. The vessel feed never
stops, and `ais_feed` checks deadlock.

Fairness. `ExecutionEngine`: weak fairness of the scheduler, of `finish()`, of each
coroutine and of the delivery of a cancellation - an event loop runs what is runnable,
and handlers are assumed to return (the code bounds them with `timeout_seconds` where
it is set). `InvestigationLifecycle`: weak fairness of each request between awaits,
and of the end of the execution, which is what `ExecutionEnds` shows of the engine.
`MonitoringScheduler`: weak fairness of each call's claiming, dispatches and
gathering; heartbeats and the clock need none. `MonitoringTriggers`: weak fairness of
the pass, which the poller of `api.py` begins again and again, and strong fairness of
the end of other requests' executions, which run when the pass awaits. `AisFeed`: weak
fairness of `Ensure`, which an interval of 15 s calls (ais-live.js:340) and a restart
of the server starts again (ais-live.js:357-359), and of time; the upstream owes
nothing, not even an answer to a handshake. `AlwaysTriesAgain` is also met once
`MaxGen` sockets have been commissioned, where the model can try no more.
`StrayDisabled` of the layers is under no fairness. `LayerLifecycle`: weak fairness of
`Work`, the steps of the event loop and the answers of the guards and the module - a
module whose call never returned would block its layer for good, in the code as well.
Nobody is obliged to start, resume, cancel, edit, toggle or crash anything.

## 4. What the code does not satisfy

Each of these is a run that expects a violation, or was found while modelling.

- `execution_replay`: `finish()` (execution.py:212-239) does not look whether a
  dependent already has a result. When a checkpointed task accepts partial
  dependencies and one of them, failed before, is run again on resume, the
  checkpointed task is started again, although it is not retry safe. The roadmap says
  that resumption replays a task only "when its contract declares retry safety".
  `AtMostOnce` (section 5) shows that strict plans are safe.
- A coroutine that an exception left behind can call the handler of a retry-safe task
  after the task's checkpoint, and after the investigation is COMPLETED: a resumption
  has run the task beside it. `PlanExecution` therefore has `strays`, and
  `CompletedIsFinal` speaks of the record of the investigation and of executions, not
  of handlers: those of strays may still be called.
- An output that cannot be encoded leaves a task SUCCEEDED without a checkpoint
  (execution.py:187-192), as docs/architecture/QUERY_PIPELINE.md:45 intends, and a
  resumption then restores tasks without their dependencies. In a chain of four
  retry-safe tasks of which only the second has a checkpoint, it runs the first and
  the third side by side; the first restarts the second; the third fails and the
  fourth is skipped; then the second ends and starts the third again, which succeeds.
  Nothing is FAILED or CANCELLED any more and the outcome is SUCCEEDED, with a SKIPPED
  task. For the same reason a task that such a restart started can still be running
  when everything has a result and `execute()` returns. `PlanExecution` and
  `CompletedIsBacked` therefore promise that all tasks succeeded only of executions
  whose restored checkpoints are `closed`, and `StartedAfterDependencies` speaks only
  of those. TLC finds the trace with a module that extends `MCExecutionEngine`, one
  attempt and two executions.
- Resuming a PARTIAL investigation whose plan aggregates partial dependencies, as
  those of `workflows.py` do, runs a checkpointed aggregation again when its failed
  acquisition is retried (as in `execution_replay`); if its output differs, its second
  checkpoint conflicts with the first and raises out of `execute()`.
- `execution_sweep`: the epilogue iterates over a snapshot of `remaining`
  (execution.py:326) while cascading skips shrink it, and finishes a SKIPPED task
  again as CANCELLED.
- `monitoring_revision`: the run records the revision that `claim_due` reads, the
  acquisition uses the schedule listed before (monitoring.py:1441-1461).
- `investigation_wedge`: RUNNING is committed before the journal knows the plan
  (runtime.py:2647-2651); a crash in between leaves an investigation that can be
  neither started nor resumed.
- A value whose type has no codec raises a plain `TypeError`
  (execution_journal.py:124) that `finish()` does not catch, so `execute()` raises
  instead of leaving the output uncheckpointed as
  docs/architecture/QUERY_PIPELINE.md:45 says. `RaiseFromFinish` models it.
- With several processes over one database, `NoOverlap` fails: a claim that waits for
  the semaphore is not renewed, can be expired by the other process, and is executed
  when its turn comes while the next occurrence runs. docs/development/SETUP.md
  excludes that deployment; `NoOverlap` is checked for one process.
- A failed attempt of `_recover_monitoring_trigger_chains` records no failed event, so
  that `retries_exhausted` never holds for a chain that fails there: a wedged
  follow-up (`investigation_wedge`) whose diagnostic has left the comparison is
  retried at every tick and takes its share of the budget, all of it when
  `max_triggered_investigations_per_tick` is one. `ChainsSettle` therefore excludes
  wedged chains, and its run has a budget of two.
- A refused resumption of a PARTIAL or CANCELLED investigation runs the except branch
  (runtime.py:2672-2677) and turns it FAILED. No property excludes it.
- A second cancellation of the caller while the engine drains passes the except branch
  as a `CancelledError`: the investigation stays RUNNING without an owner until it is
  resumed. `Interrupt` models it and `NoOrphan` excepts cancelled executions.
- `ConcurrencyBound` is about one process. With several, a `finish()` that finds its
  run settled by another raises out of `gather`, releases the run lock while siblings
  execute, and the next call begins with a semaphore of its own (monitoring.py:1457).
- The watchdog compares keys only when `ensure` runs. If the key is changed and
  changed back between two calls of it, and the socket opens in between, the socket
  has subscribed with a key that the watchdog never saw, and a refusal of it is
  charged to the one it knows. `OwnedUnderItsKey` excepts exactly that (`restored`).
- `finishFailedEnable` leaves `cancelEnable` registered until lifecycle.js:934. A
  newer request in between - from a listener of the failure, or while its `disable()`
  is awaited - starts another `disable()` that nobody awaits and that may land after a
  later turn has turned the layer on: it then rests ON and certain while its module is
  off. The comment at lifecycle.js:862-864 says of the same listener, in
  `finishCancelledEnable`: "Release that signal's listener now so a later abort cannot
  revoke a successful retry." `SettledIsTrue` says that this is the only way to lose a
  module that is certainly ON (`"revoked"`). That ON is kept once no stray call is
  outstanding is refuted by TLC in ten steps: `SetEnabled` (on), `ToggleTurn`,
  `GuardPasses`, `Initialised` (fails), `FailureCleanedUp` (unsuccessfully) with a
  request to turn off from a listener, `ToggleTurn`, `GuardPasses`, `DisabledRejected`
  by an `AbortError`, `Reenabled`, `StrayDisabled`.
- A layer can rest in "enabling" or "disabling". The comment at lifecycle.js:1341 says
  that stale transitional presentations are settled "rather than orphaning
  ENABLING/DISABLING forever", and the idempotent exit does so; but when an aborted
  turn defers its settlement to the newest request and a guard refuses that request
  (lifecycle.js:688-710), or its caller withdraws it there, nothing does.
  `LayerProps!PresentationSettles` states it; TLC refutes it with two epochs in seven
  steps: `SetEnabled` (on), `ToggleTurn`, `GuardPasses` with a request to turn off
  from the presentation callback, `Initialised`, `CleanedUp` whose `disable()` is
  rejected, `ToggleTurn`, `GuardRefuses`.
- `destroyLayer` that keeps a layer because `disable()` was rejected
  (lifecycle.js:2138-2145) does not set `lifecycleUncertain`, contrary to the comment
  at lifecycle.js:140 ("A lifecycle rejection can leave the module's real state
  unknowable"): a later request for the same state is granted without reconciling.
  `SettledIsTrue` excepts a layer retained that way.
- After a cancelled disable whose compensation turned the layer on again
  (`finishCancelledDisable`, lifecycle.js:719-794) the layer may be settled ON,
  certain and without an update loop, when the abort came after the timer was cleared
  (lifecycle.js:823-830): nothing arms the loop again. `OneLoop` therefore bounds the
  loops from above only.
- An update that resolves while `enabled` is false and its epoch is current returns
  before it clears `refreshing` (lifecycle.js:319-327), so that refreshes are
  suppressed until the next `_invalidateRefresh`. `Refreshed` models it.
- The idempotent exit (lifecycle.js:1340-1364) publishes its success even when the
  presentation callback inside it has made a newer request. `GrantedToTheNewest`
  demands that the request be the newest only of turns that had to work.

## 5. What is proved

With TLAPS, for every value of the constants that the `ASSUME`s allow (they
restate the validators of `Task`, `ExecutionPlan` and `MonitoringService`): every
safety invariant and every safety action property that a passing run checks, and
the refinement of `PlanExecution`. A strengthening that is not type correctness was
checked by TLC on the instances of section 3 before it was proved.

Some theorems have a hypothesis about the constants, because the code needs it:

- `StrictPlan` (no task accepts partial dependencies, and an output that cannot be
  encoded raises): only for `AtMostOnce`, since `execution_replay` shows what a
  resumption of other plans does to a task that is not retry safe.
- `FirstOrStrict` (the plan is strict, or executed once): only for `AllInputsSeen`,
  since a task that is started beside a restarted dependency misses its output.
- `OneProcess` (one process over the repository): with several, a process may give
  up a lease that another one still works under (section 4). The properties that do
  not depend on it are proved without it.

| Theorem | Statement | Argument |
|---|---|---|
| `ExecutionEngineProofs!TypeCorrect` | `Spec => []TypeOK` | inductive |
| `ExecutionEngineProofs!AtMostOnce` | for strict plans, `Spec => []UnsafeAtMostOnce` | `SafetyInv` |
| `EngineRefinementProofs!LoopNeverStalls` | `Spec => []NeverStalls` | `SchedulerInv`; of unresolved tasks, the first in a topological order waits for none |
| `EngineRefinementProofs!DependenciesFirst` | `Spec => []StartedAfterDependencies` | `SchedulerInv`, and `GraphInv` for executions that restored closed checkpoints |
| `EngineRefinementProofs!AllInputsSeen` | with `FirstOrStrict`, `Spec => []StrictSawAllInputs` | `GraphInv` |
| `EngineRefinementProofs!SchedulerImplements` | `Spec => ImplementsPlanExecution`, for every plan | `ContractInv`, then per action a step of `PlanExecution` or a stutter |
| `InvestigationProofs!LifecycleTypeCorrect` | `Spec => []TypeOK` | `LifecycleInv` |
| `InvestigationProofs!ExecutionOwned` | `Spec => []ExecutionIsOwned` | `LifecycleInv` |
| `InvestigationProofs!CompletionBacked` | `Spec => []CompletedIsBacked` | `LifecycleInv` |
| `InvestigationProofs!NoneOrphaned` | `Spec => []NoOrphan` | `LifecycleInv` |
| `InvestigationProofs!CompletionIsFinal` | `Spec => CompletedIsFinal` | `LifecycleInv`: a request opens only what is not completed, and nothing executes while it is |
| `MonitoringProofs!TypeCorrect` | `Spec => []TypeOK` | inductive |
| `MonitoringProofs!SlotsAreFresh` | `Spec => []NextIsFresh` | every step moves `next` forwards, an edit moves it beyond the present, and no claimed slot or instant lies in the future |
| `MonitoringProofs!AtMostOneRunningRun` | `Spec => []OneRunningRun` | a run becomes running only in a claim, which finds none |
| `MonitoringProofs!OutcomesAreFinal` | `Spec => SettledIsFinal` | with `SlotsAreFresh`, a claim never falls on a settled occurrence; every other write of a status is guarded by "running" |
| `MonitoringProofs!NeverExecutedTwice` | `Spec => []NeverReplayed` | an occurrence is claimed once, its dispatch only moves forwards |
| `MonitoringProofs!LostClaimsRecovered` | `Spec => LostClaimsExpire` | only `AcquireLock` brings a call to the lock, and it expires every lease that is over |
| `MonitoringProofs!LeasesHeld` | with `OneProcess`, `Spec => []LeaseHeld` | `HolderInv` |
| `MonitoringProofs!NoneStranded` | with `OneProcess`, `Spec => []NothingStranded` | `HolderInv` |
| `MonitoringProofs!ExecutionsApart` | with `OneProcess`, `Spec => []NoOverlap` | `HolderInv`: both would have running runs, and `AtMostOneRunningRun` |
| `MonitoringProofs!ConcurrencyBounded` | with `OneProcess`, `Spec => []ConcurrencyBound` | `HolderInv`: what a process executes belongs to one call, whose semaphore bounds it |
| `TriggerProofs!TypeCorrect` | `Spec => []TypeOK` | inductive |
| `TriggerProofs!BudgetIsHeld` | `Spec => []BudgetHeld` | `BudgetInv`: nothing is launched before the policies begin, nothing is used between passes |
| `TriggerProofs!CooldownIsRespected` | `Spec => []CooldownRespected` | inductive; only a match outside of every other's cooldown is stamped, and only once |
| `TriggerProofs!LineageIsKept` | `Spec => []LineageIsComplete` | `ChainInv`: what is known of the evaluation in hand at each step of the pass |
| `TriggerProofs!EndedChainsAreLeft` | `Spec => EndedChainsRest` | `ChainInv`: the chains in hand have no terminal event |
| `TriggerProofs!NoneClosedUnderfoot` | `Spec => NotClosedUnderfoot` | `OthersInv` (what clients execute is running), and every place that appends a terminal event does so of a follow-up that has ended or whose attempts are used up |
| `AisFeedProofs!TypeCorrect` | `Spec => []TypeOK` | inductive |
| `AisFeedProofs!AtMostOneConnection` | `Spec => []OneConnection` | `SocketsInv`: the adapter's map holds at most the owned generation, every live socket is in it, and no generation is issued again |
| `AisFeedProofs!VerdictIsAboutTheKey` | `Spec => []OwnedUnderItsKey` | `KeyInv`: a socket is released whenever another fingerprint is taken, and without one there is none; one that opens subscribes with the present key, which is the known one or about to be found changed |
| `AisFeedProofs!LiveIsBacked` | `Spec => []LiveIsHonest` | `LiveInv`: a live feed owns a socket, and `quiet` is no longer than its `silent` |
| `AisFeedProofs!RefusedKeysAreSpared` | `Spec => BarredKeyIsSpared` | `BarInv`: `refused` is exactly auth-failed, and what is barred is waited for unless its one probe is under way |
| `LayerProofs!TypeCorrect` | `Spec => []TypeOK` | inductive |
| `LayerProofs!SettledIsTheModule` | `Spec => []SettledIsTrue` | `LayerInv` |
| `LayerProofs!LoopIsSingle` | `Spec => []OneLoop` | `LayerInv` |
| `LayerProofs!GoneLeavesNothing` | `Spec => []GoneIsQuiet` | `LayerInv` |
| `LayerProofs!OnlyTheNewestIsGranted` | `Spec => GrantedToTheNewest` | `LayerInv`, and per action that a step grants nothing but the turn's own request |
| `LayerProofs!NewestIsEffective` | `Spec => []EffectiveIsNewest` | `LayerInv` and `Speaks` |
| `LayerProofs!RequestsServed` | `Spec => []NoneForgotten`: at rest every request has its answer | `Served` |
| `LayerProofs!AnswersAreFinal` | `Spec => AnswersStand`: no answer is changed | `Served`: a turn answers its own request, which has none |

**Engine.** `UnsafeAtMostOnce` is not inductive. `SafetyInv` adds what makes it so:
`JournalledFirst` (a journal entry precedes every future and every call),
`OneCaller` (at most one coroutine is about to call the handler of an unsafe
task, and only if nobody has), `UnresolvedGraph` and `LoopFresh` (how an unresolved
task looks to the loop, and that it has not been started), `CheckpointsClosed`
(checkpoints are closed under dependencies - the part that needs the plan to be
strict, and that fails in `execution_replay`), and `CallsNest` (`finish()` calls do
not outlive the phase that made them).

`SchedulerInv` is about the loop's own books, and holds for every plan. `OneFinish`:
what remains is what has no result, but for the task a `finish()` call is about to
record. `NothingLost`: a remaining task that waits for nothing is ready, running or
in `finish()`, and one that waits has a dependency that will still tell it - so the
loop cannot stall. `FuturesHeld`: the futures that live are those of the dictionary.
`TokenSet`: nothing is cancelled before the token is. `SweepNests`: what the
epilogue's `finish()` calls skip lies behind the swept task in the plan.
`GraphInv` relates results to starts: a dependency that is no longer waited for has
an outcome its dependent accepts, a strict task holds its inputs from its start on,
and nothing is skipped unless something failed or was cancelled. For a
plan that is not strict it may fail on a resumption; `ClosedInv` therefore has it (but
for the inputs) of executions that restored `closed` checkpoints, which is decided
once, at their beginning. `ContractInv` adds `JournalledFirst` and, for strict plans,
`SucceededIsSecured` - what succeeded is what is checkpointed - and then the value that
`execute()` returns is one that `PlanExecution` may return.

**Lifecycle.** `LifecycleInv` is `CompletedIsBacked` and `NoOrphan` with
`OneInFlight` (the active request is the one between its registration and its
`finally`, and the engine executes exactly while it awaits), `Established` (what
the commits before each await have established, e.g. a result that is about to be
completed is listed, indexed, and lists what its outcome says, `HonestOutcome`) and
`SuccessRan` (a task that succeeded or has a checkpoint was run). It is
proved over the actions of `PlanExecution`, hence of any engine that implements it.

**Monitoring.** `HolderInv` is what one process adds: one call holds the lock
(`OneHolder`); an unfinished dispatch belongs to it, its run is running, and
`run_due` leaves nothing of its claims running (`HeldClaims`); and it is within
its semaphore (`SemaphoreHeld`). Leases do not occur in it: in one process only a
call that has the lock expires runs, and it has no dispatch of its own yet.

**Layers.** `LayerInv` is type correctness with three parts. `Sound` holds within a
step as well as between steps: the timer is the interval's, a layer that is off has
none, and no turn is ahead of the newest epoch. `OfTurn` says what each await implies:
a turn works for what its request wanted unless it compensates, only an enabling one
is at `init`, `enable` or `update`, an adoption finds the layer as wanted, a clean-up
has no timer. `Agrees` relates the entry to the module and to the destruction: when no
call of the module is pending, a layer that is off has its module off, one that is
certainly on has it on unless a stray call revoked it, and a destruction past `drain`
has no turn left. Callbacks that request are handled once, by `ReentryLemma` and
`SettlementLemma`: a request changes nothing that these parts speak of (`Like`).
`Speaks` says that a request without an answer which has the newest epoch is the
queued one, with the visibility that it or its compensation wants, and that epochs not
yet issued have no answer. `Served` says that a request without an answer has exactly
one turn, under way or to come, and that no other has one. Both are kept within a
step, together with the answers already given (`Kept`), because callbacks read the
layer and make requests in the middle of one. `NoneForgotten` and `AnswersStand` are
stated with their proofs; no run lists them.

## 6. Only model-checked

Liveness under fairness, and `ENABLED`, are out of the prover's reach and stay with
TLC: `ExecutionEnds`, the `RequestsEnd` of the lifecycle and of layers,
`ClaimsSettle`, `ChainsSettle`, `SilentLosesTheSlot` and `AlwaysTriesAgain`. The
statements that section 4 refutes are counterexamples of TLC. No module uses a
RECURSIVE operator.

## 7. What is left

The modules were written with the most important behaviour first: engine and
journal, monitoring, lifecycle over the abstract engine, trigger policies, the
vessel feed, layers. Worth adding next:

1. The lane of parameters and the restore of saved layer sets
   (lifecycle.js 1600-2097), over `LayerLifecycle`.
2. `EventBus` of the APP, with an abstract ordered stream it implements: replay,
   hand-over to live delivery, overflow and close.
3. `AgentSession`: turns against the revisioned session store (agent.py).
4. An abstract follow-up that both `MonitoringTriggers` and
   `InvestigationLifecycle` implement, in place of the outline of an execution.
5. Proofs: an abstract ledger of occurrences that `MonitoringScheduler` implements
   (claimed once, settled once), from the lemmas of `MonitoringProofs`; that a feed
   without a connection has an attempt scheduled, which is what `AlwaysTriesAgain`
   needs besides fairness.

Not modelled, and why: planning, perception, reasoning, science, rasters and
governance compute values from data without concurrency or failure handling of
their own; connectors, caches, Earth Memory and the stores of the APP are I/O behind
task handlers or request handlers; API, UI, SDK and CLI are the environment of the
models. Most of the Earth view is drawing, scene scripts, event data sets,
formatting, per-request proxies and QA scripts: what it does is decided by data
and by the renderer, not by an order of steps that a model checker could vary.
The frontend keeps no state of its own beyond what its requests return.
