# Verification of the Hive SDK core

This directory holds TLA+ specifications of the parts of `src/packages/core` whose correctness depends on
interleavings, crashes and retries, TLC configurations that check them on small instances, and proofs that TLAPS
checks for every value of the constants. Paths below are relative to `src/packages/core/src/`.

1. [The system](#the-system)
2. [The modules](#the-modules)
3. [What each run checks](#what-each-run-checks)
4. [Fairness](#fairness)
5. [What is proved](#what-is-proved)
6. [Where the documentation promises more](#where-the-documentation-promises-more)
7. [What is only model-checked, and what is not modelled](#what-is-only-model-checked-and-what-is-not-modelled)
8. [Plan](#plan)
9. [Running the checks](#running-the-checks)

## The system

Hive SDK is a TypeScript library (Bun) for building assistants out of language-model agents. One process hosts a
coordinator agent that answers users on several channels and delegates work to worker agents. Everything that must
survive a restart lives in HiveDB, a document store with a version number per row and conditional puts. JavaScript
runs one callback at a time, so the unit of atomicity is the code between two `await`s; everything else interleaves.

### Components, their state and their operations

| component | state | operations |
|---|---|---|
| job store, `gateway/job-store.ts` | the `jobQueue` collection: status, `attempts`, `retry_count`, `not_before`, owner `boot_id`, lease | create, claim, renew, complete, fail, fail-or-retry, reclaim-or-interrupt, cancel |
| durable queue, `gateway/durable-queue.ts` | `runningCount`, `runningAborts`, `dispatchTimers`, the maintenance timer | enqueue, dispatchLane, executeJob, cancel, cancelLane, start, stop, the tick |
| boot reconciliation, `storage/reconcile.ts`, `storage/boot-id.ts` | none of its own | take back orphaned jobs, runs, tasks; retention |
| delegation groups, `gateway/delegation-groups.ts`, `tools/agents/index.ts` | the `delegationGroups` collection, the registered summary enqueuer | register, record an outcome, seal, finalize |
| DAG scheduler, `swarm/Coordinator.ts`, `TaskGraph.ts`, `TaskNode.ts`, `AgentExecutor.ts` | node status, retry counts, ready queue, running promises, `aborted` | execute, drain, launchNode and its callbacks, abort |
| cron, `scheduler/CronScheduler.ts`, `scheduler/cron/` | persisted tasks; armed timers, run counters, busy flags | boot, activate, execute, pause, resume, trigger, delete, cleanup |
| agent runs, `agent/run-store.ts` | the `agentRuns` collection: counters, checkpoint, owner, lease | create, checkpoint, bumpTurn, complete, fail, interrupt, reclaim |
| durable loop and executors, `agent/agent-loop.ts`, `harness/executors.ts`, `agent/goal-runner.ts` | where an executor is, what its messages tell, the abort signal | restore, iterate, checkpoint, synthesize, judge, complete the task; goal turns |
| document helpers, `storage/hive.ts` | counters, rollups | nextId, updateDoc, bumpRollup |
| tool runtime, `tool-runtime/index.ts` | queue of calls, worker slots, timers | execute, abortBatch, finishJob, dispose |
| worker pool, `workers/WorkerPool.ts` | idle and busy workers, polling waiters | acquire, release, shutdown |
| delegation runtime, `agent/delegation-runtime.ts` | reference-counted MCP leases with an idle timer | acquire, release |
| MCP client, `mcp/MCPClient.ts` | one connection record per server | connect, disconnect, call |
| circuit breaker, `resilience/circuit-breaker.ts` | state and counters | execute with calls in flight |
| in-memory lane queue, `gateway/lane-queue.ts` | a queue and the running task per session | enqueue, process, cancel |

The rest (prompts, context selection, channels, gateway server, tools, skills, plugins, canvas,
voice, images, services, configuration, the command line) is a sequential dialogue with a model, text processing,
CRUD or I/O. `PROJECT.json` lists every part with the reason it is left out.

### How they interact

* `task_delegate` and `task_revise` register a task in the delegation group of the turn and then **enqueue** a
  `worker_task` job. The queue **dispatches** it to an executor, and the queue's **terminal hook** for that type
  **records** the outcome in the group. The host **seals** the group when the turn ends. Whoever comes last enqueues
  one chat turn, which goes through the queue again.
- The queue changes rows only through the job store. At boot `reconcileOnBoot` takes back the rows of dead processes
  before the host registers executors and calls `start()`.
- An executor holds an `AgentRun` row beside its job row; both carry a lease and a boot id.
- A delegation holds **leases** on the MCP servers its worker needs; the idle timer of a lease, the hot reload of the
  `mcpServers` rows and the coordinator's own turns open and close the same connections through `MCPClientManager`.
- The cron scheduler **fires** prompts into a handler of the host and persists the outcome beside the armed timers.
- The DAG scheduler is independent of the queue: one call of `execute()` runs one graph in memory and reports through
  the agent bus.

### What is hard here

Two dispatches that race for a row; a timer that fires while the work it guards is finishing; state read before an
`await` and used after it; a crash between a claim and its result; leases that lapse under a live owner (a suspended
laptop); a cancel that arrives at each of these moments; hooks that run twice or never; errors after half of a
multi-step operation; callbacks of parallel attempts that all drain one queue. `PROJECT.json`, `hazards`, lists them at
their lines, with the property that would notice.

### What makes each component correct

* **Job store.** A row has an owner and a lease exactly while it runs. The claim has one winner. A settled row is
  final. Retries and reclaims together stay within a budget. No write is computed from a stale copy.
- **Durable queue.** The running count is exact, no job is executed twice at once, nothing stays `running` with nobody
  to finish it, cancel reaches whatever executes, the hook hears of a job once and truthfully, every job settles.
- **Delegation groups.** One summary, complete, and always sent unless something failed; a claim to send it is never
  left behind; the group only moves forward.
- **DAG scheduler.** Dependencies first, at most *n* attempts, none twice; failures reach exactly the dependents;
  the report is final; abort starts nothing; `execute()` returns.
- **Cron.** One chain of scheduled runs per Cron, never armed beside itself; memory follows the row after any sequence of
  calls, failures and restarts; no failure is lost, and a task that failed too often stays paused; the calendar misses,
  invents and doubles no occurrence when the clock of the zone jumps.
- **Agent runs, loop, executors.** A restarted worker knows every tool call that was executed; iteration and goal budgets
  hold over all the processes that share a run; the task tells what became of its job; no run says `running` with nobody at
  work; every job ends.
- **Tool runtime.** Every call is answered once; none waits beside a free worker; an aborted turn starts nothing more and
  comes back; every batch comes back even if its tools hang.
- **Leases, pools, breaker.** A server stays connected while a delegation holds it and is given up when none does; the
  manager follows the configured rows; a worker is idle or serves one task and never gets lost; calls admitted in an
  earlier phase of the breaker cannot open the gate for unboundedly many probes.

## The modules

| module | models | role |
|---|---|---|
| `JobDoc` | the row and what each store function computes from it | shared by all queue modules |
| `JobPromise` | what a caller of the queue is promised about one job | abstract specification |
| `JobStore` | `job-store.ts`, each function one atomic step | implements `JobPromise` |
| `JobStoreOCC` | the read / guard / conditional-put loops, callers interleaving | implements `JobStore` |
| `DurableQueue` | `durable-queue.ts`, crash, `reconcileOnBoot` | its writes implement `JobStore` |
| `DelegationGroups` | `delegation-groups.ts` and the tools that drive it | |
| `DagScheduler` | `Coordinator.execute()` with graph, nodes and executor | |
| `ToolWorkerPool` | batches of tool calls over the pool of workers of `tool-runtime/index.ts` | |
| `CronJob` | the timer and flags of one `Cron`, `cron/job.ts` | operators of `CronScheduler` |
| `CronScheduler` | `CronScheduler.ts`: row, Crons, executions, API calls, boot | |
| `CronClock` | expression fields, the zone's clock, the search for the next occurrence | |
| `AgentRunDoc` | the `agentRuns` row and the patches of `run-store.ts` | shared by the executors |
| `HarnessHost` | task tools and `runGoal` that enqueue, the queue as an executor sees it, cancel, crash, `reconcileOnBoot` | surrounds the executors |
| `WorkerTask` | `workerTaskExecutor` and the durable loop of `agent-loop.ts` in it | on top of `HarnessHost` |
| `GoalRun` | `goalRunExecutor` | on top of `HarnessHost` |
| `McpLinks` | one MCP server: leases, idle timer, hot reload, wake, the manager | composes four source files |
| `CircuitBreaker` | `resilience/circuit-breaker.ts` with calls in flight | |
| `WorkerPool` | `workers/WorkerPool.ts`: pool and batch loop | |
| `JobStoreProofs`, `JobStoreOCCProofs`, `DurableQueueProofs`, `DelegationGroupsProofs`, `DagSchedulerProofs`, `CronSchedulerProofs`, `HarnessProofs` | theorems about the module or the modules they are named after | each extends what it proves about |
| `LinksProofs` | theorems about `McpLinks`, `CircuitBreaker`, `WorkerPool` and `ToolWorkerPool` | |
| `MC*` | inputs of the small instances | |

The four queue modules form a stack. `JobStoreOCC` shows that the loops behave as atomic steps, which is what entitles
`DurableQueue` to make each store call one step; `DurableQueue!UsesStore` shows that whatever the queue does to the
table, `JobStore` allows; `JobStore!PromiseKept` shows what that means for a caller.

**`JobDoc`.** A row keeps status, `attempts`, `retry_count`, `boot_id`; the clock is reduced to what guards compare:
`due` says `not_before` has passed, `lease` is none, live or expired. `info` is what `createJob` writes once (lane,
type, priority, key). Payload, result, error text and timestamps no guard reads are left out. `Claimed`, `Completed`,
`FailedOrRetried`, `Reclaimed`, `Cancelled` are the objects the functions put; `Claimable`, `Owned`, `Reclaimable`,
`Cancellable` are their early returns.

**`JobStoreOCC`.** A call is `idle`, about to read, or about to put with the copy and version it read. `PutConflict`
counts attempts up to `MAX_RETRIES`. Time passes for a row and for copies of it alike, because the timestamps
themselves do not change. The version check of HiveDB is what the code assumes of it.

**`DurableQueue`.** A function is cut at its awaits: `dispatchLane` is `FireTimer`, `FindJob`, `ClaimJob`, `Launch`;
`executeJob` is `Settle` (the executor's answer), `StoreResult`, `RunHook`, with `Finish` (the `finally` block) part of
the last one that applies; `cancelLane` has an action per awaited call of each of its two loops. Executors are external:
an execution may end with any result, in any order, at any time; it ends with an `AbortError` only after its signal.
`Timeout` is `taskTimeoutMs`. `Crash` keeps the collection and resets everything in memory. `hooks` and `lost` are
history variables. Three constants switch the environment: `ClockMayJump` (a lease expires under a live executor),
`MayGiveUp` (a store call loses every race), `MayStop`. Left out: `maxGlobalConcurrency` changing at run time and what
executors do beside settling.

**`DelegationGroups`.** Groups share nothing, so there is one. `at[c]` is the await at which call `c` is suspended;
`Calls` names one call per registered task, per job that reports, and the seal. `mutate()` is atomic for the reason
`JobStoreOCC` gives, and may throw. `trouble` records what went wrong, so that properties can say "unless something
failed". A job may report more than once, since the queue's hook can.

**`DagScheduler`.** An attempt is a pair of a node and its retry number. A step is a callback: `Answer` (then), `Throws`
and `Expire` (catch, the second with the agent still at work), `Release` (finally, which drains), `Wake` (the loop of
`execute()` after its race). `Doomed` states `propagateFailure` as a least closed set instead of its recursion.
`strategy.pick` is an interface, so any choice of queued nodes is allowed. The branch that naps for 10 ms cannot be
taken while `maxConcurrentWorkers` is positive, which `QueueIsReady` and `WorkerBound` imply; with 0 it loops for ever.

**`ToolWorkerPool`.** Everything in the pool runs synchronously inside a callback, so an action is a callback with the
`drain()` it ends in, and the state after it is the state the next callback meets. `slots` keeps the order of the array
`workers`, because `abortBatch` depends on it: `Struck` says which slots its loop really visits while `finishJob` splices
the array under it. `Drain` states the effect of its loop at once: the oldest calls get the idle slots in order and then
new ones. A call whose tool belongs to the main thread goes through `AskMain` and `MainReturns`; the tool may still be at
work there when its call has long been answered. Tools and workers are external and may hang. Left out: batches of one
call and builds without workers, which run on the main thread; hooks around a batch; the order of results; `getPool`
replacing a pool whose size changed, without disposing of the old one.

**`CronJob`, `CronScheduler`.** One persisted task: the row, the Crons made for it (`crons`, of which `jobs` is the one in
the map), the executions in flight, and where each API call is between its awaits with the document it read. `activate`
is `ActivateStop` up to its await and `ActivateStart` or `TooManyErrors` after it; `execute` is read, work, then complete
and retire, or count, pause, deactivate, notify, end. `updateJob` is one step for the reason `JobStoreOCC` gives. Whatever
is awaited may throw (`Throws`): after the handler succeeded this counts as a failure like any other (`Fails`,
`CompleteThrows`); before the `try` and in the catch block `execute` itself rejects (`Rejects`), and the error handler of
the Cron, `handleError`, counts one more error without a look at `MAX_ERRORS` (`HandleError`, by then detached from the
execution); an API call breaks off where it is (`BreakOff`). `Crash` and `CallBoot` are a restart, with both misfire
policies and a grace that may be over. `failures`, `rejected` and `upset` are history.

**`CronClock`.** Time is a number of half hours; `Wall` is what the clock of the zone shows, which jumps forward once and
back once. `Expand`, `Fields`, `Matches` are the expression; the search is compared with `DueRef`, which looks at
every instant instead of skipping over days. The small calendar has its own lengths of day, week and month.

**`AgentRunDoc`, `HarnessHost`, `WorkerTask`, `GoalRun`.** One delegated task, with the jobs and runs its revisions create,
or one goal. `ex[j].at` is the await at which the executor of job `j` is suspended; a round of tool calls is one step,
named by the model call that asked for it, so "ran" and "known" can be compared after a crash. Any outcome the code tells
apart may come from the model, the tools, the acceptance checks and the verifier. `DurableQueue` checks how the queue
drives a job; here a job has one executor at a time. A write may throw (`faults`), with the effect its caller's `catch`
gives it. `past` is history: every model call, the tool calls executed since `completeRun` or `failRun` last cleared the
checkpoint, how often that happened (`cleared`), and when the task may not know how its job ended. A retry after `failRun`
starts the same run with no iterations and no memory of its tools; the properties say so instead of passing over it.

**`McpLinks`.** `srv` is the entry of the manager, `lease` the entry of `mcpLeases`; a connect in progress belongs to an
actor (a delegation, the timer, a sync, the coordinator's turn) and ends in that actor's step, so connects overlap as
they do in the code. `upset` records which unguarded overlap has happened, so a property can name the case it excludes;
`PrepareFails` is the new server whose arguments or headers cannot be read: it is remembered as known and never tried again.

**`CircuitBreaker`.** The code keeps one counter; `probes` and `strays` are history and tell which calls this half-open
period really admitted.

**`WorkerPool`.** `executeWithConcurrency` races the promises of its set and deletes the one it just added, not the
one that ended; the model keeps both the set and who is really running. `Shutdown` empties the pool whoever waits.

**`MCLinks`** explores these last three, which share nothing, in one run: `scene` says which of them moves.
`MCCronScheduler` treats the calendar and the scheduler in the same way.

## What each run checks

| run | configuration | instance | states | shows |
|---|---|---|---|---|
| `job_store` | `MCJobStore` | 2 rows, 2 boots, 2 attempts, 2 retries | 4 k | row discipline, finality, refinement of `JobPromise` |
| `job_store_occ` | `MCJobStoreOCC` | 1 row, 3 callers, 5 calls, 2 boots | 0.66 M | no stale winner, refinement of `JobStore` |
| `queue_crash` | `MCQueueCrash` | 2 jobs (work or chat), 2 lives, 2 slots, 2 dispatches | 1.0 M | execution in turn, the cap, cancel, reports across crashes; nothing stranded |
| `queue_trouble` | `MCQueueTrouble` | 1 job, with a key or of an unknown type, 1 cancel call | 1.3 M | exact counters, and that the queue writes only what the store allows, when leases lapse, store calls give up, the host stops and starts |
| `queue_live` | `MCQueueLive` | 2 jobs, 2 lives, fair | 0.14 M | every job settles; a job that ran does not end silently |
| `delegation` | `MCDelegation` | 2 tasks, all troubles, fair | 0.17 M | one complete summary, sent unless something failed |
| `dag` | `MCDag` | 5 nodes, 2 slots, retries, abort, fair | 54 k | order, bound, queue, failures, report, abort, termination |
| `tool_pool` | `MCTool` | 2 batches of 3 and 2 calls, 2 of them on the main thread, 2 workers, fair | 0.31 M | calls accounted for, abort starts nothing, every batch returns |
| `cron` | `MCCron` | a recurring task or a one_shot, 1 caller beside boot, 2 Crons, 2 executions, 2 failures, 1 await that throws in each process, 1 crash; 32 calendars over 38 half hours | 2.4 M | timers, executions and errors in step; memory follows the row; the next occurrence is right |
| `harness` | `MCHarness` | a task revised at most once, or a goal; 2 starts, 2 iterations, 2 turns, 1 crash, 1 failed write, fair | 0.53 M | tool calls known after a restart while there is a checkpoint, what each start adds to the work, the task's outcome, released runs, every job ends |
| `links` | `MCLinks` | 2 delegations, 2 syncs, 2 changes of the row; 4 calls; 5 tasks, 3 workers, fair | 0.42 M | leases honoured and ended, reload follows the row unless preparation threw; bounded probes; sound pool |
| `lane_serial` | `MCLaneSerial` | violation: the smallest instance that shows it | | see below |

Several properties are conjunctions of named parts, defined beside them, that are about one matter: `RowDiscipline`,
`NoStaleWinner`, `ExecutedInTurn`, `CountersExact`, `GroupSound`, `SchedulerSound`, `EndIsFinal`, `CallsAccounted`,
`RunsSound`, `WorkIsBounded`, `PoolSound`. Where a module has a type invariant it is one of the parts.

Why the bounds are enough. A race for a row needs two claimants, so two dispatchers and three store callers cover a
winner, a loser and a bystander whose put conflicts. Two attempts and one or two retries reach every branch of
`failJobOrRetry` and `reclaimOrInterrupt` (first time, last time) and their alternation. Two lives put a crash at every
point, including inside reconciliation's predecessor; rows of a third would be treated as those of the second. Two
slots let a job wait for the cap while another runs. Two tasks are what a summary can be incomplete or doubled with.
The graph of `MCDagScheduler` has two roots that join, a third root beside them with nothing below it, and a node below
the join; retries on a root and on the join. The safety properties of this run are proved for every size (see below), so there
the bounds only matter to liveness, and to having found the invariants. Two workers and batches of three and two calls give a
full pool with a queue of both turns, and an abort that meets adjacent slots of one batch and slots of both.

Cron: one caller and the boot are two calls that overlap; two Crons are the one that is replaced and its successor; two
executions overlap (a third would be handled as the second is); `MaxErrors` is 2 (5 in the code) with two failures, so the
task passes from no error over the last but one to the pause, and one await that throws takes it past `MaxErrors`.
`Small` in `MCCronScheduler` keeps what throws apart from the second date of a one_shot and, after a restart, from counted
errors and concurrent calls. The calendar: a day of 8 half hours, a month of 3 days, a week
of 2, an hour skipped at 11 and repeated at 25 up to 38, so that both changes fall in the middle of a day and each
field of an expression can restrict or not, wrap, and step. Harness: one crash at every await and one write that throws;
a task that is revised meets neither, its executors are stopped by cancel only, and its first job is over after one start
without tools (`Small` in `MCHarness`), because its two executors already interleave. Two
iterations give a first, a last and a synthesis. Links: two delegations are the holder and the one that comes while the
timer closes; two syncs overlap; two changes of the row disable and enable it again. Overlapping reloads are explored
without delegations (`Small` in `MCLinks`). Four calls against thresholds of 2 give two strays and two probes. Five
tasks with a limit of 2 and three workers let the race forget promises and make a task wait.

Bounds in guards (`MaxCalls`, `MaxCancels`, `MaxJobs`, `Slots`, `Dispatchers`, `MaxFailures`, `MaxFire`, `MaxCrashes`,
`MaxThrows`, `MaxFaults`, `MaxToggles`, `MaxOpen`, `Room`, `Last`) are named as such where they are declared.

`CHECK_DEADLOCK FALSE` is set where the system may stop: a store nobody calls any more, a turn whose group was
notified, an `execute()` that returned, a pool whose batches are back, a cron task that is deleted, a job that is
settled, a server nobody wants. The queue runs check deadlock: its maintenance tick never ends. Symmetry is used
only in safety runs, over dispatchers, clients, callers, Crons and executions, which are interchangeable.

## Fairness

Weak fairness is assumed of exactly what the event loop runs by itself: timers that are set, continuations of awaited
promises, the maintenance interval, and the boot sequence up to `start()`. Of executors it is assumed only that they end
at some point (`Settle`), which the task timeout and its signal are for; what they answer is free. In the DAG nothing is
assumed of agents at all: the timer of `AgentExecutor` is enough for `ExecuteReturns`; nor of tools and workers in the
pool, where the timer of `startJob` and the continuation of `Promise.all` are enough for `BatchesReturn`. A queue job
is assumed to report
to its delegation group (`Reports`), which is `StartedIsReported` and `EveryJobSettles` of the queue, except when it is
cancelled (a trouble there). In the harness, `Fairness` covers the steps of boot reconciliation, the call that has begun to
create a run and its job, and for each job the queue and its executor together: every await of an executor ends, one way
or another (the queue's timeout and its signal are there for a model or a tool that would hang; a cancel or a timeout
is possible at any moment but never assumed). In `MCLinks` a connect or a
disconnect ends, timers fire, a delegation that is connected stores its lease, and a sync goes on and comes again with the
interval; nothing makes a delegation end, which is why `LeasesEnd` excepts held leases. The cron run has no liveness:
that an active task keeps a timer,
or a run that will arm one, is part of the safety property `MemoryFollowsRow`.
Nobody is assumed to enqueue, cancel, stop, seal, abort, toggle or to call twice. `MCQueueLive`
leaves out `stop()`, cancel and giving up; with a crash at any moment it still has only finitely many, which is the
bound on `Boots`.

## What is proved

`tlapm` checks these from no assumption but the named `ASSUME`s of the constants, for any number of jobs, boots, callers,
tasks, nodes, Crons, executions or calls. Where a theorem has a premise about the environment, the premise is written out
and the constants of the run that checks the property satisfy it. The argument is always Init => IInv,
IInv /\ [Next]_vars => IInv', one step per action and one below it per conjunct the action disturbs, then PTL.
TLC checked each inductive invariant on the instances of the runs before it was proved.

**`JobStoreProofs`**: `Disciplined` (from `Typing`, `Ownership` and `BoundedStarts`), `FinalOutcome`, and `KeepsPromise`
(refinement of `JobPromise`). The invariant is `RowsSound`: each row is well typed, is owned and leased exactly while
running, and satisfies the *status-dependent* budget. `attempts <= MaxAttempts + retry` alone is not inductive: a pending
row on the bound could be claimed once more; a pending row has to be strictly below it, which `reclaimOrInterrupt` and
`failJobOrRetry` each establish in their own way. One lemma per row operation, `StepShape` reduces a step to one of them.

**`JobStoreOCCProofs`**: `NoStaleWinners` (from `NoStalePut` and `OneWinner`), and `Implements`: the loops refine the
atomic store. The invariant is `TypeOK /\ CopyIsCurrent /\ PutsExistingRow`; its core is that a copy whose version is
still current *is* the current row and still passes its guard, which time passing must preserve too (`AgedGuard`).

**`DurableQueueProofs`**. `WritesThroughStore`: the queue writes rows only as `JobStore` allows; with it `RowsOfQueue`
gives the queue what is proved of the store, down to `JobPromise`. It needs `Shaped`, the types and that whatever is in a
dispatcher's, an execution's or a cancellation's hands has a row. On top of it:

| theorem | property | premise | invariant |
|---|---|---|---|
| `Counters` | `CountersExact` | | the counter is the number of occupied slots; each start of a row is on record (`Accounts`) |
| `ChatTurnsOnce` | part of `ExecutedInTurn` | | a chat turn has no retries, so `attempts` are the starts lost to crashes |
| `CapHolds` | `CapOvershootBounded` | | slots under the cap and dispatchers past its check, counted together (`CapKept`) |
| `OneAtATime`, `CancelReaches` | `ExecutedInTurn`, `CancelReachesExecution` | `~ClockMayJump` | a job in hand is not put back, so it is in one hand (`HandsKept`); neither half is inductive without the other |
| `Unstranded` | `NothingStranded` | `~MayGiveUp` | a row that runs in this boot is in hand, up to the moment its outcome is *stored* |
| `HooksTellTruth` | `HookTellsOutcome` | both, and nobody cancels | what is told is what the row says, then and ever after (`ToldTruly`) |

None of the premises can be dropped: with a clock that jumps two executors run one job, after a store call gave up a row
runs with nobody at work, and a cancel may come between the result and the hook.

**`DelegationGroupsProofs`**: `OneSummary`, `CompleteSummary`, `GroupMovesForward` and `GroupIsSound`. The invariant `IInv`
says which calls may hold the claim: at most one, only while `summary` says so, never together with a sent summary unless
that call sent it; a crash leaves a claim with no holder, which is harmless for safety and is what `ClaimIsHeld` excepts.

**`DagSchedulerProofs`**: `DependenciesFirst`, `StaysInStep` (from `Typing`, `NeverTooMany` and `Accounted`),
`FailuresExplained`, `FinalEnd` (from `NothingAbandoned` and `AbortStarts`). The invariant ties statuses, queue, live attempts
and error kinds together (`Sound`), with separate clauses before `execute()` (`Fresh`). Acyclicity enters once, in
`NothingWaits`: if nothing is queued and nothing runs, a PENDING node would need a PENDING dependency, and so on without
end. `DoomedFacts` is the lemma about `propagateFailure`: what it fails is closed under dependents and contains nothing else.

**`CronSchedulerProofs`**: `RunsStaySound` and `MemoryStaysInStep`. `RunsSound` says nothing of the moment between the count
of an error and the pause, and `MemoryFollowsRow` nothing of a call in progress, so neither is inductive. The invariant is
`Typed`, `OneCron` (timer and scheduled runs of a Cron exclude each other, and one is there while nothing stops it),
`Counted` (the errors of the row are the failures of `execute` and the rejections of `handleError`), `Exhausting` (a task
with too many errors is still active only while an execution, a call or the boot is about to pause it; that is so until an
await of the process throws, and the premise cannot be dropped) and `Serial`, which says for each await of the one
call in progress what the row, the map and the document it read
have to do with each other. The hardest case is an execution that stops a task somebody resumed (`Excused`).
`DueStaysRight` (of `ClockSpec`) needs no invariant to speak of, but an argument about the search: outside the repeated hour
the wall clock is increasing and `toInstant` is its inverse (`InstantFacts`), so the least wall clock that matches is shown
at the least instant that does (`OccurrenceFacts`), and the three searches of `nextRun()` together find the first instant
in the window and after the interval (`RunFacts`). What an expression names is left open (`Matches` is never expanded). It
assumes of the zone what the code does: that the clock moves by one of `DESFASES_POSIBLES`, and goes back later than it
went forward.

**`HarnessProofs`**: `CallsAreKnown`, `WorkStaysBounded`, `NoRunLeftBehind`, `TaskIsTold`, about `WideSpec`: the system
without the bound `Small` of the instance, of which the checked specification is a part (`SpecIsWide`). The invariant of a
job (`Good`) says at each await of its executor which of run row, messages and history may be ahead of which. A tool call
that was executed is in the row *before* it is executed, so that a crash at any await leaves a row that knows it, until
`failRun` or `completeRun` clears the row. An earlier start of the job adds one model call or goal turn to the budget, since
each is written only after it was spent, or, where the checkpoint was cleared, a whole `max_iterations`; a failed write adds
one. What a cleared checkpoint adds (`Renewed`) is a product, of which the steps need only that one more clearing adds
`MaxIterations - 1` (`RenewedFacts`). `BudgetIsHard` alone is not inductive, since attempts and turns are counted one after
the other. `TaskTellsOutcome` needs
`TaskFollows`, where an executor stands when the task row says what.

**`LinksProofs`**: `ProbesStayFew`, `LeaseIsHonored` (of `McpSpec`), `PoolStaysSound` (of `PoolSpec`). `ProbesBounded` alone
is not inductive, because the counter of the code no longer says how many probes there are once a call of another period
has settled. `ProbesCounted` says by how much it is off: by the strays, each of which is also one of the successes, and those
stay below `successThreshold` while the breaker is half-open. For leases: one actor at a time connects or closes, and a
lease, or a delegation about to store one, means a connected server. For the pool: the loop keeps the promises of the
first tasks and of the newest, so whatever came later has ended unless one of the first has.
`CallsStayAccounted` and `NothingStartsLate` (of `ToolWorkerPool`): neither `NoCallIsLost` nor `FullWhileQueued` is
inductive; what is, is that distinct calls sit in distinct places (`Pool`), that a call has a place exactly while its batch
waits for it, and that no call of an aborted batch is queued (`ToolInv`). Every callback ends in `drain()`, so the work is
done once: `DrainFacts` counts the free places before a place (`RankFacts`) to show that the drained calls and the places
they get match one to one, and `AfterDrain` needs nothing more of an action than what it hands to `drain()`.

Three things the proofs changed in the models, none in what TLC explores. Definitions that chose *the* first of a set are
now predicates (`IsFirst`). And a CASE with overlapping guards, for which the code has an `if` chain, is now written with
IF and ELSE (`End`, `BootPlan` of `CronScheduler`): TLC takes the first guard that is true, while the language leaves the
choice open, so the proof did not go through. And `Without` of `ToolWorkerPool` is stated by positions, since the prover
knows nothing of `SelectSeq`.

## Where the documentation promises more

One run ends in a counterexample on purpose. `lane_serial`: a lane "runs at most one job at a time"
(`src/docs/HIVE-HARNESS.md:78`). `dispatchLane` starts one job per call, but does not look whether one of the lane is
running; a second enqueue runs the next job beside it.

The modules state more of the kind, each a definition beside the properties that do hold. They are not listed
as runs; adding one as an INVARIANT to the configuration named here ends in a counterexample.

* `CancelLaneCancelsAll` (`MCQueueTrouble`): cancelLane cancels "all pending and running jobs". It lists pending jobs with
  the query used for dispatching, which skips jobs whose backoff has not passed; they run later.
* `NoJobOutstanding` (`MCDelegation` with `MaxJobs = 2`): the summary says all delegated tasks reached a terminal state. A
  task revised within its turn keeps its first outcome, so the group completes while the second job runs.
* `AbortAnswersBatch` (`MCTool`): the signal of a turn is "to stop generation mid-execution". `abortBatch` loops over the
  array of slots while `finishJob` splices the current one out of it, so of two adjacent slots of the batch only the first
  is stopped; the other runs to its end or its timeout (five minutes unless configured), and the turn waits for it.
* `KeyIsUnique` (`MCQueueCrash` with `Clients <- TwoClients`, `Infos <- OneKey`, `JobIds <- TwoJobs`): "a repeated key
  returns the existing job" (`durable-queue.ts:151`). Two concurrent calls both look before either creates.
* `AgentsBounded` (`MCDag`): "respecting maxConcurrentWorkers" (`Coordinator.ts:6`), "timeout in ms before the task is
  cancelled" (`TaskNode.ts:21`). The timeout ends the attempt and not the agent, and the retry runs beside it.
* `OnlySoManyAtATime` (`MCLinks`): "procesar 100 tareas pero solo 5 a la vez" (`API-WORKERS-EVENTS.md:184`). After the race
  the loop deletes the promise it has just added, not the one that ended, so the limit holds only until one of the first
  tasks ends (`LimitUntilFirstEnd`). The call may also return before its tasks have ended.
* `StrictlyAfter` (`MCCron`): the next time the expression holds is "strictly after" the given one (`next-run.ts:84`). In
  the hour the clock shows twice, a local time is mapped to its first instant, which may be over.

Found while modelling, and visible in the models:

* **Queue.** `handleRpc` passes neither a signal nor a timer to a tool it runs on the main thread: an aborted or timed-out
  `task_delegate` works on although its call was answered. The global cap can be exceeded by the dispatches in
  flight (`CapOvershootBounded` says by how much). The hook may hear "ok" of a job that was cancelled while it finished,
  and hears twice of a job whose lease lapsed under a live executor: `HookTellsOutcome` holds in `queue_crash` and not
  in `queue_trouble`. Cancelled jobs and jobs of a type without executor are never reported to any hook. A cancel
  between the claim and the launch is recorded in the row but aborts nothing. `attempts` also counts logical retries,
  although `storage/collections.ts:454` speaks of crashes only. A crash between the claim of a summary and its
  notification leaves the group claimed for ever.
* **Cron.** Overlapping calls break the agreement of memory and row, which is why `MemoryFollowsRow` excludes them: an
  update that read the task before `resume` stops the Cron that resume armed; of two activations one leaks its Cron. A
  call that read the task before its last error arms it again although it is paused. The error count is of all failures and
  is never reset, while `API-CRON.md:162` says consecutive; a task paused for errors cannot be resumed. `trigger()`
  clears `ocupado` while a scheduled run is still at work, so `protect` no longer prevents the overlap. An `execute()` that
  rejects in its catch block (`updateJob` lost its races, the notification threw) is counted a second time by `handleError`,
  which never compares with `MAX_ERRORS`: a task can pass the limit and stay active until it fails again or the process
  restarts. An exception after the handler succeeded is counted as a failure of the task. An API call that throws midway
  leaves memory and row apart. So `MemoryFollowsRow` and `ExhaustedIsPaused` speak of a process in which nothing of the
  kind has happened, and `ErrorsCounted` counts both kinds. A one_shot that
  failed stays active until the next start. `max_runs` is counted per Cron, so a restart begins again. `update()` ignores
  the misfire policy and the grace.
* **Agent runs and executors.** The lease of a run is written and renewed but read by nobody. The hard budget of a
  goal (`goal-runner.ts:14`) may be exceeded by one uncounted turn per earlier start. `failRun` clears the checkpoint, so a
  retry starts from nothing: it repeats the tools the failed start ran without knowing of them (`KnowsWhatRan` says nothing
  of those), and spends a fresh `max_iterations` (`IterationsBounded` counts one budget for each time). A crash
  between the completion of the task and that of
  the job executes the worker again. A task stays `in_progress` or `pending` when its job was cancelled while it waited, or
  its worker was missing; `reconcileOnBoot` makes such tasks pending, but nothing enqueues them. `task_revise` writes
  `pending` after it has enqueued, over what the started job may have written. If building the proof packet fails, a
  goal that was met is recorded as failed. These are the cases `untold` and `IterationsBounded` name.
* **MCP.** A coordinator can stay cut off from a server: the idle timer disconnects but keeps the cached tools, so the
  wake of the next turn is skipped, and the hot reload connects only servers it does not know. Two first acquisitions that
  overlap both store a count of 1; an acquisition while the timer closes loses its lease; leases leak when
  `prepareDelegation` throws after it acquired them. The interval of the hot reload does not wait for the sync before it:
  slow connects are repeated, an old sync that ends late can leave an enabled server out. If `JSON.parse(args)` or
  `loadMcpHeaders` throws for a new
  server (`hot-reload.ts:81`, `:86`), the sync still records it as known (`:152`): it is not registered and not tried again
  until its row is disabled and enabled (`PrepareFails`; `GivenUp` in `ReloadConverges`). `LeaseHonored`,
  `LeasesEnd` and `ReloadFollowsRow` hold outside these cases, each of which `upset` or `Leaked` names.
* **Breaker, pool.** `halfOpenMaxCalls` is exceeded by up to `successThreshold - 1` probes, because calls admitted
  earlier lower the counter when they settle. After `shutdown()` a worker released late is handed out although it was
  terminated, and a waiting `acquireWorker` polls for ever.

## What is only model-checked, and what is not modelled

Only checked by TLC:

* all liveness (the prover has neither fairness nor ENABLED here): `EveryJobSettles`, `StartedIsReported`,
  `SealedIsSummarized`, `ExecuteReturns`, `BatchesReturn`, `WorkEnds`, `LeasesEnd`, `ReloadFollowsRow`. All other
  properties of the runs are theorems.

No module declares a RECURSIVE operator; the one recursive function of the code that is modelled
(`propagateFailure`) is stated as a closure.

Not modelled inside modelled components:

* Events, narration, logging, canvas mirrors, and what a listener that throws out of a synchronous emit would do.
* Of `reconcileOnBoot`: `taskRuns` and meetings, which are only marked; conversations; and the retention sweep, which
  deletes the oldest jobs beyond a cap whatever their status. A fault in the middle of it.
* Backoff arithmetic: only that a retry is not due at once. `computeBackoffDelay` adds jitter after the cap.
* A second `execute()` on the same DAG scheduler, which would reset the shared `aborted` flag of the first; the critical
  path and the order in which a strategy picks.
* Cron: the cleanup task, the text of prompts, `taskRuns` rows, years and months, timers beyond 2^31 ms, and
  `services/cron.ts`, which writes rows for a process without a scheduler.
* Harness: a lease that expires under a live executor (`queue_trouble` has it for the queue), a generator its consumer
  abandons, the promotion of chat turns to durable runs, synchronous delegation, token counts, the truncation of a state
  over 1.5 MB.
* MCP: transports, tool schemas, changes of a configuration other than `enabled`, `testMcpServer`.

Not modelled at all, with the reason in `PROJECT.json`. These make most of the lines of the repository, which is why the
map covers a small share of them (about 4 200 of 52 700 lines):

* vendored and generated code, seeds and catalogues (`bundled-data.generated.ts`, `seed.ts`, `onboarding.ts`): data;
* prompts, context compilation, selection, planning, skills, proof packets: text and ranking, one call deep;
* channels, gateway routes, tools, voice, images, browsers, model clients: I/O with a third party on the other side;
* services, sessions, canvas, configuration, command line: one write per call, nothing runs between its parts;
* `lane-queue.ts`: still exported, but no code enqueues on it since the durable queue replaced it, and its branch that
  cancels a waiting task cannot be reached;
* the document store itself: HiveDB is a binary outside the repository. What the code relies on (a version per row, a
  conditional put) is in `JobStoreOCC`.

## Plan

1. **Done.** Job store, durable queue, delegation groups, DAG scheduler, tool pool; cron scheduler and calendar; agent
   runs with both executors across restarts; MCP leases and hot reload; circuit breaker; worker pool. Proofs of all safety
   properties.
2. `storage/hive.ts` and its callers that pass `updateDoc` a value computed before (`bumpTurn`, `bumpRollup`), with
   `nextId`: a loop like that of `JobStoreOCC` with a computed patch; lost counters.
3. Conversations and their compaction: `addMessage` takes its number from `nextId` and writes after an await, so that a
   compaction in between may summarize past a lower number that is not there yet; the scan that is limited to the oldest
   200 messages; the check that compares the last message id with a count of messages.
4. The retention sweep of `reconcileOnBoot` beside the queue.
5. Proofs: what `expandirCampo` and `diaCasa` make of an expression, against a reference; that the cron engine implements
   a Cron that is always armed for its next date.

## Running the checks

    tlc -workers 2 -config MCQueueCrash.cfg MCDurableQueue
    tlapm JobStoreProofs.tla

`PROJECT.json` lists, for each property, a mutant of a definition that breaks it: the definition of that name
(`Finish_leaksCount`, `canStart_any`, ...) stands before the one it mutates and is used by nothing else.
