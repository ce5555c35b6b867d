# Promptise Foundry: a verification project

TLA+ models of the agent runtime of Promptise Foundry (`src/src/promptise`), the
TLC configurations that check them, and TLAPS proofs of the results that matter
most. Line numbers are those of the commit in `src/`; `process.py` is
`src/src/promptise/runtime/process.py`.

## 1. The system

Promptise Foundry builds LLM agents. Its runtime turns an agent into a
long-lived *process*: triggers (cron, events, file changes, webhooks) put events
into the process's queue, workers take them and run the agent, and a control
plane starts, stops, suspends, restarts and supervises the process. Around it
are an MCP server and client, approvals, caches, guardrails and a distributed
runtime. Everything is `asyncio`: a step runs without interruption from one
`await` to the next, and every `await` lets any other task run.

| Component | State | Operations | What is hard | What makes it correct |
| --- | --- | --- | --- | --- |
| Lifecycle (`runtime/lifecycle.py`) | the state, its history | `transition` | asked for by eight kinds of task, several without the process lock | only moves of `VALID_TRANSITIONS`, which `transition` sees to itself |
| Process, control plane (`runtime/process.py`) | lifecycle state, `_lock`, `_restart_task` and counters, session, heartbeat, background tasks, `_draining` | `start`, `stop`, `suspend`, `resume`, `_restart`, heartbeat, a worker's failure or governance stop | who cancels, awaits and holds the lock for whom; flags read and written across awaits | teardowns exclude each other, leave nothing running, drains and restarts end, failures are attended to, every call returns |
| Process, event delivery (`runtime/process.py`, `runtime/triggers/`) | trigger buffer, listener, queue, workers' events, retries, dead letters, attempts | trigger, `inject`, worker loop, retry timers, redelivery, teardown leftovers | cancellation with an event in hand, bounded buffers, restart keeps events and a stop does not | no event lost, run twice, reordered or tried too often |
| Journal, replay, rewind (`runtime/journal/`, `context.py`) | context state, update hooks, entries, checkpoint file, interrupted runs | put, append, checkpoint, recover, rewind, redeliver | writes journaled after the fact; two halves of a checkpoint; crash at any point; a rewind before its checkpoint | recovery and rewind rebuild a state that was; an interrupted run is neither lost nor offered twice |
| Inbox (`runtime/inbox.py`) | messages, pending questions and futures | send, ask, answer, expire, evict | a late waiter; eviction under a scan | an answered question reaches its waiter |
| Budget, health, mission (`runtime/{budget,health,mission}.py`) | counters, streaks | record, check, reset, enforce | counters shared by concurrent runs | a limit passed is acted on |
| Runtime registry, API, CLI (`runtime/runtime.py`, `api.py`) | the processes by name | add, remove, restart | restart racing stop | over the process's own guarantees |
| Distributed runtime (`runtime/distributed/`) | registered nodes, their health | register, check, discover, inject | membership changes during a health check | a node's health is its own |
| Job queue (`mcp/server/_queue.py`) | jobs, bounded priority queue, workers, handler tasks, timers | submit, cancel, retry, timeout, stop, start, cleanup | stop putting jobs back on a full queue; cancel racing completion, timeout and retry | a pending job has one place, each job ends once, every run is recorded, stop ends |
| Guards of a tool (`mcp/server/_circuit_breaker.py`, `_concurrency.py`, `_cache.py`, `_middleware.py`; rate limit, approval gate) | per-tool circuit, semaphore, flights, cache | a call, `reset` | late answers after the circuit moved; the call that computes for others is cancelled | one probe, never forgotten; one computation per key; the circuit closes again |
| MCP client (`mcp/client/_client.py`) | session, its runner, retired sessions, generation, token | enter, exit, call, re-open, renew | calls share a session that drops, is forgotten by the server, or is replaced under them | no session without an owner, none closed under a call that could finish, no call waiting for a closed one |
| MCP server app, transport, audit | sessions, routes, log chain | requests | mostly sequential per request | data, not protocol |
| Agent and engine (`agent.py`, `engine/`) | a run's graph and state | one run | driven by a model's output | private to a run |
| Events (`events.py`) | bounded queue, sinks | emit, deliver | drops, change of loop | the bus never blocks a run |
| Approvals, caches, memory, conversations, guardrails, prompts, sandbox, mcpcast | stores and services | calls | external services | data |

How they interact: `AgentRuntime`, the HTTP API and tests call a process's
`start` and `stop`; the lifecycle calls the process back (`_on_transition`)
on each transition, which is what schedules restarts; the heartbeat and the workers call
`suspend`, `stop` and `_restart` on their own process; the trigger listeners and
`inject()` share `_trigger_queue` with the workers; a teardown cancels all of
them and takes over the events they held. A process journals its context writes,
runs and transitions, and its first start (or first rewind) reads them back. An
agent reaches its tools through `MCPClient`; at the other end a server passes
each call through the guards, or takes it as a job of its queue. `PROJECT.json` lists every component
with its status, and under `hazards` each place where this goes wrong easily.

## 2. The modules

| Module | Models |
| --- | --- |
| `ProcessLifecycle` | the states of a process and the transitions between them, as operators `AgentProcess` uses |
| `AgentProcess` | the control plane of a process |
| `AgentProcessProofs` | theorems about it |
| `MCAgentProcess` | `AgentProcess` for TLC: symmetry of the restart slots |
| `EventFate` | what may become of an event; abstract specification of `TriggerDelivery` |
| `TriggerDelivery` | the events of a process, from trigger to outcome |
| `TriggerDeliveryProofs`, `MCTriggerDelivery` | theorems about it; symmetry of its workers for TLC |
| `ProcessJournal` | the journal of a process: writes, checkpoints, crash and recovery, interrupted runs, rewind |
| `ProcessJournalProofs`, `MCProcessJournal` | theorems about its runs; its symmetry for TLC |
| `JournalValuesProofs` | theorems about the values it keeps |
| `FoldTheorems` | what a fold over a sequence computes, for the two readers of a journal |
| `JobFate` | what may become of a job; abstract specification of `JobQueue` |
| `JobQueue` | the MCP server's job queue |
| `JobQueueProofs`, `MCJobQueue` | theorems about it; its priorities for TLC |
| `MCPClient` | the sessions of an MCP client |
| `MCPClientProofs`, `MCMCPClient` | theorems about it; the module TLC runs |
| `ToolGuards` | what a call of a tool passes on the server: limit, breaker, timeout, cache |
| `ToolGuardsProofs`, `MCToolGuards` | theorems about it; the module TLC runs |

### AgentProcess

A step is what one task does between two points where it can be suspended: a
hook, the lock, the teardown, the build of the agent, the scan of a payload, a
run. `pc[t]` is where task `t` is; a task is a caller of `start`/`stop`, a
worker, an automatic restart or the background stop of `max_lifetime`. The
conditions read before and after each suspension are separate guards in separate
actions, which is where the interesting interleavings come from.

- `transition()` takes an uncontended lock and never suspends, so it is part of
  the step that asks for it, with what `_on_transition` does (`ScheduleRestart`).
  It refuses every target that is not in `VALID_TRANSITIONS`, so that the state
  follows them is how the model is built, and no property.
- The process lock is an `asyncio.Lock`, which is FIFO. `ahead[t]` is the set of
  tasks that reached it before `t`. `add_trigger` and `remove_trigger` take it
  too and change nothing modelled here, so a task with nobody ahead may still wait.
- `start()` and `stop()` cancel a restart that is still pending and await it
  (`stop_cancel`, `start_cancel`) before they go on; other tasks run meanwhile,
  and what they schedule is forgotten when `_restart_task` is set to `None`.
  `overwritten` records that, and the recycle that overwrites a pending restart.
- A teardown cancels the workers in the step that starts it: the code cancels
  and awaits them before anything else can take the lock, and a cancelled
  worker does nothing but return. One that waits in its own `stop()` for a cancelled restart
  swallows the first cancellation with it (`process.py:1765`) and is cancelled again by
  `_cancel_and_wait`; the teardown then begins after that restart has ended.
- After a run fails for good its worker tells health, dead-letters the event and
  awaits the hooks (`failing`, `judge`) before it compares the streak with
  `max_consecutive_failures`; another worker may have reset it by then.
- An event wakes an idle process in the step that puts it, when `inject()`, a
  redelivery or a listener with room does it. A listener without room has woken
  the process before it waits (`ListenerWaits`, `ListenerPuts`), and a retry is
  put at once and spawns a task that wakes (`RetryArrives`, `WakeRuns`). All wakes on
  their way are one flag, `waking`, and one listener is modelled.
- `Restarters` are slots for tasks that run `_restart`; their number and the
  single `BgStop` bound how many are alive at once.
- Where it ends a run (`SetAside`, `Flagged`) this module has no step for the
  hooks in between: they change nothing it models. `TriggerDelivery` has them.
- Not modelled: `rewind()`, `close()`, the rebuild of the agent, a caller that is
  cancelled inside `stop()`. `AWAITING` is in the state machine and no code enters it.

### TriggerDelivery

One process with an event trigger (a bounded buffer), its listener, the queue,
the workers, the retry timers, the dead letters and `inject()`. What holds an
event is a variable of its own, and each `await` of the listener
(`waiting`, `admitting`, `putting`), of a worker (`hold`, `run`, the
`PERMISSION_DENIED` hooks of `denied`, the health actions of `spent`, `hooks`,
`failing`) and of a teardown (`workers`, `listeners`, `refill`, `release`) is a
place where others go on. `AgentProcess` shows that builds and teardowns do
not overlap, so here they are the stages of one, and who asks for them is left
open. A worker whose own run stops the process is the `owner` of that teardown:
it is not cancelled with the others and ends at its next suspension (`OwnerEnds`).
Where that suspension comes before the event's outcome, in `denied` and `spent`,
the event gets none: it is in `cut`, a fate of its own in `EventFate`.

Abstracted: events are numbers in order of arrival; hooks and filters decide
nondeterministically and a filter does not raise; the built-in journals do not
suspend; whether a suspension is the idle kind is the control plane's, so an
arriving event may or may not wake a suspended process; the
failure streak is left open, so an exhausted event may or may not fail the
process; dead letters are redelivered one at a time, and only those of
`Redeliverable`, a bound that keeps the runs finite in what they explore.
`born`, `done`, `cut`, `dropped`, `forgotten` and `requeued` are history.

### ProcessJournal

One process object at a time over a file backend: `journal` and `file` survive a
crash, everything else does not. `proc` says where the object is; recovery
happens once, on the first start or rewind of an object (`Recover`). A value
is the number of its write, so two states can be told apart. `Put` changes the context at
once and leaves its entry to an update hook (`pending`), which the loop runs
later, in order; a checkpoint waits for those hooks (`Flushed`) and then writes
without suspending. A checkpoint is two writes, the file and its entry:
`Checkpoints` has both, the first only, or neither; a crash between the two is
a failed entry and then `Crash`. `Replayed` and `Updated` are the two readers of a journal,
`RewindEngine._reconstruct` and `ReplayEngine.recover`, as folds over the
entries. `since`, `lost`, `kept` and `settled` are history.

A run is held by its worker from its start to `_task_completed`: it asks the model
(`running`), waits for its checkpoint (`ending`), then for the budget, the
health actions and the mission (`after`), which may checkpoint once more. A
stop in any of these records it as interrupted (`UnderWay`, `CutsOff`), though its
end may be checkpointed already.

Abstracted: the conversation is a set of runs and a note; the hook of one write
is one step, and a cancelled worker takes the pending hooks it waited for along;
a run that stops its own process has completed before; what a start does after
recovery is one step that may not happen (a failed start leaves an idle process);
a failed run is dead-lettered without retries (those are in
`TriggerDelivery`); the rewind's suspension is that no run is under way.

### JobQueue

Callers submit and cancel, workers run each job in a handler task, retry timers
wait out a backoff, the server stops and starts the queue. `queued[j]` counts
the entries of the priority queue that name job `j`, a cancelled one's too
(`put` and `dequeue` do not look at the status); `at[w]` and `job[w]` are where
a worker is suspended and with which job; `handler[j]` is the task it awaits. A
handler that was told to stop may ignore it, end late, or answer; one that was
not may run for ever. `stop()` has its stages (`stage`): workers interrupted,
timers interrupted, their jobs put back one by one; records of ended jobs are
cleaned up until its very end. Jobs are numbered by
`created_at`, and `Rank` is their priority.

### MCPClient

A session, the runner task that owns it and its closing event have one number,
as `_open` makes the three together. `pc[c]` is where a call is suspended;
`on[c]` the runner its request is raced with and `using[c]` the session it was
sent on, which differ when the session was replaced between the two reads. The server and the
token provider are external: a session is forgotten (404), dropped, or its
token renewed at any time. `provided` says whether there is a token provider at
all: without one a call sends on the session there is, also while another call
opens the next. An opening that fails and one that is cancelled both tell the
runner to close and wait for it (`GivesUpOpening`). One client is entered and left once.

### ToolGuards

A call is `out`, `admitted` (through the limit and the breaker, its handler not
yet begun), `waiting` for another call's computation or `computing`. The
breaker's counts are in an object per tool which `reset()` replaces, and a call
keeps the object it found: `circuit` is the current one, `on[c]` a call's. A
call comes back through the breaker with a success, a failure, a rejection
(an error that does not count) or a cancellation (`Leaves`), whichever handler
path it took. `Found` is the state an arriving call sees: an open circuit whose
time has passed becomes half open even if it then refuses the call.

## 3. What the runs check

| Run | Bounds | Shows |
| --- | --- | --- |
| `recycle` | 1 caller, 1 worker, 1 restart slot, `always`, 1 restart, 2 failures, lifetime, idle | types; failures are attended to; no event sleeps in an idle process; calls return |
| `races` | 1 caller, 1 worker, 2 restart slots, `on_failure`, lifetime | the lock excludes; nothing survives a teardown; drains end; restarts are bounded |
| `events` | 3 events, 2 workers, every capacity 1, 1 retry, event 1 redeliverable | `EventFate` is implemented; one place per event; order; attempts; a stopped process holds nothing |
| `served` | 2 events, 1 worker, every capacity 1, 1 retry | what a running process accepted gets an outcome |
| `recovery` | 2 keys, 1 event, 2 writes, 3 troubles (a crash, a failed write, a stop, restart, rewind or redelivery) | recovery and rewind rebuild what was; the two readers agree; interrupted runs keep their fate |
| `jobs` | 2 jobs of different priority, 2 workers, capacity 1, 1 retry, 2 starts | `JobFate` is implemented; one place per job; one handler per job; runs are recorded; jobs are served; cancelled handlers and stops end |
| `sessions` | 2 calls (1 cancellable), 3 sessions, 1 renewal, with a token provider and without | sessions have owners, are not closed under calls, and no call waits for a closed one |
| `guards` | 3 calls, 1 key, threshold 2, 3 faults, 1 reset | one probe; one computation; the circuit closes |
| `lifetime_deadlock` | as `races`, 1 restart slot | *violated*: `CallsReturn` |
| `revival` | 2 callers, `always` | *violated*: `HaltedStaysDown` |
| `session` | 2 callers, `never` | *violated*: `SessionEndsFirst` |
| `stop` | 2 events, 1 worker, no retry | *violated*: `StopEmptiesQueue` |

Why the bounds are enough. In the control plane the races are between pairs and
triples of tasks: a caller, a restart past its delay, another scheduled
meanwhile, the background stop and a worker stopping its own process are the
kinds there are, and `races` has one of each with two restarts. `recycle` has a second failure,
so that a streak can be one short of its limit, and a recycle next to the one restart; it has one
restart slot because liveness over two is out of TLC's reach here. The
control-plane safety properties are proved for every number of tasks (section
5). In the data plane, a capacity of 1 makes every container overflow, three
events fill a buffer, a queue and a listener at once, and two workers are needed
for one to stop or fail the process under the other.

For the journal, two writes are the least that can be reordered or half
journaled. Three troubles are a stop, the redelivery after it and a crash; or a failed
entry, a rewind and a crash; or a stop between a run's checkpoint and its
completion, the checkpoint after it and a recovery. In the job
queue one job fills the queue for the other, and a retry and a second start
bring a job back in the two ways there are. For the client, two calls find the same
session gone and a third session is opened after a renewal and a loss. For the
guards, the first call trips the breaker with the second, a third is the late
answer while one of them probes, and the reset may come before, between or
after. There the limit equals the number of calls, so that it never refuses;
two keys with a limit of two passes as well, and the theorems cover every
value.

### The disagreements found

1. **A stop can hang** (`lifetime_deadlock`). `_release` awaits the background
   tasks with the process lock held (`process.py:1998-2004`); one of them may be the
   background `stop()` of `max_lifetime`, which is waiting for that lock. The `recycle`
   run has `restart_policy` `always`, where the lifetime recycles instead of stopping, and there
   calls return.
2. **A stopped process revives** (`revival`). A restart past its delay can no
   longer be cancelled (`process.py:1435`) and a `start()` under way clears the flag that would end
   it, against `process.py:1747` ("An explicit stop also cancels any pending automatic restart").
3. **A session without `SESSION_END`** (`session`). `stop()` ends the session
   before it takes the lock; one opened while it waits is torn down without the hook.
4. **An event left in a stopped process** (`stop`). `inject()` reads `_draining`
   before its admission hooks and nothing after them. `TriggerDelivery`
   does not count that event as lost: it stays in the queue and a later
   `start()` of the same object runs it.

The others came up in modelling. Where a property would fail, it excludes
exactly the case and says so; `PROJECT.json` has no run for these.

Job queue:

5. A `cancel()` during the wait for a timed-out handler is overwritten with
   TIMEOUT (`_queue.py:1163-1167`), while `cancel` promises that its job stays
   cancelled (`_queue.py:932-936`). `JobFate` has it as `LateTimeout`.
6. A `stop()` during that wait leaves the job RUNNING for good, while `stop` says
   that jobs still running are cancelled (`_queue.py:1041`). `RunsAreRecorded` exempts it.
7. `stop()` puts jobs back with a blocking `put` and may wait for ever on a full
   bounded queue (`_queue.py:1057-1059`). `StopReturns` exempts it.
8. A `submit()` cancelled while it waits for room leaves a PENDING record that
   no worker will see. `PendingHasOnePlace` and `Served` exempt it (`abandoned`).

MCP client:

9. A request is sent again when its session was told to close, although the
   server may have run the tool already: the comment on `_client.py:1441-1443`
   says a request is repeated only when it was not taken.
10. A call inside `_reconnect` while `__aexit__` runs opens a session that nobody
    closes; `ExitLeavesNothing` speaks of the sessions open when the exit began.
11. A call raced with no runner, or with another session's, may wait for ever
    although `_on_current_session` promises to fail with the session
    (`_client.py:1470`). `FailsFast` exempts it (`Raced`).

Journal:

12. A crash between the two halves of a rewind's checkpoint recovers a mixture: the
    rewound file, and the updates of before the rewind replayed over it, while
    `rewind` says that a later recovery starts from the rewound state
    (`process.py:4633-4635`). `Recoverable` allows each of the two values.
13. A rewind to an entry written between another rewind and its checkpoint
    rebuilds the state before that other rewind. `RewindExact` exempts it (`rewinding`).
14. When the entry of the very first checkpoint is missing, recovery finds no
    place to replay from and drops every later update
    (`replay.py:82-86`). `Recoverable` exempts it.
15. A `context.put` before the first start is undone by recovery and journaled
    afterwards. `RewindExact` counts such a key as one the journal lags behind on.
16. A run cut off by a restart is journaled but in no checkpoint: a crash
    before the next one loses its dead letter. `InterruptedFate` speaks of the runs a checkpoint holds.

Guards:

17. A success of a call that began before the circuit opened closes it while the
    probe is in flight, so other calls pass before the probe finishes; the class
    says they are rejected until then (`_circuit_breaker.py:132-134`). `OneProbe` is about the probe only.
18. Calls that wait for one computation each count its failure, so one failed run
    of a tool can open the circuit; a cache hit counts as the probe's success.

Control plane:

19. `_restarting` is one flag for all restarts. One that ends clears it under an
    overlapping one (`process.py:1453`), whose own `start()` may then fail without a further
    attempt, although failures of a restart are to be retried (`process.py:1358-1359`).
    `FailureIsAttended` therefore speaks of processes that their runs failed.
20. With two workers the answer of a run resets `_restart_count` (`process.py:3771`)
    also after another run failed the process for the last time: the process then has
    attempts left that nobody makes. An earlier form of `FailureIsAttended`, an invariant on the
    count as it is now, was false for this reason; it is an action property, on the count that
    `_schedule_restart` read.

21. A pending restart that is overwritten is not counted when the next is scheduled, so
    `_restart_count` may pass `max_restarts`. With `always` the recycle of `max_lifetime` overwrites
    it (`process.py:4213`); and a `stop()` or `start()` that has cancelled one restart sets
    `_restart_task` to `None` after the await (`process.py:1767`, `1500`), whatever
    was scheduled meanwhile. `RestartsAreBounded` exempts what follows (`overwritten`).
22. A listener without room in the queue has woken the process before it waits
    (`process.py:3054-3055`). If the process is suspended for `idle_timeout` again meanwhile, the event it then puts
    wakes nobody, against `_heartbeat_loop` (`process.py:4167-4169`: "the next trigger event (or `inject`) resumes
    it"). `NoEventSleeps` exempts that step.

Event delivery and journal:

23. An event whose own run stopped its process (`on_anomaly` stop, `process.py:3563`) and was then blocked by a
    guardrail, or is out of retries, meets the cancellation of the teardown (`process.py:1966`)
    at the `PERMISSION_DENIED` hooks (`process.py:3495`) or the health actions (`process.py:3511-3512`), before its dead letter:
    `_worker_loop` says such an event is dead-lettered (`process.py:3408-3411`), `EventFate` has it as `cut`.
24. A run whose end is checkpointed (`process.py:3808`) and that a stop cuts off before `_task_completed` is
    recorded as interrupted and offered for redelivery, although "a redelivery
    would run a finished run again" is what `_task_completed` is to prevent
    (`process.py:1120-1123`). `InterruptedFate` speaks of the runs no stop cut off there.

## 4. Fairness

`LiveSpec` of `AgentProcess` has weak fairness for a task that has started:
hooks are cut off by their timeout (30 s by default, `process.py:681`), a drain has
a timeout, a teardown and a build end, a backoff delay passes, the lock is
FIFO, and a background wake that was spawned runs. Nothing is assumed of callers, events, runs or the heartbeat.

`LiveSpec` of `TriggerDelivery` has weak fairness for the listener, each worker, each retry timer and
each `inject()`. That a run ends is assumed of the agent. Nothing is assumed of the operator, the
control plane or the trigger, so `Served` is stated for executions in which the
process is, in the end, running.

`JobQueue` and `MCPClient` have a single weak fairness condition, on `Progress`:
the event loop does not stop while some task that waits for nothing outside can
go on. It need not be fair to each task, so what is proved live holds whatever
the loop's order. A handler that was told to stop ends (`CancelledHandlerEnds` and
`StopReturns` need it: the code tells it by cancelling its task), timers fire,
handshakes and closings time out; servers, callers and other handlers promise nothing.

`ToolGuards` has weak fairness for each call (the upstream answers or times out), for the passing of
time, and for `Admits`: clients keep calling the tool, without which an open circuit
stays open by design. Faults are bounded, so `CircuitCloses` says what happens
once they end.

`ProcessJournal` has none: what it promises is safety.

## 5. What is proved

`AgentProcessProofs` proves, for every set of callers, workers and restarts and every configuration that
satisfies `TasksAssumption` (the sets are disjoint, and the workers finitely many:
`config.concurrency` is a number) and `ConfigAssumption` (the range `config.py` validates):

| Theorem | Property | Inductive invariant |
| --- | --- | --- |
| `TypeCorrect` | `TypeOK` | itself, with `PlacesOK`: which tasks can be where |
| `LockIsExclusiveAlways` | `LockIsExclusive` | `LockInv`: of two tasks at the lock one is ahead of the other (`LockOrder`), and who holds it has nobody ahead (`HolderFirst`) |
| `QuiescentWhenDownAlways` | `QuiescentWhenDown` | `DownInv`: workers are gone while a build runs and from the start of a teardown (`WorkersGone`), which needs `LockInv` so that no second build starts some |
| `DrainEndsAlways` | `DrainEnds` | `DrainOwned`: some stop that set the flag is still before its teardown |
| `RestartsAreBoundedAlways` | `RestartsAreBounded` | `RestartInv`: unless one was overwritten, at most one restart is in its delay (`OnePending`), and the counter leaves it room |
| `NoEventSleepsAlways` | `NoEventSleeps` | `TypeOK`: for each action, that what it puts or suspends leaves nothing asleep (`Sleeping`, the property with the queue and the holders told apart); only for a finite set of workers is a count of zero nobody |
| `FailureIsAttendedAlways` | `FailureIsAttended` | `RestartTaskInv`: what `_restart_task` names is a task in its delay, or one that was cancelled and that a `start()` or `stop()` still waits for (`PendingInv`, `AwaitedInv`), so a failure that schedules nothing has somebody to attend to it; `BuildClean`: the streak of failures is over while a start builds, which needs `WorkersGone` so that no run is left to fail |

`LockIsExclusive` alone is not inductive: that the one ahead of everybody is unique says nothing about
who holds the lock already. Each proof has a step per action; the lemmas at
the head of a section say how the shared pieces (joining and leaving the lock,
cancelling a pending restart, scheduling one) move the tasks.

The other proof modules assume only what their `ASSUME`s say of the
bounds (and `TriggerDelivery` that `Workers` is finite: a teardown takes their events in some order):

| Theorem | Property | Inductive invariant |
| --- | --- | --- |
| `JobQueueProofs!TypeCorrect`, `JobHasOnePlace`, `OneHandlerPerJob`, `FateImplemented`, `RunsRecorded` | `TypeOK`, `PendingHasOnePlace`, `HandlerHasOneWorker`, `FateSpec`, `RunsAreRecorded` | `IInv`: `Steps`, who has which job and what its status and handler then are, and `Whereabouts`, which place a job's status leaves it in |
| `MCPClientProofs!TypeCorrect`, `SessionsHaveOwners`, `ExitIsComplete`, `RetiredSessionsFinish` | `TypeOK`, `NoOrphan`, `ExitLeavesNothing`, `RetiredFinishes` | `IInv`: sessions are opened in order (`Order`), one call holds the lock (`Lock`), a retired session is in use or about to be looked at (`InUse`), what is closed is unused (`ClosedUnused`), and what the exit leaves (`Leaving`) |
| `MCPClientProofs!HealthySessionsKept` | `HealthyKept` | `HInv`: one handshake at a time, somebody waits for it (`OneHandshake`) and its session is the one calls then get (`Handed`); between two openings the requests of this generation are on its session (`AskedCurrent`), and who wants it re-opened found it gone (`ReopensGone`) |
| `ProcessJournalProofs!RunsHaveTheirFate` | `InterruptedFate` | `IInv`: what a checkpoint keeps is in the file (`KeptInFile`), dead and tracked in an object that recovered (`KeptTracked`), and a settled run is in no file, and with its worker, done or lost in a crash (`SettledOver`) |
| `JournalValuesProofs!TypeCorrect`, `CrashKeepsTheValues`, `RewindIsExact`, `ReadersAlwaysAgree` | `TypeOK`, `Recoverable`, `RewindExact`, `EnginesAgree` | `VInv`: the writes without an entry are in order and end in the live value (`PendingOrder`, `PendingLast`); the live value is in the history of its key, and not before a write without an entry (`PendingSince`, `LiveSince`); what recovery finds is in the history (`FoundSince`) and is what a rewind rebuilds, except for keys that lost an entry (`ReadersAgree`) |
| `TriggerDeliveryProofs!TypeCorrect`, `EventHasOnePlace`, `DeliveryImplemented`, `AttemptsAreBounded`, `DownIsEmpty` | `TypeOK`, `OnePlace`, `Delivery`, `AttemptsBounded`, `DownHoldsNothing` | `IInv`: each event is in exactly one of thirteen places (`Partition`), the containers have no repetitions (`Containers`, `DeadLetters`), workers do not share an event (`Hands`), who is gone in which stage (`ControlInv`, `Trigger`), and what may have used its last attempt (`Tries`) |
| `TriggerDeliveryProofs!ArrivalOrder` | `InOrder` | `OrderInv`, over `IInv`: the queue, the leftovers and the buffer are each in order of arrival (`Sorted`), and the five places on the way to a worker follow one another (`Ranked`) |
| `ToolGuardsProofs!TypeCorrect`, `ProbeIsAlone`, `FlightIsAlone` | `TypeOK`, `OneProbe`, `OneFlight` | their conjunction |

The proof about `TriggerDelivery` has one lemma per action, which shows the parts of `IInv` that say
where nothing is and that some events `M` move to one place `t`, from a
place of `Sources(t)` (`Moves`). That alone gives the rest: `Partition` and `Tries` (`MovesKeep`),
and `Delivery`, because the fate of an event is read off its place (`FateIs`) and
a source is one edge of `EventFate` away (`SourceMoves`). `OnePlace` is not
inductive: it says nothing of events that have not been born, nor that
an event is in some place at all, and a teardown that gathers what a cancelled listener and a stopped
trigger held needs to know in which stages they hold anything.

`PendingHasOnePlace` is not inductive because it does not say that a job with a
worker has no place. `NoOrphan` is not because a call could hold the
lock twice over. `InterruptedFate` is not because the dead letters of a process
and those of its file must agree through a recovery: an interrupted run that is
done has to be out of `interrupted` before the file is written again.

Order of arrival rests on the same moves. An event goes from one of the five places (not yet born,
the buffer, what the listener or a teardown holds, the queue, the hands of the
workers) to the next on its way, which keeps the order if it was first there.
`InOrder` is not inductive: it does not say that events still to come are later than those
that have, nor that what `inject()` is about to put in the queue counts as requeued; and that
the listener and a teardown never both hold something is part of `IInv`. An event that leaves the way and comes back is
in `requeued`, which is exempt from the order.

The values of a journal are proved for journals of any length. Both readers are
folds (`FoldLeft`), and the library's inductions need an operator for the claim,
which the provers cannot instantiate. `FoldTheorems` states induction with a
set instead of an operator (a set of sequences that has the empty one and is
closed under `Append` has them all, from `WFMin` on the natural numbers), has the folded operator as a
`CONSTANT`, and is instantiated once for each reader. From one more step per
entry (`FoldAppend`) follow what one more entry does to each reader (`OneMore`) and that a
rewind is the last checkpoint and the updates after it (`CheckpointSplit`), which
is what recovery reads. `Recoverable` is not inductive because a later
checkpoint writes the live value, so that must be in the history too; and a
hook that runs after a newer write, or after the checkpoint that already has
its value, journals an older one, so the order of the pending writes counts.

`HealthyKept` is an action property about the moment a call begins to close a session. What makes
it true lies earlier: the call saw that session gone, no other opened one since
(its generation), and a session that is gone does not come back.

Model-checked only: the liveness properties, because fairness is out of the
prover's reach: `CallsReturn`, `Served` (of `TriggerDelivery` and of `JobQueue`),
`CancelledHandlerEnds`, `StopReturns`, `FailsFast` and `CircuitCloses`. Every
safety property that a passing run checks is proved.

## 6. Plan

Done: `ProcessLifecycle`, `AgentProcess` and its proofs; `EventFate`,
`TriggerDelivery` and its proofs; `JobFate`, `JobQueue`, `MCPClient`, `ProcessJournal`, `ToolGuards` and their proofs; every safety
property of the passing runs.

Next, in order:

1. `Coordinator` (`runtime/distributed/coordinator.py`): registration during a
   health check.
2. `MessageInbox` (`runtime/inbox.py`): questions, answers, eviction, expiry.
3. `Governance` (`budget.py`, `health.py`, `mission.py`): counters shared by
   concurrent runs.
4. The approval gate and the rate limiter of the server.
5. Proofs of what liveness rests on: that a task at the process lock is not
   behind itself, and that a call that waits has an owner of the session it waits for.

### Not modelled

Exporters, HTTP and CLI layers, stores over external databases, prompts,
guardrail classifiers and code generation: data, or input and output. The
engine: its graph is driven by a model's output inside one run. Of the modelled
components: the budget's and the mission's part of a checkpoint, and the extra checkpoints a
budget adds after failed runs; torn lines of a journal; the rotation of dead letters;
writes of a context from another thread, which have no hook; `rewind()` while a
payload scan is under way; the server-wide limiter, `CacheMiddleware` and the
Redis backend; the 401 refresh of a single HTTP request, elicitation and the fan-out of
`MCPMultiClient`; the backends of the job queue other than the in-memory one.
