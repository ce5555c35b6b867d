---------------------------- MODULE AgentProcess ----------------------------
(***************************************************************************)
(* The control plane of one agent process (promptise/runtime/process.py):  *)
(* start(), stop(), suspend(), resume(), the automatic restart, the        *)
(* heartbeat and the workers, as the asyncio tasks that run them.          *)
(*                                                                         *)
(* A step is what one task does between two points where it can be         *)
(* suspended: a SESSION_START / SESSION_END hook, the process lock, the    *)
(* teardown, the build of the agent, a payload scan, a run.  A lifecycle   *)
(* transition never suspends (its lock is not held across an await), so it *)
(* is part of the step that asks for it, with the listener _on_transition. *)
(*                                                                         *)
(* The process lock is an asyncio.Lock, which is FIFO: ahead[t] is the set *)
(* of tasks that reached it before t did.  add_trigger() and               *)
(* remove_trigger() take it too, and do nothing else here: a task with     *)
(* nobody ahead may still have to wait for them.                           *)
(***************************************************************************)
EXTENDS Integers, FiniteSets

CONSTANTS
    Callers,        \* tasks of the API, the runtime, a test: start() and stop()
    Workers,        \* config.concurrency worker tasks
    Restarters,     \* slots for tasks running _restart(); bounds how many live at once
    BgStop,         \* the background stop() of a process past its max_lifetime
    NoTask,
    RestartPolicy,  \* config.restart_policy
    MaxRestarts,    \* config.max_restarts
    MaxFailures,    \* config.max_consecutive_failures
    MaxLifetime,    \* whether config.max_lifetime is set
    IdleTimeout,    \* whether config.idle_timeout is set
    QueueSize       \* capacity of the trigger queue

Tasks == Callers \cup Workers \cup Restarters \cup {BgStop}

ASSUME TasksAssumption ==
    /\ Callers \cap Workers = {} /\ Callers \cap Restarters = {}
    /\ Workers \cap Restarters = {}
    /\ BgStop \notin Callers \cup Workers \cup Restarters
    /\ NoTask \notin Tasks
    /\ IsFiniteSet(Workers)
ASSUME ConfigAssumption ==
    /\ RestartPolicy \in {"always", "on_failure", "never"}
    /\ MaxRestarts \in Nat /\ MaxFailures \in Nat \ {0} /\ QueueSize \in Nat
    /\ MaxLifetime \in BOOLEAN /\ IdleTimeout \in BOOLEAN

VARIABLES
    state,                  \* the lifecycle state
    suspend_reason,         \* _suspend_reason: "idle", or any other
    pc,                     \* where each task is; "none" is a task that does not exist
    ahead,                  \* tasks in front of each task at the process lock
    stop_requested,         \* _stop_requested
    restarting,             \* _restarting
    recycled,               \* _recycled: STOPPED half-way through a recycle
    draining,               \* _draining: a graceful stop waits, no new run starts
    restart_task,           \* _restart_task, NoTask when None or done
    restart_count,          \* _restart_count
    failures,               \* _consecutive_failures
    session_active,         \* _session_active
    heartbeat,              \* whether the heartbeat task is alive
    queued,                 \* _trigger_queue.qsize()
    waking,                 \* a background _wake_if_idle() that has not run yet
    waiting,                \* a trigger's listener waits in put() for room in the queue
    overwritten             \* history: _restart_task was overwritten, a restart still
                            \* pending in it

vars == <<state, suspend_reason, pc, ahead, stop_requested, restarting, recycled,
          draining, restart_task, restart_count, failures, session_active,
          heartbeat, queued, waking, waiting, overwritten>>

LC == INSTANCE ProcessLifecycle

CancelPC == {"stop_cancel", "stop_cancel_drain"}
StopPC   == CancelPC \cup {"stop_drain", "stop_session", "stop_lock", "stop_shut",
                           "stop_release"}
StartPC  == {"start_cancel", "start_session", "start_lock", "start_shut", "start_build",
             "start_hook"}
\* _restart() before it begins: of a failure (counts=True) or of max_lifetime.
DelayPC   == {"re_delay", "re_recycle"}
RestartPC == DelayPC \cup {"re_session", "re_lock", "re_shut"}
WorkerPC  == {"idle", "hold", "scan", "run", "post", "failing", "judge"}
WaitsForLock == {"stop_lock", "start_lock", "re_lock"}
HoldsLock    == {"stop_shut", "stop_release", "start_shut", "start_build", "re_shut"}

LockUsers == {t \in Tasks : pc[t] \in WaitsForLock \cup HoldsLock}

\* The queue of the lock when t joins it, and when the tasks of S leave it
\* (they release it, or are cancelled while they wait).
Joined(t) == [u \in Tasks |-> IF u = t THEN LockUsers \ {t} ELSE ahead[u] \ {t}]
\* Mutant: a task that goes leaves the ones behind it waiting for it.
Left_NoWakeUp(S) == [u \in Tasks |-> IF u \in S THEN {} ELSE ahead[u]]
Left(S) == [u \in Tasks |-> IF u \in S THEN {} ELSE ahead[u] \ S]

\* Mutant: the lock is not taken.
HasLock_Unlocked(t) == t \in Tasks
HasLock(t) == ahead[t] = {}

\* _running_workers (a worker with an event that has no outcome yet, from the
\* payload scan on) and _inflight, the runs of the agent.  A worker in its own
\* stop() is in the first; whether its run is still in the second is left open.
RunningWorkers ==
    {w \in Workers : pc[w] \in {"scan", "run", "post", "failing"} \cup StopPC}
Inflight       == {w \in Workers : pc[w] \in {"run", "post"}}
QueuedEvents   == queued + Cardinality({w \in Workers : pc[w] = "hold"})

-----------------------------------------------------------------------------
(* Pieces the operations share *)

\* _end_session then the lock: the SESSION_END hook is awaited when a session
\* is active.  p is pc after what the task has already done in this step.
EndSessionThenLock(t, p, hook, lock) ==
    /\ session_active' = FALSE
    /\ IF session_active
       THEN pc' = [p EXCEPT ![t] = hook] /\ ahead' = Left({t})
       ELSE pc' = [p EXCEPT ![t] = lock] /\ ahead' = Joined(t)

\* start() and stop() cancel the pending restart, which is in its delay (nothing
\* of it ran yet), and wait until it has ended.
RestartPending(t) == restart_task \in Restarters \ {t}
CancelsPending(t, place) == pc' = [pc EXCEPT ![restart_task] = "cancelled", ![t] = place]
\* _restart_task.done(), of the task that was cancelled.
PendingDone == \A r \in Restarters : restart_task = r => pc[r] # "cancelled"
\* _restart_task gets another value: a restart scheduled while its cancelled
\* predecessor was awaited, or pending at a recycle, cannot be cancelled any more.
Overwrites == overwritten' = (overwritten \/ restart_task # NoTask)

\* _schedule_restart: one pending restart at a time, none after a stop, none
\* past max_restarts.  p is pc after what the failing task did.
\* Mutants: one attempt too few, one too many.
RestartIsDue_OneTooFew ==
    /\ RestartPolicy # "never" /\ ~stop_requested
    /\ restart_task = NoTask /\ restart_count + 1 < MaxRestarts
RestartIsDue_OneTooMany ==
    /\ RestartPolicy # "never" /\ ~stop_requested
    /\ restart_task = NoTask /\ restart_count <= MaxRestarts
RestartIsDue ==
    /\ RestartPolicy # "never" /\ ~stop_requested
    /\ restart_task = NoTask /\ restart_count < MaxRestarts

ScheduleRestart(p) ==
    \E r \in Restarters :
        /\ p[r] = "none"
        /\ pc' = [p EXCEPT ![r] = "re_delay"]
        /\ restart_task' = r

NoRestart(p) == pc' = p /\ UNCHANGED restart_task

\* The start of _shutdown: every worker but the caller is cancelled, and with
\* a worker the stop() it may be waiting in (after the restart that stop()
\* cancelled, if it waits for one).
\* Mutant: only the workers with a run are cancelled.
OtherWorkers_RunningOnly(t) == RunningWorkers \ {t}
OtherWorkers(t) == Workers \ {t}
BeginShutdown(t, next) ==
    /\ (\E w \in OtherWorkers(t) : pc[w] \in CancelPC) => PendingDone
    /\ pc' = [u \in Tasks |-> IF u = t THEN next
                              ELSE IF u \in OtherWorkers(t) THEN "none" ELSE pc[u]]
    /\ ahead' = Left(OtherWorkers(t))

\* What the end of _shutdown clears, whatever it was for.
\* Mutant: the drain flag is forgotten.
ClearRun_KeepsDraining == heartbeat' = FALSE /\ waiting' = FALSE /\ UNCHANGED draining
ClearRun == heartbeat' = FALSE /\ waiting' = FALSE /\ draining' = FALSE

\* _restart's finally clause, when a task of start() ends.
Restarting(t, r) == IF t \in Restarters THEN FALSE ELSE r

-----------------------------------------------------------------------------
(* stop() *)

\* What stop() does once no restart is pending.  A graceful one (drain) waits
\* for the runs in flight, if there are any.
StopGoesOn(t, drain) ==
    /\ restart_task' = NoTask /\ Overwrites
    /\ LET graceful == drain /\ state \in {"running", "suspended"}
       IN /\ draining' = (draining \/ graceful)
          /\ IF graceful /\ RunningWorkers \ {t} # {}
             THEN /\ pc' = [pc EXCEPT ![t] = "stop_drain"]
                  /\ UNCHANGED <<session_active, ahead>>
             ELSE EndSessionThenLock(t, pc, "stop_session", "stop_lock")

\* A stop() request: no automatic restart from here on.
Stop(t, drain) ==
    /\ stop_requested' = TRUE
    /\ IF RestartPending(t)
       THEN /\ CancelsPending(t, IF drain THEN "stop_cancel_drain" ELSE "stop_cancel")
            /\ UNCHANGED <<ahead, restart_task, draining, session_active, overwritten>>
       ELSE StopGoesOn(t, drain)
    /\ UNCHANGED <<state, suspend_reason, restarting, recycled, restart_count, failures,
                   heartbeat, queued, waking, waiting>>

StopCancelled(t) ==             \* the restart it cancelled has ended
    /\ pc[t] \in CancelPC /\ PendingDone
    /\ StopGoesOn(t, pc[t] = "stop_cancel_drain")
    /\ UNCHANGED <<state, suspend_reason, stop_requested, restarting, recycled,
                   restart_count, failures, heartbeat, queued, waking, waiting>>

CallStop(c) == pc[c] = "none" /\ \E drain \in BOOLEAN : Stop(c, drain)

\* _drain_runs is over: the runs it waited for ended, its timeout passed, or
\* abort_drain() was called.
StopDrained(t) ==
    /\ pc[t] = "stop_drain"
    /\ EndSessionThenLock(t, pc, "stop_session", "stop_lock")
    /\ UNCHANGED <<state, suspend_reason, stop_requested, restarting, recycled,
                   draining, restart_task, restart_count, failures, heartbeat, queued,
                   waking, waiting, overwritten>>

\* The SESSION_END hook of stop(), start() or _restart() returns: the task
\* goes to the process lock.
SessionEnded(t) ==
    /\ \/ pc[t] = "stop_session"  /\ pc' = [pc EXCEPT ![t] = "stop_lock"]
       \/ pc[t] = "start_session" /\ pc' = [pc EXCEPT ![t] = "start_lock"]
       \/ pc[t] = "re_session"    /\ pc' = [pc EXCEPT ![t] = "re_lock"]
    /\ ahead' = Joined(t)
    /\ UNCHANGED <<state, suspend_reason, stop_requested, restarting, recycled,
                   draining, restart_task, restart_count, failures, session_active,
                   heartbeat, queued, waking, waiting, overwritten>>

\* A stop() returns to its caller.
Returns(t) ==
    /\ pc' = [pc EXCEPT ![t] = "none"]
    /\ ahead' = Left({t})

\* stop() has the lock.
StopFinishesRecycle(t) ==       \* stopped in the middle of a recycle
    /\ pc[t] = "stop_lock" /\ HasLock(t)
    /\ state = "stopped" /\ recycled
    /\ queued' = 0
    /\ recycled' = FALSE /\ suspend_reason' = "none"
    /\ pc' = [pc EXCEPT ![t] = "stop_release"]
    /\ UNCHANGED <<state, ahead, stop_requested, restarting, draining, restart_task,
                   restart_count, failures, session_active, heartbeat, waking, waiting,
                   overwritten>>

StopNothingToDo(t) ==           \* somebody else stopped it
    /\ pc[t] = "stop_lock" /\ HasLock(t)
    /\ state = "stopped" /\ ~recycled
    /\ Returns(t)
    /\ UNCHANGED <<state, suspend_reason, stop_requested, restarting, recycled,
                   draining, restart_task, restart_count, failures, session_active,
                   heartbeat, queued, waking, waiting, overwritten>>

StopNeverStarted(t) ==
    /\ pc[t] = "stop_lock" /\ HasLock(t)
    /\ state = "created"
    /\ state' = "stopped"
    /\ recycled' = FALSE /\ suspend_reason' = "none"
    /\ pc' = [pc EXCEPT ![t] = "stop_release"]
    /\ UNCHANGED <<ahead, stop_requested, restarting, draining, restart_task,
                   restart_count, failures, session_active, heartbeat, queued, waking,
                   waiting, overwritten>>

StopBeginsShutdown(t) ==
    /\ pc[t] = "stop_lock" /\ HasLock(t)
    /\ state \notin {"created", "stopped"}
    /\ LC!Transition("stopping")
    /\ BeginShutdown(t, "stop_shut")
    /\ UNCHANGED <<suspend_reason, stop_requested, restarting, recycled, draining,
                   restart_task, restart_count, failures, session_active, heartbeat,
                   queued, waking, waiting, overwritten>>

\* The rest of _shutdown(final=True), up to what _release waits for.
StopShutdown(t) ==
    /\ pc[t] = "stop_shut"
    /\ LC!Transition("stopped")
    /\ ClearRun
    /\ queued' = 0
    /\ recycled' = FALSE /\ suspend_reason' = "none"
    /\ pc' = [pc EXCEPT ![t] = "stop_release"]
    /\ UNCHANGED <<ahead, stop_requested, restarting, restart_task, restart_count,
                   failures, session_active, waking, overwritten>>

\* _release awaits the background tasks, other than itself, with the lock
\* held.  A worker that stopped its own process ends here.
StopReleased(t) ==
    /\ pc[t] = "stop_release"
    /\ t = BgStop \/ pc[BgStop] = "none"
    /\ ~waking
    /\ Returns(t)
    /\ UNCHANGED <<state, suspend_reason, stop_requested, restarting, recycled,
                   draining, restart_task, restart_count, failures, session_active,
                   heartbeat, queued, waking, waiting, overwritten>>

-----------------------------------------------------------------------------
(* start() *)

\* start() up to the lock, in lifecycle state s, once no restart is pending: the
\* session of a FAILED process ends.
StartGoesOn(t, s) ==
    IF s = "failed"
    THEN EndSessionThenLock(t, pc, "start_session", "start_lock")
    ELSE /\ pc' = [pc EXCEPT ![t] = "start_lock"]
         /\ ahead' = Joined(t)
         /\ UNCHANGED session_active

Start(t, s) ==
    /\ IF RestartPending(t)
       THEN /\ CancelsPending(t, "start_cancel")
            /\ ahead' = Left({t})
            /\ UNCHANGED session_active
       ELSE StartGoesOn(t, s)
    /\ UNCHANGED restart_task

StartCancelled(t) ==            \* the restart it cancelled has ended
    /\ pc[t] = "start_cancel" /\ PendingDone
    /\ StartGoesOn(t, state)
    /\ restart_task' = NoTask /\ Overwrites
    /\ UNCHANGED <<state, suspend_reason, stop_requested, restarting, recycled,
                   draining, restart_count, failures, heartbeat, queued, waking,
                   waiting>>

CallStart(c) ==
    /\ pc[c] = "none"
    /\ Start(c, state)
    /\ UNCHANGED <<state, suspend_reason, stop_requested, restarting, recycled,
                   draining, restart_count, failures, heartbeat, queued, waking,
                   waiting, overwritten>>

StartRefused(t) ==              \* StateError
    /\ pc[t] = "start_lock" /\ HasLock(t)
    /\ state # "failed" /\ ~LC!CanTransition(state, "starting")
    /\ pc' = [pc EXCEPT ![t] = "none"]
    /\ ahead' = Left({t})
    /\ restarting' = Restarting(t, restarting)
    /\ UNCHANGED <<state, suspend_reason, stop_requested, recycled, draining,
                   restart_task, restart_count, failures, session_active, heartbeat,
                   queued, waking, waiting, overwritten>>

StartCleansUp(t) ==             \* _shutdown(final=False) of a FAILED process
    /\ pc[t] = "start_lock" /\ HasLock(t)
    /\ state = "failed"
    /\ BeginShutdown(t, "start_shut")
    /\ UNCHANGED <<state, suspend_reason, stop_requested, restarting, recycled,
                   draining, restart_task, restart_count, failures, session_active,
                   heartbeat, queued, waking, waiting, overwritten>>

StartBegins(t) ==               \* from the transition to STARTING to the build
    /\ \/ pc[t] = "start_lock" /\ HasLock(t) /\ state # "failed"
          /\ UNCHANGED <<heartbeat, waiting>>
       \/ pc[t] = "start_shut" /\ heartbeat' = FALSE /\ waiting' = FALSE
    /\ LC!Transition("starting")
    /\ stop_requested' = FALSE
    /\ recycled' = FALSE
    /\ draining' = FALSE
    /\ failures' = 0
    /\ pc' = [pc EXCEPT ![t] = "start_build"]
    /\ UNCHANGED <<suspend_reason, ahead, restarting, restart_task, restart_count,
                   session_active, queued, waking, overwritten>>

StartSucceeds(t) ==
    /\ pc[t] = "start_build"
    /\ LC!Transition("running")
    /\ suspend_reason' = "none"
    /\ session_active' = TRUE
    /\ heartbeat' = TRUE
    /\ pc' = [u \in Tasks |-> IF u = t THEN "start_hook"
                              ELSE IF u \in Workers THEN "idle" ELSE pc[u]]
    /\ ahead' = Left({t})
    /\ UNCHANGED <<stop_requested, restarting, recycled, draining, restart_task,
                   restart_count, failures, queued, waking, waiting, overwritten>>

\* The agent, a secret or a trigger cannot be built.  The caller of start()
\* is told; only a failing restart is tried again.
StartFails(t) ==
    /\ pc[t] = "start_build"
    /\ LC!Transition("failed")
    /\ LET p == [pc EXCEPT ![t] = "none"]
       IN IF restarting /\ RestartIsDue THEN ScheduleRestart(p) ELSE NoRestart(p)
    /\ ahead' = Left({t})
    /\ restarting' = Restarting(t, restarting)
    /\ UNCHANGED <<suspend_reason, stop_requested, recycled, draining, restart_count,
                   failures, session_active, heartbeat, queued, waking, waiting,
                   overwritten>>

StartReturns(t) ==              \* the SESSION_START hook has run
    /\ pc[t] = "start_hook"
    /\ pc' = [pc EXCEPT ![t] = "none"]
    /\ restarting' = Restarting(t, restarting)
    /\ UNCHANGED <<state, suspend_reason, ahead, stop_requested, recycled, draining,
                   restart_task, restart_count, failures, session_active, heartbeat,
                   queued, waking, waiting, overwritten>>

-----------------------------------------------------------------------------
(* _restart() *)

RestartCancelled(r) ==          \* by the start() or stop() that waits for it
    /\ pc[r] = "cancelled"
    /\ pc' = [pc EXCEPT ![r] = "none"]
    /\ restart_task' = IF restart_task = r THEN NoTask ELSE restart_task
    /\ UNCHANGED <<state, suspend_reason, ahead, stop_requested, restarting, recycled,
                   draining, restart_count, failures, session_active, heartbeat, queued,
                   waking, waiting, overwritten>>

RestartGivesUp(r) ==            \* a stop() came during the delay
    /\ pc[r] \in DelayPC /\ stop_requested
    /\ pc' = [pc EXCEPT ![r] = "none"]
    /\ restart_task' = IF restart_task = r THEN NoTask ELSE restart_task
    /\ UNCHANGED <<state, suspend_reason, ahead, stop_requested, restarting, recycled,
                   draining, restart_count, failures, session_active, heartbeat, queued,
                   waking, waiting, overwritten>>

RestartBegins(r) ==             \* the backoff delay is over
    /\ pc[r] \in DelayPC /\ ~stop_requested
    /\ restart_count' = IF pc[r] = "re_delay" THEN restart_count + 1 ELSE restart_count
    /\ restart_task' = NoTask
    /\ restarting' = TRUE
    /\ EndSessionThenLock(r, pc, "re_session", "re_lock")
    /\ UNCHANGED <<state, suspend_reason, stop_requested, recycled, draining, failures,
                   heartbeat, queued, waking, waiting, overwritten>>

RestartRefused(r) ==            \* StateError from _shutdown, logged
    /\ pc[r] = "re_lock" /\ HasLock(r)
    /\ state # "failed" /\ ~LC!CanTransition(state, "stopping")
    /\ pc' = [pc EXCEPT ![r] = "none"]
    /\ ahead' = Left({r})
    /\ restarting' = FALSE
    /\ UNCHANGED <<state, suspend_reason, stop_requested, recycled, draining,
                   restart_task, restart_count, failures, session_active, heartbeat,
                   queued, waking, waiting, overwritten>>

RestartBeginsShutdown(r) ==
    /\ pc[r] = "re_lock" /\ HasLock(r)
    /\ IF state = "failed" THEN UNCHANGED state ELSE LC!Transition("stopping")
    /\ BeginShutdown(r, "re_shut")
    /\ UNCHANGED <<suspend_reason, stop_requested, restarting, recycled, draining,
                   restart_task, restart_count, failures, session_active, heartbeat,
                   queued, waking, waiting, overwritten>>

\* The rest of _shutdown(final=False); the lock is released, and start() is
\* called unless a stop() has come.  The queue is kept for the next run.
RestartShutdown(r) ==
    /\ pc[r] = "re_shut"
    /\ ClearRun
    /\ IF state = "failed"
       THEN UNCHANGED <<state, recycled>>
       ELSE LC!Transition("stopped") /\ recycled' = TRUE
    /\ IF stop_requested
       THEN /\ pc' = [pc EXCEPT ![r] = "none"]
            /\ ahead' = Left({r})
            /\ restarting' = FALSE
            /\ UNCHANGED <<restart_task, session_active>>
       ELSE Start(r, state') /\ UNCHANGED restarting
    /\ UNCHANGED <<suspend_reason, stop_requested, restart_count, failures, queued,
                   waking, overwritten>>

-----------------------------------------------------------------------------
(* The workers *)

Take(w) ==                      \* _worker_loop: the event is held from here on
    /\ pc[w] = "idle" /\ queued > 0
    /\ queued' = queued - 1
    /\ pc' = [pc EXCEPT ![w] = "hold"]
    /\ UNCHANGED <<state, suspend_reason, ahead, stop_requested, restarting, recycled,
                   draining, restart_task, restart_count, failures, session_active,
                   heartbeat, waking, waiting, overwritten>>

\* Moves of a worker that change nothing but where it is.
WorkerMoves(w, from, to) ==
    /\ pc[w] = from
    /\ pc' = [pc EXCEPT ![w] = to]
    /\ UNCHANGED <<state, suspend_reason, ahead, stop_requested, restarting, recycled,
                   draining, restart_task, restart_count, failures, session_active,
                   heartbeat, queued, waking, waiting, overwritten>>

DropHeld(w) ==                  \* dead-lettered: the process cannot run it
    /\ state \notin {"starting", "suspended"}
    /\ state # "running" \/ draining
    /\ WorkerMoves(w, "hold", "idle")
BeginScan(w) == state = "running" /\ ~draining /\ WorkerMoves(w, "hold", "scan")
Flagged(w)   == WorkerMoves(w, "scan", "idle")
BeginRun(w)  == WorkerMoves(w, "scan", "run")
\* The run is refused, blocked, or fails with retries left.
SetAside(w)  == WorkerMoves(w, "run", "idle")

\* The agent answered: the run counts as a success while what follows it
\* (checkpoint, budget, health, mission) is still to come.
RunAnswers(w) ==
    /\ pc[w] = "run"
    /\ pc' = [pc EXCEPT ![w] = "post"]
    /\ restart_count' = 0
    /\ UNCHANGED <<state, suspend_reason, ahead, stop_requested, restarting, recycled,
                   draining, restart_task, failures, session_active, heartbeat, queued,
                   waking, waiting, overwritten>>

RunSucceeds(w) ==
    /\ pc[w] = "post"
    /\ pc' = [pc EXCEPT ![w] = "idle"]
    /\ failures' = 0
    /\ UNCHANGED <<state, suspend_reason, ahead, stop_requested, restarting, recycled,
                   draining, restart_task, restart_count, session_active, heartbeat,
                   queued, waking, waiting, overwritten>>

\* The event exhausted its retries: the failure counts at once.
RunFails(w) ==
    /\ pc[w] = "run"
    /\ pc' = [pc EXCEPT ![w] = "failing"]
    /\ failures' = failures + 1
    /\ UNCHANGED <<state, suspend_reason, ahead, stop_requested, restarting, recycled,
                   draining, restart_task, restart_count, session_active, heartbeat,
                   queued, waking, waiting, overwritten>>

\* Health is told, the event goes to the dead letters, the TASK_COMPLETED hooks
\* run; only then the worker compares the count, as other runs have left it.
FailureIsSettled(w) == WorkerMoves(w, "failing", "judge")
FailureIsBorne(w)   == failures < MaxFailures /\ WorkerMoves(w, "judge", "idle")

\* The last failure of the streak: the worker fails the process (unless its
\* state allows no failure) and ends; the queue goes to the dead letters.
RunFailsProcess(w) ==
    /\ pc[w] = "judge" /\ failures >= MaxFailures
    /\ queued' = 0
    /\ LET p == [pc EXCEPT ![w] = "none"]
       IN IF LC!CanTransition(state, "failed")
          THEN /\ state' = "failed"
               /\ IF RestartIsDue THEN ScheduleRestart(p) ELSE NoRestart(p)
          ELSE NoRestart(p) /\ UNCHANGED state
    /\ UNCHANGED <<suspend_reason, ahead, stop_requested, restarting, recycled,
                   draining, restart_count, failures, session_active, heartbeat, waking,
                   waiting, overwritten>>

\* A budget violation or a health anomaly of the run: on_exceeded and
\* on_anomaly suspend the process, or stop it from inside the run; a mission
\* that completes stops it too.
Governed(w) == pc[w] \in {"run", "post", "failing"}
Suspend(reason) == LC!Transition("suspended") /\ suspend_reason' = reason

GovernancePauses(w) ==
    /\ Governed(w)
    /\ Suspend("other")
    /\ UNCHANGED <<pc, ahead, stop_requested, restarting, recycled, draining,
                   restart_task, restart_count, failures, session_active, heartbeat,
                   queued, waking, waiting, overwritten>>
GovernanceStops(w) == Governed(w) /\ Stop(w, FALSE)

-----------------------------------------------------------------------------
(* The heartbeat, the operator and the events *)

\* Mutant: an event a worker holds is overlooked.
Idle_QueueOnly == Inflight = {} /\ queued = 0
Idle == Inflight = {} /\ QueuedEvents = 0

HeartbeatIdle ==
    /\ heartbeat /\ IdleTimeout /\ state = "running" /\ Idle
    /\ Suspend("idle")
    /\ UNCHANGED <<pc, ahead, stop_requested, restarting, recycled, draining,
                   restart_task, restart_count, failures, session_active, heartbeat,
                   queued, waking, waiting, overwritten>>

\* max_lifetime: recycle under restart_policy "always", stop otherwise.  The
\* heartbeat ends.
HeartbeatRecycles ==
    /\ heartbeat /\ MaxLifetime /\ state = "running" /\ RestartPolicy = "always"
    /\ \E r \in Restarters :
          /\ pc[r] = "none"
          /\ pc' = [pc EXCEPT ![r] = "re_recycle"]
          /\ restart_task' = r /\ Overwrites
    /\ heartbeat' = FALSE
    /\ UNCHANGED <<state, suspend_reason, ahead, stop_requested, restarting, recycled,
                   draining, restart_count, failures, session_active, queued, waking,
                   waiting>>

HeartbeatStops ==
    /\ heartbeat /\ MaxLifetime /\ state = "running" /\ RestartPolicy # "always"
    /\ pc[BgStop] = "none"
    /\ pc' = [pc EXCEPT ![BgStop] = "bg"]
    /\ heartbeat' = FALSE
    /\ UNCHANGED <<state, suspend_reason, ahead, stop_requested, restarting, recycled,
                   draining, restart_task, restart_count, failures, session_active,
                   queued, waking, waiting, overwritten>>

BackgroundStop == pc[BgStop] = "bg" /\ Stop(BgStop, FALSE)

OperatorSuspends ==
    /\ Suspend("other")
    /\ UNCHANGED <<pc, ahead, stop_requested, restarting, recycled, draining,
                   restart_task, restart_count, failures, session_active, heartbeat,
                   queued, waking, waiting, overwritten>>

OperatorResumes ==
    /\ state = "suspended"
    /\ LC!Transition("running")
    /\ suspend_reason' = "none"
    /\ UNCHANGED <<pc, ahead, stop_requested, restarting, recycled, draining,
                   restart_task, restart_count, failures, session_active, heartbeat,
                   queued, waking, waiting, overwritten>>

\* Mutant: the queue has no bound.
QueueAfterPut_Unbounded == queued + 1
QueueAfterPut == IF queued < QueueSize THEN queued + 1 ELSE queued

\* _wake_if_idle.
WakesProcess == state = "suspended" /\ suspend_reason = "idle"
Wakes ==
    IF WakesProcess
    THEN state' = "running" /\ suspend_reason' = "none"
    ELSE UNCHANGED <<state, suspend_reason>>

\* An event reaches the queue (a listener's, inject(), a redelivery): it wakes a
\* process suspended for idle_timeout in the same step.  A full queue
\* dead-letters it.  (A graceful stop refuses events before their admission
\* hooks: one admitted before is put all the same.)
EventArrives ==
    /\ Wakes
    /\ queued' = QueueAfterPut
    /\ UNCHANGED <<pc, ahead, stop_requested, restarting, recycled, draining,
                   restart_task, restart_count, failures, session_active, heartbeat,
                   waking, waiting, overwritten>>

\* The listener of a trigger waits for room instead, and does not wake the
\* process again when there is some.  (Without idle_timeout there is no process
\* to wake, and its put is an EventArrives like any other.)
ListenerWaits ==
    /\ IdleTimeout
    /\ state \notin {"created", "stopped"} /\ ~waiting
    /\ queued = QueueSize
    /\ Wakes
    /\ waiting' = TRUE
    /\ UNCHANGED <<pc, ahead, stop_requested, restarting, recycled, draining,
                   restart_task, restart_count, failures, session_active, heartbeat,
                   queued, waking, overwritten>>
ListenerPuts ==
    /\ waiting /\ queued < QueueSize
    /\ queued' = queued + 1
    /\ waiting' = FALSE
    /\ UNCHANGED <<state, suspend_reason, pc, ahead, stop_requested, restarting,
                   recycled, draining, restart_task, restart_count, failures,
                   session_active, heartbeat, waking, overwritten>>

\* _requeue_retry: the event is put at once, the process is woken by a background
\* task of its own.
\* Mutant: the retry wakes nobody.
SpawnsWake_Never == FALSE
SpawnsWake == WakesProcess
RetryArrives ==
    /\ state \notin {"failed", "stopping", "stopped"} /\ ~draining
    /\ queued < QueueSize
    /\ queued' = queued + 1
    /\ waking' = (waking \/ SpawnsWake)
    /\ UNCHANGED <<state, suspend_reason, pc, ahead, stop_requested, restarting,
                   recycled, draining, restart_task, restart_count, failures,
                   session_active, heartbeat, waiting, overwritten>>
WakeRuns ==
    /\ waking
    /\ waking' = FALSE
    /\ Wakes
    /\ UNCHANGED <<pc, ahead, stop_requested, restarting, recycled, draining,
                   restart_task, restart_count, failures, session_active, heartbeat,
                   queued, waiting, overwritten>>

-----------------------------------------------------------------------------

Init ==
    /\ state = "created" /\ suspend_reason = "none"
    /\ pc = [t \in Tasks |-> "none"]
    /\ ahead = [t \in Tasks |-> {}]
    /\ stop_requested = FALSE /\ restarting = FALSE /\ recycled = FALSE /\ draining = FALSE
    /\ restart_task = NoTask /\ restart_count = 0 /\ failures = 0
    /\ session_active = FALSE /\ heartbeat = FALSE
    /\ queued = 0 /\ waking = FALSE /\ waiting = FALSE
    /\ overwritten = FALSE

\* What a task does on its own once it has started: it never waits for
\* another request.
Continue(t) ==
    \/ StopCancelled(t) \/ StopDrained(t) \/ SessionEnded(t)
    \/ StopFinishesRecycle(t) \/ StopNothingToDo(t) \/ StopNeverStarted(t)
    \/ StopBeginsShutdown(t) \/ StopShutdown(t) \/ StopReleased(t)
    \/ StartCancelled(t) \/ StartRefused(t) \/ StartCleansUp(t) \/ StartBegins(t)
    \/ StartSucceeds(t) \/ StartFails(t) \/ StartReturns(t)

RestartContinue(r) ==
    \/ RestartCancelled(r) \/ RestartGivesUp(r) \/ RestartBegins(r) \/ RestartRefused(r)
    \/ RestartBeginsShutdown(r) \/ RestartShutdown(r)

Work(w) ==
    \/ Take(w) \/ DropHeld(w) \/ BeginScan(w) \/ Flagged(w) \/ BeginRun(w)
    \/ SetAside(w) \/ RunAnswers(w) \/ RunSucceeds(w)
    \/ RunFails(w) \/ FailureIsSettled(w) \/ FailureIsBorne(w) \/ RunFailsProcess(w)
    \/ GovernancePauses(w) \/ GovernanceStops(w)

Next ==
    \/ \E t \in Tasks : Continue(t)
    \/ \E r \in Restarters : RestartContinue(r)
    \/ \E w \in Workers : Work(w)
    \/ \E c \in Callers : CallStart(c) \/ CallStop(c)
    \/ HeartbeatIdle \/ HeartbeatRecycles \/ HeartbeatStops \/ BackgroundStop
    \/ OperatorSuspends \/ OperatorResumes
    \/ EventArrives \/ ListenerWaits \/ ListenerPuts \/ RetryArrives \/ WakeRuns

Spec == Init /\ [][Next]_vars

\* A task that has started goes on: a hook is cut off by its timeout (30 s by
\* default), a drain, a teardown and a build end, the backoff delay passes, and
\* the lock is FIFO.  No fairness for requests, runs, events or the heartbeat.
Fairness ==
    /\ \A t \in Tasks : WF_vars(Continue(t))
    /\ \A r \in Restarters : WF_vars(RestartContinue(r))
    /\ WF_vars(BackgroundStop) /\ WF_vars(WakeRuns)

LiveSpec == Spec /\ Fairness

-----------------------------------------------------------------------------
(* Properties *)

\* Each operation is run by the tasks that can run it.
PCs == {"none", "bg", "cancelled"} \cup StopPC \cup StartPC \cup RestartPC \cup WorkerPC
PlacesOK ==
    \A t \in Tasks :
        /\ pc[t] \in StopPC => t \in Callers \cup Workers \cup {BgStop}
        /\ pc[t] = "stop_cancel_drain" => t \in Callers
        /\ pc[t] \in StartPC => t \in Callers \cup Restarters
        /\ pc[t] \in RestartPC \cup {"cancelled"} => t \in Restarters
        /\ pc[t] \in WorkerPC => t \in Workers
        /\ pc[t] = "bg" => t = BgStop

\* Every variable has its type, and the queue never exceeds its capacity.
TypeOK ==
    /\ state \in LC!ProcessState
    /\ suspend_reason \in {"none", "idle", "other"}
    /\ pc \in [Tasks -> PCs]
    /\ PlacesOK
    /\ ahead \in [Tasks -> SUBSET Tasks]
    /\ stop_requested \in BOOLEAN /\ restarting \in BOOLEAN /\ recycled \in BOOLEAN
    /\ draining \in BOOLEAN /\ session_active \in BOOLEAN /\ heartbeat \in BOOLEAN
    /\ waking \in BOOLEAN /\ waiting \in BOOLEAN
    /\ overwritten \in BOOLEAN
    /\ restart_task \in Restarters \cup {NoTask}
    /\ restart_count \in Nat /\ failures \in Nat
    /\ queued \in 0..QueueSize

\* Teardowns and builds never overlap: of all the tasks that stop, start and
\* restart the process, one at a time is inside the process lock.
LockIsExclusive ==
    \A t, u \in Tasks : pc[t] \in HoldsLock /\ pc[u] \in HoldsLock => t = u

\* A process that is down has nothing left running: no heartbeat, no refusal of
\* events, and no worker but one that stopped its own process and is returning.
QuiescentWhenDown ==
    state \in {"created", "stopped"} =>
        /\ \A w \in Workers : pc[w] \in {"none", "stop_release"}
        /\ ~heartbeat /\ ~draining

\* The process refuses new runs and events only while a graceful stop() of a
\* caller is still under way: whatever restarts, failures and other stops do
\* meanwhile, _draining is never left behind.
DrainEnds ==
    draining => \E c \in Callers : pc[c] \in StopPC \ CancelPC

\* Somebody attends to a failed process: a restart is pending or under way, a
\* start() is on its way to the build, or a stop() was asked for or is on its way.
Attending == (StartPC \ {"start_hook"}) \cup RestartPC \cup (StopPC \ {"stop_release"})
Attended  == stop_requested \/ \E t \in Tasks : pc[t] \in Attending

\* A process that its own runs failed is not left alone while attempts remain:
\* neither at the failure nor, once somebody attends to it, at any later step.
\* (Left alone without attempts it stays so, also when the answer of another
\* worker's run then resets the count.)
FailureIsAttended ==
    [][state' = "failed" /\ failures' >= MaxFailures /\ ~Attended' =>
           \/ RestartPolicy = "never" \/ restart_count >= MaxRestarts
           \/ state = "failed" /\ ~Attended]_vars

\* Counted restarts never exceed max_restarts in a row, whatever starts, stops and
\* failures overlap, unless a restart still pending was overwritten: that one
\* comes too, uncounted when the next one was scheduled.
RestartsAreBounded == restart_count <= MaxRestarts \/ overwritten

\* No step puts an event to sleep: the process that idle_timeout suspends has
\* none, in the queue or in the hands of a worker, and one that arrives later
\* wakes the process or comes with a wake that is on its way.  (But for a
\* listener that waited for room: it woke the process before it waited.)
Asleep == WakesProcess /\ QueuedEvents > 0 /\ ~waking
NoEventSleeps == [][Asleep' => Asleep \/ ListenerPuts]_vars

\* start() and stop() return to their caller.
CallsReturn == \A c \in Callers : (pc[c] # "none") ~> (pc[c] = "none")

\* A process that a stop() has stopped, not a recycle, is not started again by
\* an automatic restart (process.py:1747: "An explicit stop also cancels any
\* pending automatic restart").
HaltedStaysDown ==
    [][state = "stopped" /\ ~recycled =>
           ~\E r \in Restarters : pc[r] = "start_lock" /\ pc'[r] = "start_build"]_vars

\* A session has ended, SESSION_END dispatched, before its teardown begins
\* (hooks.py:95: "The process is about to stop (before teardown)").
SessionEndsFirst ==
    [][(state # "stopping" /\ state' = "stopping") => session_active = FALSE]_vars

=============================================================================
