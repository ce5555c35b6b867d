------------------------------ MODULE JobQueue ------------------------------
(***************************************************************************)
(* The job queue of the MCP server (promptise/mcp/server/_queue.py) with   *)
(* its in-memory backend: callers submit and cancel jobs, workers run each *)
(* in a handler task of its own, failed runs wait out a backoff, and the   *)
(* server stops and starts the workers again.                              *)
(*                                                                         *)
(* All of it is asyncio code of one event loop, so a step lasts from one   *)
(* suspension to the next.  With this backend a task is suspended only in  *)
(* put() on a full queue, in asyncio.wait() for a handler, in a gather()   *)
(* of a handler that was told to stop, in a sleep, and in stop() for the   *)
(* workers.                                                                *)
(***************************************************************************)
EXTENDS Integers, FiniteSets, FiniteSetsExt

CONSTANTS
    Jobs,           \* numbered in the order of their submission (created_at)
    Workers,        \* the max_workers worker tasks
    NoJob,
    Rank,           \* the rank of each job's priority in _PRIORITY_MAP
    MaxSize,        \* capacity of the backend's queue, 0 for none
    MaxRetries,     \* max_retries of the job type
    GracePeriod,    \* whether cancel_grace_period is set
    MaxStarts       \* bound: how often the server starts the queue

ASSUME JobsAssumption == Jobs \subseteq Nat /\ NoJob \notin Jobs
ASSUME SizesAssumption == MaxSize \in Nat /\ MaxRetries \in Nat /\ MaxStarts \in Nat
ASSUME RankAssumption == Rank \in [Jobs -> Nat]
ASSUME GraceAssumption == GracePeriod \in BOOLEAN

VARIABLES
    status,     \* job.status; "none" before the submission
    stored,     \* the jobs the backend has a record of
    attempts,   \* job.attempts
    queued,     \* how many entries of the PriorityQueue name the job
    submitting, \* jobs whose submit() is blocked in put()
    retrying,   \* _retry_timers: jobs whose timer is asleep
    requeueing, \* jobs whose timer is blocked in put()
    stage,      \* "down", "up", or where stop() is: "stopping", "requeue"
    returning,  \* interrupted timers whose jobs stop() has not put back yet
    stopPut,    \* the job stop() is blocked in put() with
    at,         \* where each worker is
    job,        \* the job each worker has
    token,      \* jobs whose cancellation token is set
    handler,    \* the handler task of each job that a worker runs
    grace,      \* jobs with a task.cancel scheduled by call_later
    starts,     \* bound: the starts so far
    abandoned   \* history: jobs whose submit() was cancelled in put()

waitingPlaces == <<submitting, retrying, requeueing, returning, stopPut>>
runVars == <<token, handler, grace>>
vars == <<status, stored, attempts, queued, submitting, retrying, requeueing, stage,
          returning, stopPut, at, job, token, handler, grace, starts, abandoned>>

Terminal == {"completed", "failed", "cancelled", "timeout"}
Statuses == {"none", "pending", "running"} \union Terminal

\* A handler task runs until it is told to stop ("told", which it may ignore
\* or answer late) and ends with a result, an exception or a cancellation.
Alive == {"running", "told"}
Ended == {"ok", "error", "cancelled"}
Handlers == {"none"} \union Alive \union Ended

Held(j) == \E w \in Workers : job[w] = j

\* task.cancel(), on a handler task that may be done.
\* Mutant: nobody tells the task.
Told_Kept(j) == handler[j]
Told(j) == IF handler[j] \in Alive THEN "told" ELSE handler[j]

-----------------------------------------------------------------------------
(* The PriorityQueue of the backend *)

Size == MapThenSumSet(LAMBDA j : queued[j], Jobs)
Room == MaxSize = 0 \/ Size < MaxSize

Put(j) == queued' = [queued EXCEPT ![j] = @ + 1]

\* Tuples (rank, created_at, id): the lowest rank first, then the oldest.
Before(i, j) == Rank[i] < Rank[j] \/ (Rank[i] = Rank[j] /\ i < j)

\* Mutant: the queue is not found empty.
IsNext_Empty(j) == \A i \in Jobs \ {j} : queued[i] > 0 => Before(j, i)
IsNext(j) == queued[j] > 0 /\ \A i \in Jobs \ {j} : queued[i] > 0 => Before(j, i)

-----------------------------------------------------------------------------
(* Callers *)

\* submit(): the record comes first, then put(), which may block.
Submit(j) ==
    /\ status[j] = "none" /\ \A i \in Jobs : i < j => status[i] # "none"
    /\ status' = [status EXCEPT ![j] = "pending"]
    /\ stored' = stored \union {j}
    /\ \/ Room /\ Put(j) /\ UNCHANGED submitting
       \/ ~Room /\ submitting' = submitting \union {j} /\ UNCHANGED queued
    /\ UNCHANGED <<attempts, retrying, requeueing, stage, returning, stopPut, at, job,
                   starts, abandoned>>
    /\ UNCHANGED runVars

\* Which of the blocked put() calls goes first is left open: one that is woken
\* finds the queue full again when another call took the room meanwhile.
SubmitPuts(j) ==
    /\ j \in submitting /\ Room
    /\ submitting' = submitting \ {j}
    /\ Put(j)
    /\ UNCHANGED <<status, stored, attempts, retrying, requeueing, stage, returning,
                   stopPut, at, job, starts, abandoned>>
    /\ UNCHANGED runVars

\* The request that submits is cancelled while it is blocked in put().
SubmitAbandoned(j) ==
    /\ j \in submitting
    /\ submitting' = submitting \ {j}
    /\ abandoned' = abandoned \union {j}
    /\ UNCHANGED <<status, stored, attempts, queued, retrying, requeueing, stage,
                   returning, stopPut, at, job, starts>>
    /\ UNCHANGED runVars

\* cancel(): the record first, then the token and the task of a running job
\* (now or after the grace period) and the timer of a waiting one.
Signalled(j) == IF Held(j) THEN {j} ELSE {}

Cancel(j) ==
    /\ j \in stored /\ status[j] \notin Terminal
    /\ status' = [status EXCEPT ![j] = "cancelled"]
    /\ token' = token \union Signalled(j)
    /\ \/ /\ handler[j] \in Alive /\ GracePeriod
          /\ grace' = grace \union {j}
          /\ UNCHANGED handler
       \/ /\ ~(handler[j] \in Alive /\ GracePeriod)
          /\ handler' = [handler EXCEPT ![j] = Told(j)]
          /\ UNCHANGED grace
    /\ retrying' = retrying \ {j}
    /\ UNCHANGED <<stored, attempts, queued, submitting, requeueing, stage, returning,
                   stopPut, at, job, starts, abandoned>>

\* _cleanup_expired: the record of an ended job is dropped after result_ttl.
\* The cleanup task lives from start() to the end of stop().
Cleanup(j) ==
    /\ stage # "down" /\ j \in stored /\ status[j] \in Terminal
    /\ stored' = stored \ {j}
    /\ UNCHANGED <<status, attempts, queued, stage, at, job, starts, abandoned>>
    /\ UNCHANGED waitingPlaces /\ UNCHANGED runVars

-----------------------------------------------------------------------------
(* Handlers *)

HandlerEnds(j) ==
    /\ handler[j] \in Alive
    /\ \E end \in Ended : handler' = [handler EXCEPT ![j] = end]
    /\ UNCHANGED <<status, stored, attempts, queued, stage, at, job, token, grace, starts,
                   abandoned>>
    /\ UNCHANGED waitingPlaces

\* The call_later of cancel().  Nothing takes it back, but it is for the task of
\* one attempt and does nothing to one that is done.
GraceEnds(j) ==
    /\ j \in grace
    /\ grace' = grace \ {j}
    /\ handler' = [handler EXCEPT ![j] = Told(j)]
    /\ UNCHANGED <<status, stored, attempts, queued, stage, at, job, token, starts,
                   abandoned>>
    /\ UNCHANGED waitingPlaces

-----------------------------------------------------------------------------
(* Workers *)

\* dequeue() and _execute_job() up to the wait for the handler.  An entry of a
\* job that was cancelled, or removed, while it was queued is dropped.
Runnable(j) == j \in stored /\ status[j] = "pending"

Take(w, j) ==
    /\ stage = "up" /\ at[w] = "loop" /\ IsNext(j)
    /\ queued' = [queued EXCEPT ![j] = @ - 1]
    /\ \/ /\ Runnable(j)
          /\ status' = [status EXCEPT ![j] = "running"]
          /\ attempts' = [attempts EXCEPT ![j] = @ + 1]
          /\ handler' = [handler EXCEPT ![j] = "running"]
          /\ token' = token \ {j}
          /\ at' = [at EXCEPT ![w] = "wait"]
          /\ job' = [job EXCEPT ![w] = j]
       \/ ~Runnable(j) /\ UNCHANGED <<status, attempts, handler, token, at, job>>
    /\ UNCHANGED <<stored, stage, grace, starts, abandoned>>
    /\ UNCHANGED waitingPlaces

\* The finally of _execute_job, and the worker's next round (or its end).
Leaves(w, next) ==
    /\ at' = [at EXCEPT ![w] = next]
    /\ job' = [job EXCEPT ![w] = NoJob]
    /\ handler' = [handler EXCEPT ![job[w]] = IF @ \in Alive THEN @ ELSE "none"]
    /\ token' = token \ {job[w]}
    /\ grace' = grace \ {job[w]}

\* The worker's wait is over when the handler is, or when the timeout is.
\* What a cancelled job came to is dropped, once its handler is gone.
\* Mutant: only a handler that is still running is dropped.
Dropped_StillRunning(w) == job[w] \in token /\ handler[job[w]] \in Alive
Dropped(w) == job[w] \in token

Discards(w) ==
    /\ stage = "up" /\ at[w] = "wait" /\ Dropped(w)
    /\ handler' = [handler EXCEPT ![job[w]] = Told(job[w])]
    /\ at' = [at EXCEPT ![w] = "discard"]
    /\ UNCHANGED <<status, stored, attempts, queued, stage, job, token, grace, starts,
                   abandoned>>
    /\ UNCHANGED waitingPlaces

TimesOut(w) ==
    /\ stage = "up" /\ at[w] = "wait" /\ ~Dropped(w) /\ handler[job[w]] \in Alive
    /\ handler' = [handler EXCEPT ![job[w]] = "told"]
    /\ at' = [at EXCEPT ![w] = "timeout"]
    /\ UNCHANGED <<status, stored, attempts, queued, stage, job, token, grace, starts,
                   abandoned>>
    /\ UNCHANGED waitingPlaces

\* An error with attempts left goes to _schedule_retry, everything else is the
\* outcome of the job.
RetriesLeft(j) == attempts[j] < MaxRetries + 1
Outcome(j) ==
    CASE handler[j] = "ok" -> "completed"
      [] handler[j] = "error" -> "failed"
      [] handler[j] = "cancelled" -> "cancelled"

Retries(w) ==
    /\ stage = "up" /\ at[w] = "wait" /\ ~Dropped(w)
    /\ handler[job[w]] = "error" /\ RetriesLeft(job[w])
    /\ status' = [status EXCEPT ![job[w]] = "pending"]
    /\ stored' = stored \union {job[w]}
    /\ retrying' = retrying \union {job[w]}
    /\ Leaves(w, "loop")
    /\ UNCHANGED <<attempts, queued, submitting, requeueing, stage, returning, stopPut,
                   starts, abandoned>>

Records(w) ==
    /\ stage = "up" /\ at[w] = "wait" /\ ~Dropped(w)
    /\ handler[job[w]] \in Ended
    /\ ~(handler[job[w]] = "error" /\ RetriesLeft(job[w]))
    /\ status' = [status EXCEPT ![job[w]] = Outcome(job[w])]
    /\ stored' = stored \union {job[w]}
    /\ Leaves(w, "loop")
    /\ UNCHANGED <<attempts, queued, stage, starts, abandoned>>
    /\ UNCHANGED waitingPlaces

\* The gather() of a handler that was told to stop.
\* Mutant: the handler is told and not waited for.
Stopped_NotAwaited(j) == TRUE
Stopped(j) == handler[j] \in Ended

\* After a timeout the outcome is recorded without another look at the token.
RecordsTimeout(w) ==
    /\ stage = "up" /\ at[w] = "timeout" /\ Stopped(job[w])
    /\ status' = [status EXCEPT ![job[w]] = "timeout"]
    /\ stored' = stored \union {job[w]}
    /\ Leaves(w, "loop")
    /\ UNCHANGED <<attempts, queued, stage, starts, abandoned>>
    /\ UNCHANGED waitingPlaces

Discarded(w) ==
    /\ stage = "up" /\ at[w] = "discard" /\ Stopped(job[w])
    /\ Leaves(w, "loop")
    /\ UNCHANGED <<status, stored, attempts, queued, stage, starts, abandoned>>
    /\ UNCHANGED waitingPlaces

-----------------------------------------------------------------------------
(* Retry timers *)

\* The backoff is over: the timer forgets itself and puts the job back.
BackoffEnds(j) ==
    /\ j \in retrying
    /\ retrying' = retrying \ {j}
    /\ \/ Room /\ Put(j) /\ UNCHANGED requeueing
       \/ ~Room /\ requeueing' = requeueing \union {j} /\ UNCHANGED queued
    /\ UNCHANGED <<status, stored, attempts, submitting, stage, returning, stopPut, at,
                   job, starts, abandoned>>
    /\ UNCHANGED runVars

TimerPuts(j) ==
    /\ j \in requeueing /\ Room
    /\ requeueing' = requeueing \ {j}
    /\ Put(j)
    /\ UNCHANGED <<status, stored, attempts, submitting, retrying, stage, returning,
                   stopPut, at, job, starts, abandoned>>
    /\ UNCHANGED runVars

-----------------------------------------------------------------------------
(* start() and stop() *)

Start ==
    /\ stage = "down" /\ starts < MaxStarts
    /\ starts' = starts + 1
    /\ stage' = "up"
    /\ at' = [w \in Workers |-> "loop"]
    /\ UNCHANGED <<status, stored, attempts, queued, job, abandoned>>
    /\ UNCHANGED waitingPlaces /\ UNCHANGED runVars

\* Every worker is cancelled; none takes another step of its own.
StopBegins ==
    /\ stage = "up"
    /\ stage' = "stopping"
    /\ UNCHANGED <<status, stored, attempts, queued, at, job, starts, abandoned>>
    /\ UNCHANGED waitingPlaces /\ UNCHANGED runVars

IdleEnds(w) ==
    /\ stage = "stopping" /\ at[w] = "loop"
    /\ at' = [at EXCEPT ![w] = "gone"]
    /\ UNCHANGED <<status, stored, attempts, queued, stage, job, starts, abandoned>>
    /\ UNCHANGED waitingPlaces /\ UNCHANGED runVars

\* A worker waiting for its handler tells it to stop, whether or not it has
\* ended meanwhile, and records the job as cancelled by the stop.
\* Mutant: it leaves the record to the caller of stop().
StopRecords_Not(w) == FALSE
StopRecords(w) == job[w] \notin token

Interrupted(w) ==
    /\ stage = "stopping" /\ at[w] = "wait"
    /\ handler' = [handler EXCEPT ![job[w]] = Told(job[w])]
    /\ at' = [at EXCEPT ![w] = "interrupted"]
    /\ UNCHANGED <<status, stored, attempts, queued, stage, job, token, grace, starts,
                   abandoned>>
    /\ UNCHANGED waitingPlaces

InterruptedEnds(w) ==
    /\ stage = "stopping" /\ at[w] = "interrupted" /\ Stopped(job[w])
    /\ \/ /\ StopRecords(w)
          /\ status' = [status EXCEPT ![job[w]] = "cancelled"]
          /\ stored' = stored \union {job[w]}
       \/ ~StopRecords(w) /\ UNCHANGED <<status, stored>>
    /\ Leaves(w, "gone")
    /\ UNCHANGED <<attempts, queued, stage, starts, abandoned>>
    /\ UNCHANGED waitingPlaces

\* A worker that is in the gather() of a timeout or of a cancelled job leaves
\* it by the cancellation, when the handler is gone: nothing is recorded, and
\* a job that was timing out stays running.
CutOff(w) ==
    /\ stage = "stopping" /\ at[w] \in {"timeout", "discard"} /\ Stopped(job[w])
    /\ Leaves(w, "gone")
    /\ UNCHANGED <<status, stored, attempts, queued, stage, starts, abandoned>>
    /\ UNCHANGED waitingPlaces

\* The gather() of the workers is over; the timers are cancelled.
\* Mutant: their jobs are not kept.
Interruptible_None == {}
Interruptible == retrying

StopTimers ==
    /\ stage = "stopping" /\ \A w \in Workers : at[w] = "gone"
    /\ stage' = "requeue"
    /\ returning' = Interruptible
    /\ retrying' = {}
    /\ UNCHANGED <<status, stored, attempts, queued, submitting, requeueing, stopPut, at,
                   job, starts, abandoned>>
    /\ UNCHANGED runVars

\* _requeue, for one job after the other (their order is left open); a job
\* cancelled meanwhile is skipped.  A put() that finds no room never goes on:
\* with the workers gone nobody takes from the queue.
StopRequeues(j) ==
    /\ stage = "requeue" /\ stopPut = NoJob /\ j \in returning
    /\ returning' = returning \ {j}
    /\ \/ Runnable(j) /\ Room /\ Put(j) /\ UNCHANGED stopPut
       \/ Runnable(j) /\ ~Room /\ stopPut' = j /\ UNCHANGED queued
       \/ ~Runnable(j) /\ UNCHANGED <<queued, stopPut>>
    /\ UNCHANGED <<status, stored, attempts, submitting, retrying, requeueing, stage, at,
                   job, starts, abandoned>>
    /\ UNCHANGED runVars

StopEnds ==
    /\ stage = "requeue" /\ returning = {} /\ stopPut = NoJob
    /\ stage' = "down"
    /\ UNCHANGED <<status, stored, attempts, queued, at, job, starts, abandoned>>
    /\ UNCHANGED waitingPlaces /\ UNCHANGED runVars

-----------------------------------------------------------------------------

Init ==
    /\ status = [j \in Jobs |-> "none"]
    /\ stored = {}
    /\ attempts = [j \in Jobs |-> 0]
    /\ queued = [j \in Jobs |-> 0]
    /\ submitting = {} /\ retrying = {} /\ requeueing = {} /\ returning = {}
    /\ stopPut = NoJob
    /\ stage = "down"
    /\ at = [w \in Workers |-> "gone"]
    /\ job = [w \in Workers |-> NoJob]
    /\ token = {} /\ grace = {}
    /\ handler = [j \in Jobs |-> "none"]
    /\ starts = 0
    /\ abandoned = {}

Call(j) == Submit(j) \/ SubmitPuts(j) \/ SubmitAbandoned(j) \/ Cancel(j) \/ Cleanup(j)
Run(j) == HandlerEnds(j) \/ GraceEnds(j) \/ BackoffEnds(j) \/ TimerPuts(j)
Work(w) ==
    \/ \E j \in Jobs : Take(w, j)
    \/ Discards(w) \/ TimesOut(w) \/ Retries(w) \/ Records(w) \/ RecordsTimeout(w) \/ Discarded(w)
    \/ IdleEnds(w) \/ Interrupted(w) \/ InterruptedEnds(w) \/ CutOff(w)
Stop ==
    \/ StopTimers \/ StopEnds
    \/ \E j \in Jobs : StopRequeues(j)

Next ==
    \/ \E j \in Jobs : Call(j) \/ Run(j)
    \/ \E w \in Workers : Work(w)
    \/ Start \/ StopBegins \/ Stop

Spec == Init /\ [][Next]_vars

\* Tasks that are ready run, timers and timeouts fire, and a handler that was
\* told to stop ends; a handler that was not may run for ever.  The event loop
\* need not be fair to each of them: it only never stops while one can go on.
Progress ==
    \/ \E w \in Workers : Work(w)
    \/ \E j \in Jobs :
        \/ SubmitPuts(j) \/ TimerPuts(j) \/ BackoffEnds(j) \/ GraceEnds(j)
        \/ handler[j] = "told" /\ HandlerEnds(j)
    \/ Stop

FairSpec == Spec /\ WF_vars(Progress)

-----------------------------------------------------------------------------
(* Properties *)

TypeOK ==
    /\ status \in [Jobs -> Statuses]
    /\ stored \subseteq Jobs
    /\ attempts \in [Jobs -> Nat]
    /\ queued \in [Jobs -> Nat]
    /\ submitting \subseteq Jobs /\ retrying \subseteq Jobs /\ requeueing \subseteq Jobs
    /\ stage \in {"down", "up", "stopping", "requeue"}
    /\ returning \subseteq Jobs
    /\ stopPut \in Jobs \union {NoJob}
    /\ at \in [Workers -> {"gone", "loop", "wait", "timeout", "discard", "interrupted"}]
    /\ job \in [Workers -> Jobs \union {NoJob}]
    /\ token \subseteq Jobs /\ grace \subseteq Jobs
    /\ handler \in [Jobs -> Handlers]
    /\ starts \in 0 .. MaxStarts
    /\ abandoned \subseteq Jobs

\* A pending job is in exactly one place from which it gets to a worker: in the
\* queue, in a put() that is blocked, in a retry timer, or with a stop() that
\* puts it back.  No job is in two, whatever cancels, stops or retries it.
\* The one pending job with no place is one whose submit() was cancelled.
One(P) == IF P THEN 1 ELSE 0
Places(j) ==
    queued[j] + One(j \in submitting) + One(j \in retrying) + One(j \in requeueing)
        + One(j \in returning) + One(stopPut = j)
PendingHasOnePlace ==
    \A j \in Jobs :
        /\ Places(j) <= 1
        /\ status[j] = "pending" /\ j \notin abandoned => Places(j) = 1

\* No handler outlives the worker that started it, and no two workers have the
\* same job: a retry never runs beside the attempt before it, and a stopped
\* queue has no handler running.
HandlerHasOneWorker ==
    \A j \in Jobs :
        handler[j] \in Alive => Cardinality({w \in Workers : job[w] = j}) = 1

\* What callers are promised about each job.
Fate == INSTANCE JobFate WITH fate <- status, tries <- attempts
FateSpec == Fate!Spec

\* A run ends with a status that says so; only a stop() may leave the job of a
\* worker, one that was timing out, running for ever.
RunsAreRecorded ==
    [][\A w \in Workers :
        job[w] # NoJob /\ job'[w] = NoJob /\ status'[job[w]] = "running"
            => stage = "stopping" /\ at[w] = "timeout"]_vars

\* When the queue is up for good, every pending job comes to its end, over
\* retries, blocked puts and stops of the queue.  Two are not served: one whose
\* submit() was cancelled, and one that a stop() left running (RunsAreRecorded).
Stranded(j) == status[j] = "running" /\ ~Held(j)
Served ==
    <>[](stage = "up") =>
        \A j \in Jobs : status[j] = "pending" ~>
            status[j] \in Terminal \/ j \in abandoned \/ Stranded(j)

\* The handler of a cancelled job ends, even if it never looks at its token.
CancelledHandlerEnds ==
    \A j \in Jobs : status[j] = "cancelled" /\ handler[j] \in Alive ~> handler[j] \notin Alive

\* stop() comes back, unless it puts a job back in a bounded queue that is full:
\* there is no worker left to make room.
StopReturns == stage = "stopping" ~> stage = "down" \/ stopPut # NoJob

=============================================================================
