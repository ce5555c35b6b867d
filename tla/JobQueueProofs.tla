--------------------------- MODULE JobQueueProofs ---------------------------
(***************************************************************************)
(* What holds of the job queue for any number of jobs, workers, retries    *)
(* and restarts, and any capacity of the queue.                            *)
(***************************************************************************)
EXTENDS JobQueue, FiniteSetTheorems, TLAPS

-----------------------------------------------------------------------------
(* The inductive invariant *)

\* A worker has a job exactly while it waits for the job's handler.
WorkerHasJob ==
    \A w \in Workers : job[w] # NoJob <=> at[w] \in {"wait", "timeout", "discard", "interrupted"}

\* No two workers have the same job.
OneWorker == \A v, w \in Workers : job[v] = job[w] /\ job[v] # NoJob => v = w

\* A job that a worker has is running, or cancelled when its token is set.
HeldStatus ==
    \A w \in Workers : job[w] # NoJob =>
        /\ status[job[w]] = IF job[w] \in token THEN "cancelled" ELSE "running"
        /\ at[w] = "discard" => job[w] \in token

\* Only a job that a worker has has a handler.
HandlerHeld == \A j \in Jobs : handler[j] # "none" => Held(j)

\* No job is in two places, a pending one is in one, and one that has run or
\* was never submitted is in none.
PlaceOfStatus ==
    \A j \in Jobs :
        /\ Places(j) <= 1
        /\ status[j] = "pending" /\ j \notin abandoned => Places(j) = 1
        /\ status[j] \notin {"pending", "cancelled"} => Places(j) = 0
        /\ Held(j) => Places(j) = 0

\* The backend knows the pending jobs, and no job that was never submitted.
Known == \A j \in Jobs :
    /\ status[j] = "pending" => j \in stored
    /\ status[j] = "none" => j \notin stored /\ attempts[j] = 0

\* Only a pending job waits out a backoff.
RetryingPending == \A j \in retrying : status[j] = "pending"

\* A pending job has attempts left.
Attempts ==
    \A j \in Jobs :
        /\ attempts[j] <= MaxRetries + 1
        /\ status[j] = "pending" => attempts[j] <= MaxRetries

\* Workers are gone when the queue is down or stop() is past them.
StageOfWorkers ==
    stage \in {"down", "requeue"} => \A w \in Workers : at[w] = "gone"

\* Only stop() holds jobs to put back.
ReturnedByStop == stage # "requeue" => returning = {}

Steps == WorkerHasJob /\ OneWorker /\ HeldStatus /\ HandlerHeld /\ StageOfWorkers
Whereabouts == PlaceOfStatus /\ Known /\ RetryingPending /\ Attempts /\ ReturnedByStop
IInv == Steps /\ Whereabouts

-----------------------------------------------------------------------------
(* Type correctness *)

\* The states the actions name.
LEMMA States ==
    /\ {"none", "pending", "running", "completed", "failed", "cancelled",
         "timeout"} \subseteq Statuses
    /\ {"none", "running", "told", "ok", "error", "cancelled"} \subseteq Handlers
    /\ Ended \subseteq Handlers
BY DEF Statuses, Terminal, Handlers, Alive, Ended

\* Telling a handler to stop leaves it in a state.
LEMMA ToldType == ASSUME TypeOK, NEW j \in Jobs PROVE Told(j) \in Handlers
BY States DEF Told, TypeOK

\* No step takes a variable out of its type.
LEMMA TypeStep == TypeOK /\ WorkerHasJob /\ [Next]_vars => TypeOK'
<1>. SUFFICES ASSUME TypeOK, WorkerHasJob, [Next]_vars PROVE TypeOK'
  OBVIOUS
<1>. USE DEF TypeOK, waitingPlaces, runVars
<1>1. ASSUME NEW j \in Jobs, Call(j) PROVE TypeOK'
  <2>1. CASE Submit(j)
    BY <2>1, States DEF Submit, Put
  <2>2. CASE SubmitPuts(j)
    BY <2>2 DEF SubmitPuts, Put
  <2>3. CASE SubmitAbandoned(j)
    BY <2>3 DEF SubmitAbandoned
  <2>4. CASE Cleanup(j)
    BY <2>4 DEF Cleanup
  <2>5. CASE Cancel(j)
    BY <2>5, States, ToldType DEF Cancel, Signalled
  <2>. QED
    BY <1>1, <2>1, <2>2, <2>3, <2>4, <2>5 DEF Call
<1>2. ASSUME NEW j \in Jobs, Run(j) PROVE TypeOK'
  <2>1. CASE HandlerEnds(j)
    BY <2>1, States DEF HandlerEnds
  <2>2. CASE GraceEnds(j)
    BY <2>2, ToldType DEF GraceEnds
  <2>3. CASE BackoffEnds(j)
    BY <2>3 DEF BackoffEnds, Put
  <2>4. CASE TimerPuts(j)
    BY <2>4 DEF TimerPuts, Put
  <2>. QED
    BY <1>2, <2>1, <2>2, <2>3, <2>4 DEF Run
<1>3. ASSUME NEW w \in Workers, NEW j \in Jobs, Take(w, j) PROVE TypeOK'
  <2>1. queued[j] - 1 \in Nat
    BY <1>3 DEF Take, IsNext
  <2>. QED
    BY <1>3, <2>1, States DEF Take
<1>4. ASSUME NEW w \in Workers, Work(w), \A j \in Jobs : ~Take(w, j) PROVE TypeOK'
  <2>1. CASE IdleEnds(w)
    BY <2>1 DEF IdleEnds
  <2>2. ~IdleEnds(w) => job[w] \in Jobs
    BY <1>4 DEF WorkerHasJob, Work, Discards, TimesOut, Retries, Records, RecordsTimeout,
           Discarded, Interrupted, InterruptedEnds, CutOff
  <2>3. CASE Discards(w)
    BY <2>3, ToldType, <2>2 DEF Discards, IdleEnds
  <2>4. CASE TimesOut(w)
    BY <2>4, States, <2>2 DEF TimesOut, IdleEnds
  <2>5. CASE Interrupted(w)
    BY <2>5, ToldType, <2>2 DEF Interrupted, IdleEnds
  <2>6. CASE Retries(w)
    BY <2>6, States, <2>2 DEF Retries, Leaves, IdleEnds
  <2>7. CASE Records(w)
    <3>1. Outcome(job[w]) \in Statuses
      BY <2>7, States DEF Records, Outcome, Ended
    <3>. QED
      BY <2>7, <3>1, States, <2>2 DEF Records, Leaves, IdleEnds
  <2>8. CASE RecordsTimeout(w)
    BY <2>8, States, <2>2 DEF RecordsTimeout, Leaves, IdleEnds
  <2>9. CASE Discarded(w)
    BY <2>9, States, <2>2 DEF Discarded, Leaves, IdleEnds
  <2>10. CASE InterruptedEnds(w)
    BY <2>10, States, <2>2 DEF InterruptedEnds, Leaves, IdleEnds
  <2>11. CASE CutOff(w)
    BY <2>11, States, <2>2 DEF CutOff, Leaves, IdleEnds
  <2>. QED
    BY <1>4, <2>1, <2>3, <2>4, <2>5, <2>6, <2>7, <2>8, <2>9, <2>10, <2>11 DEF Work
<1>5. CASE Start
  BY <1>5, SizesAssumption DEF Start
<1>6. CASE StopBegins
  BY <1>6 DEF StopBegins
<1>7. CASE StopTimers \/ StopEnds
  BY <1>7 DEF StopTimers, StopEnds, Interruptible
<1>8. ASSUME NEW j \in Jobs, StopRequeues(j) PROVE TypeOK'
  BY <1>8 DEF StopRequeues, Put
<1>9. CASE UNCHANGED vars
  BY <1>9 DEF vars
<1>. QED
  BY <1>1, <1>2, <1>3, <1>4, <1>5, <1>6, <1>7, <1>8, <1>9 DEF Next, Stop
-----------------------------------------------------------------------------
(* Workers and handlers *)

\* A worker that leaves its job gives up that job only, and only when its
\* handler is gone.
LEMMA LeaveStep ==
    ASSUME TypeOK, Steps, NEW w \in Workers, NEW next \in {"loop", "gone"}, Leaves(w, next),
           job[w] # NoJob, Stopped(job[w]),
           \A j \in Jobs \ {job[w]} : status'[j] = status[j],
           stage' = stage, stage \in {"up", "stopping"}
    PROVE  Steps'
<1>. USE DEF TypeOK, Steps
<1>1. job[w] \in Jobs
  OBVIOUS
<1>2. \A v \in Workers : job'[v] = IF v = w THEN NoJob ELSE job[v]
  BY DEF Leaves
<1>3. \A v \in Workers : at'[v] = IF v = w THEN next ELSE at[v]
  BY DEF Leaves
<1>4. \A v \in Workers \ {w} : job[v] # job[w]
  BY <1>1 DEF OneWorker
<1>5. WorkerHasJob' /\ OneWorker' /\ StageOfWorkers'
  BY <1>2, <1>3 DEF WorkerHasJob, OneWorker, StageOfWorkers
<1>6. HeldStatus'
  <2>. SUFFICES ASSUME NEW v \in Workers, job'[v] # NoJob
                PROVE  /\ status'[job'[v]] = IF job'[v] \in token' THEN "cancelled" ELSE "running"
                       /\ at'[v] = "discard" => job'[v] \in token'
    BY DEF HeldStatus
  <2>1. v # w /\ job'[v] = job[v] /\ job[v] # job[w] /\ job[v] \in Jobs /\ at'[v] = at[v]
    BY <1>2, <1>3, <1>4
  <2>2. (job[v] \in token') = (job[v] \in token)
    BY <2>1 DEF Leaves
  <2>. QED
    BY <2>1, <2>2 DEF HeldStatus
<1>7. HandlerHeld'
  <2>. SUFFICES ASSUME NEW j \in Jobs, handler'[j] # "none" PROVE Held(j)'
    BY DEF HandlerHeld
  <2>1. j # job[w] /\ handler[j] # "none"
    BY <1>1 DEF Leaves, Stopped, Ended, Alive
  <2>2. PICK v \in Workers : job[v] = j
    BY <2>1 DEF HandlerHeld, Held
  <2>. QED
    BY <2>1, <2>2, <1>2 DEF Held
<1>. QED
  BY <1>5, <1>6, <1>7

\* Every step keeps the workers and the handlers in order.
LEMMA WorkerStep == TypeOK /\ Steps /\ [Next]_vars => Steps'
<1>. SUFFICES ASSUME TypeOK, Steps, [Next]_vars PROVE Steps'
  OBVIOUS
<1>. USE DEF Steps, WorkerHasJob, OneWorker, HeldStatus, HandlerHeld, StageOfWorkers, Held,
         waitingPlaces, runVars
<1>1. ASSUME NEW j \in Jobs, Submit(j) PROVE Steps'
  <2>1. \A w \in Workers : job[w] # j
    BY <1>1, JobsAssumption DEF Submit, TypeOK
  <2>. QED
    BY <1>1, <2>1 DEF Submit, TypeOK
<1>2. ASSUME NEW j \in Jobs, SubmitPuts(j) \/ SubmitAbandoned(j) \/ Cleanup(j) PROVE Steps'
  BY <1>2 DEF SubmitPuts, SubmitAbandoned, Cleanup
<1>3. ASSUME NEW j \in Jobs, Cancel(j) PROVE Steps'
  <2>1. UNCHANGED <<job, at, stage>> /\ status' = [status EXCEPT ![j] = "cancelled"]
    BY <1>3 DEF Cancel
  <2>2. handler'[j] = "none" \/ handler[j] # "none"
    BY <1>3 DEF Cancel, Told, TypeOK, Alive
  <2>3. \A i \in Jobs \ {j} : handler'[i] = handler[i]
    BY <1>3 DEF Cancel, TypeOK
  <2>4. \A w \in Workers : job[w] = j => j \in token'
    BY <1>3 DEF Cancel, Signalled
  <2>5. \A i : i # j => (i \in token' <=> i \in token)
    BY <1>3 DEF Cancel, Signalled
  <2>6. HeldStatus'
    BY <2>1, <2>4, <2>5 DEF TypeOK
  <2>7. HandlerHeld'
    BY <2>1, <2>2, <2>3
  <2>. QED
    BY <2>1, <2>6, <2>7
<1>4. ASSUME NEW j \in Jobs, HandlerEnds(j) \/ GraceEnds(j) PROVE Steps'
  <2>1. UNCHANGED <<status, job, at, token, stage>>
    BY <1>4 DEF HandlerEnds, GraceEnds
  <2>2. handler[j] # "none" \/ handler' = handler
    BY <1>4 DEF HandlerEnds, GraceEnds, Told, TypeOK, Alive
  <2>3. \A i \in Jobs \ {j} : handler'[i] = handler[i]
    BY <1>4 DEF HandlerEnds, GraceEnds, TypeOK
  <2>. QED
    BY <2>1, <2>2, <2>3
<1>5. ASSUME NEW j \in Jobs, BackoffEnds(j) \/ TimerPuts(j) PROVE Steps'
  BY <1>5 DEF BackoffEnds, TimerPuts
<1>6. ASSUME NEW w \in Workers, NEW j \in Jobs, Take(w, j) PROVE Steps'
  <2>1. CASE ~Runnable(j)
    BY <1>6, <2>1 DEF Take
  <2>2. CASE Runnable(j)
    <3>1. job[w] = NoJob /\ stage = "up" /\ stage' = stage /\ j # NoJob
      BY <1>6, JobsAssumption DEF Take
    <3>2. \A v \in Workers : job[v] # j
      BY <2>2, <3>1 DEF Runnable
    <3>3. \A v \in Workers : job'[v] = (IF v = w THEN j ELSE job[v])
      BY <1>6, <2>2 DEF Take, TypeOK
    <3>4. \A v \in Workers : at'[v] = (IF v = w THEN "wait" ELSE at[v])
      BY <1>6, <2>2 DEF Take, TypeOK
    <3>5. \A i \in Jobs : /\ status'[i] = IF i = j THEN "running" ELSE status[i]
                         /\ handler'[i] = IF i = j THEN "running" ELSE handler[i]
      BY <1>6, <2>2 DEF Take, TypeOK
    <3>6. token' = token \ {j}
      BY <1>6, <2>2 DEF Take
    <3>7. WorkerHasJob' /\ OneWorker' /\ StageOfWorkers'
      BY <3>1, <3>2, <3>3, <3>4
    <3>8. HeldStatus'
      BY <3>1, <3>2, <3>3, <3>4, <3>5, <3>6 DEF TypeOK
    <3>9. HandlerHeld'
      BY <3>1, <3>3, <3>5, JobsAssumption
    <3>. QED
      BY <3>7, <3>8, <3>9
  <2>. QED
    BY <2>1, <2>2
<1>7. ASSUME NEW w \in Workers, Discards(w) \/ TimesOut(w) \/ Interrupted(w) PROVE Steps'
  <2>1. job[w] \in Jobs /\ at[w] = "wait"
    BY <1>7 DEF Discards, TimesOut, Interrupted, TypeOK
  <2>2. UNCHANGED <<status, job, token, stage>> /\ stage \in {"up", "stopping"}
    BY <1>7 DEF Discards, TimesOut, Interrupted
  <2>3. PICK next \in {"timeout", "discard", "interrupted"} :
          /\ at' = [at EXCEPT ![w] = next]
          /\ next = "discard" => job[w] \in token
    BY <1>7 DEF Discards, TimesOut, Interrupted, Dropped
  <2>4. \A j \in Jobs : handler'[j] # "none" => handler[j] # "none" \/ j = job[w]
    BY <1>7, <2>1 DEF Discards, TimesOut, Interrupted, TypeOK
  <2>. QED
    BY <2>1, <2>2, <2>3, <2>4 DEF TypeOK
<1>8. ASSUME NEW w \in Workers,
             \/ Retries(w) \/ Records(w) \/ RecordsTimeout(w) \/ Discarded(w)
             \/ InterruptedEnds(w) \/ CutOff(w)
      PROVE  Steps'
  <2>1. job[w] # NoJob /\ Stopped(job[w])
    BY <1>8 DEF Retries, Records, RecordsTimeout, Discarded, InterruptedEnds, CutOff, Stopped,
           Ended
  <2>2. \E next \in {"loop", "gone"} : Leaves(w, next)
    BY <1>8 DEF Retries, Records, RecordsTimeout, Discarded, InterruptedEnds, CutOff
  <2>3. \A j \in Jobs \ {job[w]} : status'[j] = status[j]
    BY <1>8 DEF Retries, Records, RecordsTimeout, Discarded, InterruptedEnds, CutOff, TypeOK
  <2>4. stage' = stage /\ stage \in {"up", "stopping"}
    BY <1>8 DEF Retries, Records, RecordsTimeout, Discarded, InterruptedEnds, CutOff
  <2>. QED
    BY <2>1, <2>2, <2>3, <2>4, LeaveStep
<1>9. ASSUME NEW w \in Workers, IdleEnds(w) PROVE Steps'
  BY <1>9 DEF IdleEnds, TypeOK
<1>10. CASE Start
  BY <1>10 DEF Start, TypeOK
<1>11. CASE StopBegins \/ StopTimers \/ StopEnds
  BY <1>11 DEF StopBegins, StopTimers, StopEnds, TypeOK
<1>12. ASSUME NEW j \in Jobs, StopRequeues(j) PROVE Steps'
  BY <1>12 DEF StopRequeues
<1>13. CASE UNCHANGED vars
  BY <1>13 DEF vars
<1>. QED
  BY <1>1, <1>2, <1>3, <1>4, <1>5, <1>6, <1>7, <1>8, <1>9, <1>10, <1>11, <1>12, <1>13
     DEF Next, Call, Run, Work, Stop

-----------------------------------------------------------------------------
(* Where the jobs are *)

\* Every step keeps each job in at most one place, a pending one in exactly
\* one, and counts the attempts.
LEMMA PlaceStep == TypeOK /\ Steps /\ Whereabouts /\ [Next]_vars => Whereabouts'
<1>. SUFFICES ASSUME TypeOK, Steps, Whereabouts, [Next]_vars PROVE Whereabouts'
  OBVIOUS
<1>. USE DEF Whereabouts, PlaceOfStatus, Known, RetryingPending, Attempts, ReturnedByStop, Places, One,
         Held, waitingPlaces, runVars
<1>1. ASSUME NEW j \in Jobs, Submit(j) PROVE Whereabouts'
  <2>1. status[j] = "none" /\ Places(j) = 0 /\ j \notin retrying /\ attempts[j] = 0
    BY <1>1 DEF Submit, TypeOK
  <2>2. ~Held(j)
    BY <1>1, <2>1, JobsAssumption DEF Steps, HeldStatus
  <2>3. Places(j)' = 1
    BY <1>1, <2>1 DEF Submit, Put, TypeOK
  <2>4. \A i \in Jobs \ {j} : Places(i)' = Places(i) /\ status'[i] = status[i]
    BY <1>1 DEF Submit, Put, TypeOK
  <2>5. UNCHANGED <<job, abandoned, attempts, retrying>> /\ status'[j] = "pending"
    BY <1>1 DEF Submit, TypeOK
  <2>6. stored' = stored \union {j}
    BY <1>1 DEF Submit
  <2>7. PlaceOfStatus'
    <3>. USE DEF Held
    <3>. HIDE DEF Places
    <3>. QED
      BY <2>2, <2>3, <2>4, <2>5
  <2>8. Known' /\ RetryingPending' /\ Attempts'
    BY <2>1, <2>4, <2>5, <2>6, SizesAssumption DEF TypeOK
  <2>9. ReturnedByStop'
    BY <1>1 DEF Submit
  <2>. QED
    BY <2>7, <2>8, <2>9
<1>2. ASSUME NEW j \in Jobs, SubmitPuts(j) PROVE Whereabouts'
  BY <1>2 DEF SubmitPuts, Put, TypeOK
<1>3. ASSUME NEW j \in Jobs, SubmitAbandoned(j) PROVE Whereabouts'
  BY <1>3 DEF SubmitAbandoned, TypeOK
<1>4. ASSUME NEW j \in Jobs, Cancel(j) PROVE Whereabouts'
  BY <1>4 DEF Cancel, TypeOK, Terminal
<1>5. ASSUME NEW j \in Jobs, Cleanup(j) PROVE Whereabouts'
  BY <1>5 DEF Cleanup, TypeOK, Terminal
<1>6. ASSUME NEW j \in Jobs, HandlerEnds(j) \/ GraceEnds(j) PROVE Whereabouts'
  BY <1>6 DEF HandlerEnds, GraceEnds
<1>7. ASSUME NEW j \in Jobs, BackoffEnds(j) PROVE Whereabouts'
  BY <1>7 DEF BackoffEnds, Put, TypeOK
<1>8. ASSUME NEW j \in Jobs, TimerPuts(j) PROVE Whereabouts'
  BY <1>8 DEF TimerPuts, Put, TypeOK
<1>9. ASSUME NEW w \in Workers, NEW j \in Jobs, Take(w, j) PROVE Whereabouts'
  <2>1. queued[j] >= 1 /\ Places(j) = 1
    BY <1>9 DEF Take, IsNext, TypeOK
  <2>2. Places(j)' = 0
    BY <1>9, <2>1 DEF Take, TypeOK
  <2>3. \A i \in Jobs \ {j} : Places(i)' = Places(i)
    BY <1>9 DEF Take, TypeOK
  <2>4. UNCHANGED <<stored, abandoned, retrying>> /\ ReturnedByStop'
    BY <1>9 DEF Take
  <2>5. CASE Runnable(j)
    <3>1. \A i \in Jobs : /\ status'[i] = IF i = j THEN "running" ELSE status[i]
                         /\ attempts'[i] = IF i = j THEN attempts[i] + 1 ELSE attempts[i]
      BY <1>9, <2>5 DEF Take, TypeOK
    <3>2. \A i \in Jobs \ {j} : Held(i)' => Held(i)
      BY <1>9, <2>5 DEF Take, TypeOK
    <3>3. status[j] = "pending" /\ j \notin retrying /\ attempts[j] <= MaxRetries
      BY <2>5, <2>1 DEF Runnable, TypeOK
    <3>4. PlaceOfStatus'
      <4>. HIDE DEF Places, Held
      <4>. QED
        BY <2>2, <2>3, <2>4, <3>1, <3>2
    <3>5. Known' /\ RetryingPending' /\ Attempts'
      BY <2>4, <3>1, <3>3, SizesAssumption DEF TypeOK
    <3>. QED
      BY <2>4, <3>4, <3>5
  <2>6. CASE ~Runnable(j)
    <3>1. UNCHANGED <<status, attempts, job>>
      BY <1>9, <2>6 DEF Take
    <3>2. status[j] # "pending"
      BY <2>6 DEF Runnable
    <3>3. PlaceOfStatus'
      <4>. HIDE DEF Places
      <4>. QED
        BY <2>2, <2>3, <2>4, <3>1, <3>2
    <3>4. Known' /\ RetryingPending' /\ Attempts'
      BY <2>4, <3>1
    <3>. QED
      BY <2>4, <3>3, <3>4
  <2>. QED
    BY <2>5, <2>6
<1>10. ASSUME NEW w \in Workers, Discards(w) \/ TimesOut(w) \/ Interrupted(w) \/ IdleEnds(w)
       PROVE  Whereabouts'
  BY <1>10 DEF Discards, TimesOut, Interrupted, IdleEnds
<1>11. ASSUME NEW w \in Workers, Retries(w) PROVE Whereabouts'
  <2>1. PICK j \in Jobs : j = job[w]
    BY <1>11 DEF Retries, Steps, WorkerHasJob, TypeOK
  <2>2. Held(j) /\ Places(j) = 0 /\ j \notin retrying
    BY <2>1 DEF TypeOK
  <2>3. Places(j)' = 1
    BY <1>11, <2>1, <2>2 DEF Retries, TypeOK
  <2>4. \A i \in Jobs \ {j} : Places(i)' = Places(i) /\ status'[i] = status[i]
    BY <1>11, <2>1 DEF Retries, TypeOK
  <2>5. \A i \in Jobs : Held(i)' => Held(i) /\ i # j
    BY <1>11, <2>1, JobsAssumption DEF Retries, Leaves, Steps, OneWorker, TypeOK
  <2>6. /\ UNCHANGED <<attempts, abandoned>> /\ status'[j] = "pending"
        /\ retrying' = retrying \union {j} /\ stored' = stored \union {j}
    BY <1>11, <2>1 DEF Retries, TypeOK
  <2>7. attempts[j] <= MaxRetries
    BY <1>11, <2>1, SizesAssumption DEF Retries, RetriesLeft, TypeOK
  <2>8. PlaceOfStatus'
    <3>. HIDE DEF Places, Held
    <3>. QED
      BY <2>3, <2>4, <2>5, <2>6
  <2>9. Known' /\ RetryingPending' /\ Attempts'
    <3>1. status[j] # "none"
      BY <2>1, JobsAssumption DEF Steps, HeldStatus, TypeOK
    <3>. QED
      BY <2>4, <2>6, <2>7, <3>1 DEF TypeOK
  <2>10. ReturnedByStop'
    BY <1>11 DEF Retries
  <2>. QED
    BY <2>8, <2>9, <2>10
<1>12. ASSUME NEW w \in Workers,
              \/ Records(w) \/ RecordsTimeout(w) \/ Discarded(w) \/ InterruptedEnds(w) \/ CutOff(w)
       PROVE  Whereabouts'
  <2>1. PICK j \in Jobs : j = job[w]
    BY <1>12 DEF Records, RecordsTimeout, Discarded, InterruptedEnds, CutOff, Steps, WorkerHasJob,
           TypeOK
  <2>2. Held(j) /\ Places(j) = 0 /\ j \notin retrying /\ status[j] \in {"running", "cancelled"}
    BY <2>1, JobsAssumption DEF TypeOK, Steps, HeldStatus
  <2>3. UNCHANGED <<queued, submitting, retrying, requeueing, returning, stopPut, abandoned, attempts>>
    BY <1>12 DEF Records, RecordsTimeout, Discarded, InterruptedEnds, CutOff
  <2>4. \A i \in Jobs : Held(i)' => Held(i)
    BY <1>12, JobsAssumption DEF Records, RecordsTimeout, Discarded, InterruptedEnds, CutOff, Leaves, TypeOK
  <2>5. \A i \in Jobs \ {j} : status'[i] = status[i] /\ (i \in stored' <=> i \in stored)
    BY <1>12, <2>1 DEF Records, RecordsTimeout, Discarded, InterruptedEnds, CutOff, TypeOK
  <2>6. status'[j] \notin {"none", "pending"}
    BY <1>12, <2>1, <2>2 DEF Records, Outcome, Ended, RecordsTimeout, Discarded, InterruptedEnds,
           CutOff, TypeOK
  <2>7. \A i \in Jobs : Places(i)' = Places(i)
    BY <2>3
  <2>8. PlaceOfStatus'
    <3>. HIDE DEF Places, Held
    <3>. QED
      BY <2>2, <2>3, <2>4, <2>5, <2>6, <2>7
  <2>9. Known' /\ RetryingPending' /\ Attempts'
    BY <2>2, <2>3, <2>5, <2>6 DEF TypeOK
  <2>10. ReturnedByStop'
    BY <1>12 DEF Records, RecordsTimeout, Discarded, InterruptedEnds, CutOff
  <2>. QED
    BY <2>8, <2>9, <2>10
<1>13. CASE Start \/ StopBegins
  BY <1>13 DEF Start, StopBegins
<1>14. CASE StopTimers
  <2>1. returning' = retrying /\ retrying' = {}
    BY <1>14 DEF StopTimers, Interruptible
  <2>2. UNCHANGED <<status, stored, attempts, queued, submitting, requeueing, stopPut, job,
                    abandoned>>
    BY <1>14 DEF StopTimers
  <2>4. returning = {} /\ stage' = "requeue"
    BY <1>14 DEF StopTimers
  <2>5. \A j \in Jobs : Places(j)' = Places(j)
    BY <2>1, <2>2, <2>4 DEF TypeOK
  <2>. QED
    BY <2>1, <2>2, <2>4, <2>5
<1>15. ASSUME NEW j \in Jobs, StopRequeues(j) PROVE Whereabouts'
  BY <1>15, JobsAssumption DEF StopRequeues, Runnable, Put, TypeOK
<1>16. CASE StopEnds \/ UNCHANGED vars
  BY <1>16 DEF StopEnds, vars
<1>. QED
  BY <1>1, <1>2, <1>3, <1>4, <1>5, <1>6, <1>7, <1>8, <1>9, <1>10, <1>11, <1>12, <1>13, <1>14,
     <1>15, <1>16 DEF Next, Call, Run, Work, Stop

-----------------------------------------------------------------------------
(* The theorems *)

\* The initial states satisfy the invariant.
LEMMA Initially == Init => TypeOK /\ IInv
<1>. SUFFICES ASSUME Init PROVE TypeOK /\ IInv
  OBVIOUS
<1>1. TypeOK
  BY States, SizesAssumption DEF Init, TypeOK
<1>2. Steps
  BY DEF Init, Steps, WorkerHasJob, OneWorker, HeldStatus, HandlerHeld, StageOfWorkers
<1>3. Whereabouts
  BY JobsAssumption, SizesAssumption DEF Init, Whereabouts, PlaceOfStatus, Known,
     RetryingPending, Attempts, ReturnedByStop, Places, One, Held
<1>. QED
  BY <1>1, <1>2, <1>3 DEF IInv

\* The invariant holds of every reachable state.
THEOREM Inductive == Spec => [](TypeOK /\ IInv)
<1>1. TypeOK /\ IInv /\ [Next]_vars => TypeOK' /\ IInv'
  BY TypeStep, WorkerStep, PlaceStep DEF IInv, Steps
<1>. QED
  BY <1>1, Initially, PTL DEF Spec

\* Every variable of the queue keeps its type: no counter of queue entries or
\* attempts goes below zero.
THEOREM TypeCorrect == Spec => []TypeOK
BY Inductive, PTL

\* A pending job is always in one place from which it gets to a worker, and no
\* job is in two: cancel(), stop(), a backoff and a blocked put() hand it over.
THEOREM JobHasOnePlace == Spec => []PendingHasOnePlace
<1>1. IInv => PendingHasOnePlace
  BY DEF IInv, Whereabouts, PlaceOfStatus, PendingHasOnePlace
<1>. QED
  BY <1>1, Inductive, PTL

\* No handler outlives its worker, and no two workers have the same job: two
\* attempts of a job never overlap.
THEOREM OneHandlerPerJob == Spec => []HandlerHasOneWorker
<1>1. TypeOK /\ IInv => HandlerHasOneWorker
  <2>. SUFFICES ASSUME TypeOK, IInv, NEW j \in Jobs, handler[j] \in Alive
                PROVE  Cardinality({w \in Workers : job[w] = j}) = 1
    BY DEF HandlerHasOneWorker
  <2>1. PICK w \in Workers : job[w] = j
    BY DEF IInv, Steps, HandlerHeld, Held, Alive
  <2>2. \A v \in Workers : job[v] = j => v = w
    BY <2>1, JobsAssumption DEF IInv, Steps, OneWorker
  <2>3. {v \in Workers : job[v] = j} = {w}
    BY <2>1, <2>2
  <2>. QED
    BY <2>3, FS_Singleton
<1>. QED
  BY <1>1, Inductive, PTL

\* Every step of the queue is one that JobFate allows, or changes nothing a
\* caller can see.
LEMMA FateStep == TypeOK /\ IInv /\ [Next]_vars => [Fate!Next]_<<status, attempts>>
<1>. SUFFICES ASSUME TypeOK, IInv, [Next]_vars
              PROVE  Fate!Next \/ UNCHANGED <<status, attempts>>
  OBVIOUS
<1>. USE DEF IInv, Steps, Whereabouts, Fate!Moves
<1>1. ASSUME NEW j \in Jobs, Submit(j) PROVE Fate!Next
  BY <1>1 DEF Submit, Fate!Submit, Fate!Next
<1>2. ASSUME NEW j \in Jobs, Cancel(j) PROVE Fate!Next
  <2>1. status[j] \in {"pending", "running"}
    BY <1>2 DEF Cancel, Known, TypeOK, Statuses
  <2>. QED
    BY <1>2, <2>1 DEF Cancel, Fate!Cancel, Fate!Next
<1>3. ASSUME NEW w \in Workers, NEW j \in Jobs, Take(w, j)
      PROVE  Fate!Next \/ UNCHANGED <<status, attempts>>
  BY <1>3 DEF Take, Runnable, Attempts, Fate!Attempt, Fate!Next
<1>4. ASSUME NEW w \in Workers,
             Retries(w) \/ Records(w) \/ RecordsTimeout(w) \/ InterruptedEnds(w)
      PROVE  Fate!Next \/ UNCHANGED <<status, attempts>>
  <2>1. PICK j \in Jobs : j = job[w]
    BY <1>4 DEF Retries, Records, RecordsTimeout, InterruptedEnds, WorkerHasJob, TypeOK
  <2>2. status[j] = IF j \in token THEN "cancelled" ELSE "running"
    BY <2>1, JobsAssumption DEF HeldStatus
  <2>3. CASE Retries(w)
    <3>1. attempts[j] <= MaxRetries
      BY <2>3, <2>1, SizesAssumption DEF Retries, RetriesLeft, TypeOK
    <3>2. Fate!Retry(j)
      BY <2>3, <2>1, <2>2, <3>1 DEF Retries, Dropped, Fate!Retry
    <3>. QED
      BY <3>2 DEF Fate!Next
  <2>4. CASE Records(w)
    <3>1. status[j] = "running" /\ UNCHANGED attempts
      BY <2>4, <2>1, <2>2 DEF Records, Dropped
    <3>2. CASE handler[j] = "error"
      <4>1. attempts[j] = MaxRetries + 1
        BY <2>4, <2>1, <3>2, SizesAssumption DEF Records, RetriesLeft, Attempts, TypeOK
      <4>2. Fate!Fail(j)
        BY <2>4, <2>1, <3>1, <3>2, <4>1 DEF Records, Outcome, Fate!Fail
      <4>. QED
        BY <4>2 DEF Fate!Next
    <3>3. CASE handler[j] = "ok"
      BY <2>4, <2>1, <3>1, <3>3 DEF Records, Outcome, Fate!End, Fate!Next
    <3>4. CASE handler[j] = "cancelled"
      BY <2>4, <2>1, <3>1, <3>4 DEF Records, Outcome, Fate!Cancel, Fate!Next
    <3>. QED
      BY <2>4, <2>1, <3>2, <3>3, <3>4 DEF Records, Ended
  <2>5. CASE RecordsTimeout(w)
    BY <2>5, <2>1, <2>2 DEF RecordsTimeout, Fate!End, Fate!LateTimeout, Fate!Next
  <2>6. CASE InterruptedEnds(w)
    BY <2>6, <2>1, <2>2 DEF InterruptedEnds, StopRecords, Fate!Cancel, Fate!Next
  <2>. QED
    BY <1>4, <2>3, <2>4, <2>5, <2>6
<1>5. CASE UNCHANGED <<status, attempts>>
  BY <1>5
<1>. QED
  BY <1>1, <1>2, <1>3, <1>4, <1>5 DEF Next, Call, Run, Work, Stop, SubmitPuts,
     SubmitAbandoned, Cleanup, HandlerEnds, GraceEnds, BackoffEnds, TimerPuts, Discards,
     TimesOut, Discarded, IdleEnds, Interrupted, CutOff, Start, StopBegins, StopTimers,
     StopEnds, StopRequeues, vars

\* The queue implements what it promises its callers about each job.
THEOREM FateImplemented == Spec => FateSpec
<1>1. Init => Fate!Init
  BY DEF Init, Fate!Init
<1>. QED
  BY <1>1, FateStep, Inductive, PTL DEF Spec, FateSpec, Fate!Spec

\* Only a stop() that cuts off a worker while its handler is timing out leaves
\* a job running with nobody to end it.
THEOREM RunsRecorded == Spec => RunsAreRecorded
<1>. DEFINE Left(w) == job[w] # NoJob /\ job'[w] = NoJob /\ status'[job[w]] = "running"
                        => stage = "stopping" /\ at[w] = "timeout"
<1>1. TypeOK /\ IInv /\ [Next]_vars => \A w \in Workers : Left(w)
  <2>. SUFFICES ASSUME TypeOK, IInv, [Next]_vars, NEW w \in Workers, job[w] # NoJob,
                       job'[w] = NoJob
                PROVE  Left(w)
    OBVIOUS
  <2>1. job[w] \in Jobs
    BY DEF TypeOK
  <2>2. status[job[w]] = IF job[w] \in token THEN "cancelled" ELSE "running"
    BY DEF IInv, Steps, HeldStatus
  <2>3. ASSUME NEW v \in Workers, NEW next, Leaves(v, next) PROVE v = w
    BY <2>3 DEF Leaves, TypeOK
  <2>4. ASSUME NEW v \in Workers, Retries(v) \/ Records(v) \/ RecordsTimeout(v)
        PROVE  status'[job[w]] # "running"
    <3>1. v = w
      BY <2>3, <2>4 DEF Retries, Records, RecordsTimeout
    <3>. QED
      BY <3>1, <2>4, <2>1 DEF Retries, Records, RecordsTimeout, Outcome, Ended, TypeOK
  <2>5. ASSUME NEW v \in Workers, Discarded(v) \/ InterruptedEnds(v)
        PROVE  status'[job[w]] # "running"
    <3>1. v = w
      BY <2>3, <2>5 DEF Discarded, InterruptedEnds
    <3>. QED
      BY <3>1, <2>5, <2>1, <2>2 DEF Discarded, InterruptedEnds, StopRecords, IInv, Steps,
         HeldStatus, TypeOK
  <2>6. ASSUME NEW v \in Workers, CutOff(v) PROVE Left(w)
    <3>1. v = w
      BY <2>3, <2>6 DEF CutOff
    <3>. QED
      BY <3>1, <2>6, <2>1, <2>2 DEF CutOff, IInv, Steps, HeldStatus, TypeOK
  <2>7. ASSUME NEW v \in Workers, NEW j \in Jobs, Take(v, j) PROVE FALSE
    BY <2>7, JobsAssumption DEF Take, TypeOK
  <2>8. ASSUME UNCHANGED job PROVE FALSE
    BY <2>8
  <2>. QED
    BY <2>4, <2>5, <2>6, <2>7, <2>8 DEF Next, Call, Run, Work, Stop, Submit, SubmitPuts,
       SubmitAbandoned, Cancel, Cleanup, HandlerEnds, GraceEnds, BackoffEnds, TimerPuts,
       Discards, TimesOut, IdleEnds, Interrupted, Start, StopBegins, StopTimers, StopEnds,
       StopRequeues, vars
<1>2. TypeOK /\ IInv /\ [Next]_vars => [\A w \in Workers : Left(w)]_vars
  BY <1>1
<1>. QED
  BY <1>2, Inductive, PTL DEF Spec, RunsAreRecorded

=============================================================================
