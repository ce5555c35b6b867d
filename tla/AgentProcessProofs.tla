------------------------- MODULE AgentProcessProofs -------------------------
(***************************************************************************)
(* What holds of the control plane of an agent process for any number of   *)
(* callers, workers and restarts, and any configuration.                   *)
(***************************************************************************)
EXTENDS AgentProcess, FiniteSetTheorems, TLAPS

-----------------------------------------------------------------------------
(* How the operations move the tasks *)

\* Joining and leaving the queue of the lock keep its type.
LEMMA LockQueueType ==
    ASSUME ahead \in [Tasks -> SUBSET Tasks]
    PROVE  /\ \A t \in Tasks : Joined(t) \in [Tasks -> SUBSET Tasks]
           /\ \A S \in SUBSET Tasks : Left(S) \in [Tasks -> SUBSET Tasks]
BY DEF Joined, Left, LockUsers

\* A lifecycle transition ends in a lifecycle state.
LEMMA LifecycleType ==
    \A target : LC!Transition(target) /\ state \in LC!ProcessState => state' \in LC!ProcessState
BY DEF LC!Transition, LC!CanTransition, LC!ValidTransitions, LC!ProcessState

\* The other tasks stay where they are, but for the pending restart.
OthersStay(t) ==
    \A u \in Tasks \ {t} :
        \/ pc'[u] = pc[u]
        \/ u \in Restarters /\ u = restart_task /\ pc'[u] = "cancelled"

\* Once no restart is pending, stop() moves the task that makes it, and no other.
LEMMA StopGoesOnMoves ==
    ASSUME NEW t \in Tasks, NEW drain \in BOOLEAN, StopGoesOn(t, drain)
    PROVE  \E p \in {"stop_drain", "stop_session", "stop_lock"} : pc' = [pc EXCEPT ![t] = p]
BY DEF StopGoesOn, EndSessionThenLock

\* So does start().
LEMMA StartGoesOnMoves ==
    ASSUME NEW t \in Tasks, NEW s, StartGoesOn(t, s)
    PROVE  \E p \in {"start_session", "start_lock"} : pc' = [pc EXCEPT ![t] = p]
BY DEF StartGoesOn, EndSessionThenLock

\* A stop() request moves the task that makes it and cancels the pending
\* restart.
LEMMA StopMoves ==
    ASSUME pc \in [Tasks -> PCs], NEW t \in Tasks, NEW drain \in BOOLEAN, Stop(t, drain)
    PROVE  /\ pc' \in [Tasks -> PCs]
           /\ pc'[t] \in CancelPC \cup {"stop_drain", "stop_session", "stop_lock"}
           /\ pc'[t] = "stop_cancel_drain" => drain
           /\ OthersStay(t)
<1>1. CASE RestartPending(t)
  <2>1. pc' = [pc EXCEPT ![restart_task] = "cancelled",
                         ![t] = IF drain THEN "stop_cancel_drain" ELSE "stop_cancel"]
    BY <1>1 DEF Stop, CancelsPending
  <2>2. restart_task \in Restarters \ {t}
    BY <1>1 DEF RestartPending
  <2>. QED
    BY <2>1, <2>2 DEF PCs, StopPC, CancelPC, Tasks, OthersStay
<1>2. CASE ~RestartPending(t)
  <2>1. StopGoesOn(t, drain)
    BY <1>2 DEF Stop
  <2>2. PICK p \in {"stop_drain", "stop_session", "stop_lock"} : pc' = [pc EXCEPT ![t] = p]
    BY <2>1, StopGoesOnMoves
  <2>. QED
    BY <2>2 DEF PCs, StopPC, OthersStay
<1>. QED
  BY <1>1, <1>2

\* So does a start().
LEMMA StartMoves ==
    ASSUME pc \in [Tasks -> PCs], NEW t \in Tasks, NEW s, Start(t, s)
    PROVE  /\ pc' \in [Tasks -> PCs]
           /\ pc'[t] \in {"start_cancel", "start_session", "start_lock"}
           /\ OthersStay(t)
<1>1. CASE RestartPending(t)
  <2>1. pc' = [pc EXCEPT ![restart_task] = "cancelled", ![t] = "start_cancel"]
    BY <1>1 DEF Start, CancelsPending
  <2>2. restart_task \in Restarters \ {t}
    BY <1>1 DEF RestartPending
  <2>. QED
    BY <2>1, <2>2 DEF PCs, StartPC, Tasks, OthersStay
<1>2. CASE ~RestartPending(t)
  <2>1. StartGoesOn(t, s)
    BY <1>2 DEF Start
  <2>2. PICK p \in {"start_session", "start_lock"} : pc' = [pc EXCEPT ![t] = p]
    BY <2>1, StartGoesOnMoves
  <2>. QED
    BY <2>2 DEF PCs, StartPC, OthersStay
<1>. QED
  BY <1>1, <1>2

-----------------------------------------------------------------------------
(* Types *)

\* The control state of the tasks, and the data, apart.
Placed == pc \in [Tasks -> PCs] /\ PlacesOK
Data ==
    /\ state \in LC!ProcessState
    /\ suspend_reason \in {"none", "idle", "other"}
    /\ stop_requested \in BOOLEAN /\ restarting \in BOOLEAN /\ recycled \in BOOLEAN
    /\ draining \in BOOLEAN /\ session_active \in BOOLEAN /\ heartbeat \in BOOLEAN
    /\ waking \in BOOLEAN /\ waiting \in BOOLEAN
    /\ overwritten \in BOOLEAN
    /\ restart_task \in Restarters \cup {NoTask}
    /\ restart_count \in Nat /\ failures \in Nat
    /\ queued \in 0..QueueSize

\* Every step leaves each task where a task of its kind can be.
LEMMA PlacesStep == TypeOK /\ [Next]_vars => Placed'
<1>. SUFFICES ASSUME TypeOK, [Next]_vars PROVE Placed'
  OBVIOUS
<1>. Placed
  BY DEF TypeOK, Placed
<1>. USE TasksAssumption DEF Placed, PlacesOK, PCs, CancelPC, StopPC, StartPC,
       DelayPC, RestartPC, WorkerPC, Tasks
<1>1. ASSUME NEW t \in Tasks, StopCancelled(t) PROVE Placed'
  <2>1. PICK p \in {"stop_drain", "stop_session", "stop_lock"} : pc' = [pc EXCEPT ![t] = p]
    BY <1>1, StopGoesOnMoves DEF StopCancelled
  <2>. QED
    BY <1>1, <2>1 DEF StopCancelled
<1>2. ASSUME NEW t \in Tasks, StopDrained(t) PROVE Placed'
  BY <1>2 DEF StopDrained, EndSessionThenLock
<1>3. ASSUME NEW t \in Tasks, SessionEnded(t) PROVE Placed'
  BY <1>3 DEF SessionEnded
<1>4. ASSUME NEW t \in Tasks, StopFinishesRecycle(t) PROVE Placed'
  BY <1>4 DEF StopFinishesRecycle
<1>5. ASSUME NEW t \in Tasks, StopNothingToDo(t) PROVE Placed'
  BY <1>5 DEF StopNothingToDo, Returns
<1>6. ASSUME NEW t \in Tasks, StopNeverStarted(t) PROVE Placed'
  BY <1>6 DEF StopNeverStarted
<1>7. ASSUME NEW t \in Tasks, StopBeginsShutdown(t) PROVE Placed'
  BY <1>7 DEF StopBeginsShutdown, BeginShutdown, OtherWorkers
<1>8. ASSUME NEW t \in Tasks, StopShutdown(t) PROVE Placed'
  BY <1>8 DEF StopShutdown, ClearRun
<1>9. ASSUME NEW t \in Tasks, StopReleased(t) PROVE Placed'
  BY <1>9 DEF StopReleased, Returns
<1>10. ASSUME NEW t \in Tasks, StartCancelled(t) PROVE Placed'
  <2>1. PICK p \in {"start_session", "start_lock"} : pc' = [pc EXCEPT ![t] = p]
    BY <1>10, StartGoesOnMoves DEF StartCancelled
  <2>. QED
    BY <1>10, <2>1 DEF StartCancelled
<1>11. ASSUME NEW t \in Tasks, StartRefused(t) PROVE Placed'
  BY <1>11 DEF StartRefused, Restarting
<1>12. ASSUME NEW t \in Tasks, StartCleansUp(t) PROVE Placed'
  BY <1>12 DEF StartCleansUp, BeginShutdown, OtherWorkers
<1>13. ASSUME NEW t \in Tasks, StartBegins(t) PROVE Placed'
  BY <1>13 DEF StartBegins
<1>14. ASSUME NEW t \in Tasks, StartSucceeds(t) PROVE Placed'
  BY <1>14 DEF StartSucceeds
<1>15. ASSUME NEW t \in Tasks, StartFails(t) PROVE Placed'
  BY <1>15 DEF StartFails, Restarting, ScheduleRestart, NoRestart
<1>16. ASSUME NEW t \in Tasks, StartReturns(t) PROVE Placed'
  BY <1>16 DEF StartReturns, Restarting
<1>17. ASSUME NEW r \in Restarters, RestartCancelled(r) PROVE Placed'
  BY <1>17 DEF RestartCancelled
<1>18. ASSUME NEW r \in Restarters, RestartGivesUp(r) PROVE Placed'
  BY <1>18 DEF RestartGivesUp
<1>19. ASSUME NEW r \in Restarters, RestartBegins(r) PROVE Placed'
  BY <1>19 DEF RestartBegins, EndSessionThenLock
<1>20. ASSUME NEW r \in Restarters, RestartRefused(r) PROVE Placed'
  BY <1>20 DEF RestartRefused
<1>21. ASSUME NEW r \in Restarters, RestartBeginsShutdown(r) PROVE Placed'
  BY <1>21 DEF RestartBeginsShutdown, BeginShutdown, OtherWorkers
<1>22. ASSUME NEW r \in Restarters, RestartShutdown(r) PROVE Placed'
  <2>1. CASE stop_requested
    BY <1>22, <2>1 DEF RestartShutdown
  <2>2. CASE ~stop_requested
    <3>1. PICK s : Start(r, s)
      BY <1>22, <2>2 DEF RestartShutdown
    <3>. HIDE DEF PCs
    <3>2. /\ pc' \in [Tasks -> PCs]
          /\ pc'[r] \in {"start_cancel", "start_session", "start_lock"}
          /\ OthersStay(r)
      BY <3>1, StartMoves
    <3>. QED
      BY <3>2 DEF OthersStay
  <2>. QED
    BY <2>1, <2>2
<1>23. ASSUME NEW w \in Workers, Take(w) PROVE Placed'
  BY <1>23 DEF Take
<1>24. ASSUME NEW w \in Workers, DropHeld(w) PROVE Placed'
  BY <1>24 DEF DropHeld, WorkerMoves
<1>25. ASSUME NEW w \in Workers, BeginScan(w) PROVE Placed'
  BY <1>25 DEF BeginScan, WorkerMoves
<1>26. ASSUME NEW w \in Workers, Flagged(w) PROVE Placed'
  BY <1>26 DEF Flagged, WorkerMoves
<1>27. ASSUME NEW w \in Workers, BeginRun(w) PROVE Placed'
  BY <1>27 DEF BeginRun, WorkerMoves
<1>28. ASSUME NEW w \in Workers, SetAside(w) PROVE Placed'
  BY <1>28 DEF SetAside, WorkerMoves
<1>29. ASSUME NEW w \in Workers, RunAnswers(w) PROVE Placed'
  BY <1>29 DEF RunAnswers
<1>30. ASSUME NEW w \in Workers, RunSucceeds(w) PROVE Placed'
  BY <1>30 DEF RunSucceeds
<1>31. ASSUME NEW w \in Workers, RunFails(w) PROVE Placed'
  BY <1>31 DEF RunFails
<1>32. ASSUME NEW w \in Workers, FailureIsSettled(w) PROVE Placed'
  BY <1>32 DEF FailureIsSettled, WorkerMoves
<1>33. ASSUME NEW w \in Workers, FailureIsBorne(w) PROVE Placed'
  BY <1>33 DEF FailureIsBorne, WorkerMoves
<1>34. ASSUME NEW w \in Workers, RunFailsProcess(w) PROVE Placed'
  BY <1>34 DEF RunFailsProcess, ScheduleRestart, NoRestart
<1>35. ASSUME NEW w \in Workers, GovernancePauses(w) PROVE Placed'
  BY <1>35 DEF GovernancePauses, Suspend
<1>36. ASSUME NEW w \in Workers, GovernanceStops(w) PROVE Placed'
  <2>1. Stop(w, FALSE) /\ w \in Tasks
    BY <1>36 DEF GovernanceStops
  <2>. HIDE DEF CancelPC, PCs
  <2>2. /\ pc' \in [Tasks -> PCs]
        /\ pc'[w] \in CancelPC \cup {"stop_drain", "stop_session", "stop_lock"}
        /\ pc'[w] # "stop_cancel_drain"
        /\ OthersStay(w)
    BY <2>1, StopMoves
  <2>. QED
    BY <2>2 DEF CancelPC, OthersStay
<1>37. ASSUME NEW c \in Callers, CallStart(c) PROVE Placed'
  <2>1. Start(c, state) /\ c \in Tasks
    BY <1>37 DEF CallStart
  <2>. HIDE DEF PCs
  <2>2. /\ pc' \in [Tasks -> PCs]
        /\ pc'[c] \in {"start_cancel", "start_session", "start_lock"}
        /\ OthersStay(c)
    BY <2>1, StartMoves
  <2>. QED
    BY <2>2 DEF OthersStay
<1>38. ASSUME NEW c \in Callers, CallStop(c) PROVE Placed'
  <2>1. PICK drain \in BOOLEAN : Stop(c, drain)
    BY <1>38 DEF CallStop
  <2>. HIDE DEF CancelPC, PCs
  <2>2. /\ pc' \in [Tasks -> PCs]
        /\ pc'[c] \in CancelPC \cup {"stop_drain", "stop_session", "stop_lock"}
        /\ OthersStay(c)
    BY <2>1, StopMoves
  <2>. QED
    BY <2>2 DEF CancelPC, OthersStay
<1>39. ASSUME HeartbeatIdle PROVE Placed'
  BY <1>39 DEF HeartbeatIdle, Suspend
<1>40. ASSUME HeartbeatRecycles PROVE Placed'
  BY <1>40 DEF HeartbeatRecycles
<1>41. ASSUME HeartbeatStops PROVE Placed'
  BY <1>41 DEF HeartbeatStops
<1>42. ASSUME BackgroundStop PROVE Placed'
  <2>1. Stop(BgStop, FALSE) /\ BgStop \in Tasks
    BY <1>42 DEF BackgroundStop
  <2>. HIDE DEF CancelPC, PCs
  <2>2. /\ pc' \in [Tasks -> PCs]
        /\ pc'[BgStop] \in CancelPC \cup {"stop_drain", "stop_session", "stop_lock"}
        /\ pc'[BgStop] # "stop_cancel_drain"
        /\ OthersStay(BgStop)
    BY <2>1, StopMoves
  <2>. QED
    BY <2>2 DEF CancelPC, OthersStay
<1>43. ASSUME OperatorSuspends PROVE Placed'
  BY <1>43 DEF OperatorSuspends, Suspend
<1>44. ASSUME OperatorResumes PROVE Placed'
  BY <1>44 DEF OperatorResumes
<1>45. ASSUME EventArrives PROVE Placed'
  BY <1>45 DEF EventArrives, Wakes, WakesProcess, QueueAfterPut
<1>46. ASSUME ListenerWaits PROVE Placed'
  BY <1>46 DEF ListenerWaits, Wakes, WakesProcess
<1>47. ASSUME ListenerPuts PROVE Placed'
  BY <1>47 DEF ListenerPuts
<1>48. ASSUME RetryArrives PROVE Placed'
  BY <1>48 DEF RetryArrives
<1>49. ASSUME WakeRuns PROVE Placed'
  BY <1>49 DEF WakeRuns, Wakes, WakesProcess
<1>50. CASE UNCHANGED vars
  BY <1>50 DEF vars
<1>. QED
  BY <1>1, <1>2, <1>3, <1>4, <1>5, <1>6, <1>7, <1>8, <1>9, <1>10, <1>11, <1>12, <1>13,
       <1>14, <1>15, <1>16, <1>17, <1>18, <1>19, <1>20, <1>21, <1>22, <1>23, <1>24, <1>25,
       <1>26, <1>27, <1>28, <1>29, <1>30, <1>31, <1>32, <1>33, <1>34, <1>35, <1>36, <1>37,
       <1>38, <1>39, <1>40, <1>41, <1>42, <1>43, <1>44, <1>45, <1>46, <1>47, <1>48, <1>49,
       <1>50 DEF Next, Continue, RestartContinue, Work

\* Every step leaves a queue of the lock.
LEMMA AheadStep == TypeOK /\ [Next]_vars => ahead' \in [Tasks -> SUBSET Tasks]
<1>. SUFFICES ASSUME TypeOK, [Next]_vars PROVE ahead' \in [Tasks -> SUBSET Tasks]
  OBVIOUS
<1>. USE LockQueueType DEF TypeOK, Tasks
<1>1. ASSUME NEW t \in Tasks, StopCancelled(t) PROVE ahead' \in [Tasks -> SUBSET Tasks]
  BY <1>1 DEF StopCancelled, StopGoesOn, EndSessionThenLock
<1>2. ASSUME NEW t \in Tasks, StopDrained(t) PROVE ahead' \in [Tasks -> SUBSET Tasks]
  BY <1>2 DEF StopDrained, EndSessionThenLock
<1>3. ASSUME NEW t \in Tasks, SessionEnded(t) PROVE ahead' \in [Tasks -> SUBSET Tasks]
  BY <1>3 DEF SessionEnded
<1>4. ASSUME NEW t \in Tasks, StopFinishesRecycle(t) PROVE ahead' \in [Tasks -> SUBSET Tasks]
  BY <1>4 DEF StopFinishesRecycle
<1>5. ASSUME NEW t \in Tasks, StopNothingToDo(t) PROVE ahead' \in [Tasks -> SUBSET Tasks]
  BY <1>5 DEF StopNothingToDo, Returns
<1>6. ASSUME NEW t \in Tasks, StopNeverStarted(t) PROVE ahead' \in [Tasks -> SUBSET Tasks]
  BY <1>6 DEF StopNeverStarted
<1>7. ASSUME NEW t \in Tasks, StopBeginsShutdown(t) PROVE ahead' \in [Tasks -> SUBSET Tasks]
  BY <1>7 DEF StopBeginsShutdown, BeginShutdown, OtherWorkers
<1>8. ASSUME NEW t \in Tasks, StopShutdown(t) PROVE ahead' \in [Tasks -> SUBSET Tasks]
  BY <1>8 DEF StopShutdown
<1>9. ASSUME NEW t \in Tasks, StopReleased(t) PROVE ahead' \in [Tasks -> SUBSET Tasks]
  BY <1>9 DEF StopReleased, Returns
<1>10. ASSUME NEW t \in Tasks, StartCancelled(t) PROVE ahead' \in [Tasks -> SUBSET Tasks]
  BY <1>10 DEF StartCancelled, StartGoesOn, EndSessionThenLock
<1>11. ASSUME NEW t \in Tasks, StartRefused(t) PROVE ahead' \in [Tasks -> SUBSET Tasks]
  BY <1>11 DEF StartRefused
<1>12. ASSUME NEW t \in Tasks, StartCleansUp(t) PROVE ahead' \in [Tasks -> SUBSET Tasks]
  BY <1>12 DEF StartCleansUp, BeginShutdown, OtherWorkers
<1>13. ASSUME NEW t \in Tasks, StartBegins(t) PROVE ahead' \in [Tasks -> SUBSET Tasks]
  BY <1>13 DEF StartBegins
<1>14. ASSUME NEW t \in Tasks, StartSucceeds(t) PROVE ahead' \in [Tasks -> SUBSET Tasks]
  BY <1>14 DEF StartSucceeds
<1>15. ASSUME NEW t \in Tasks, StartFails(t) PROVE ahead' \in [Tasks -> SUBSET Tasks]
  BY <1>15 DEF StartFails
<1>16. ASSUME NEW t \in Tasks, StartReturns(t) PROVE ahead' \in [Tasks -> SUBSET Tasks]
  BY <1>16 DEF StartReturns
<1>17. ASSUME NEW r \in Restarters, RestartContinue(r) PROVE ahead' \in [Tasks -> SUBSET Tasks]
  BY <1>17 DEF RestartContinue, RestartCancelled, RestartGivesUp, RestartBegins,
       EndSessionThenLock, RestartRefused, RestartBeginsShutdown, RestartShutdown,
       ClearRun, Start, StartGoesOn, BeginShutdown, OtherWorkers
<1>18. ASSUME NEW w \in Workers, Work(w) PROVE ahead' \in [Tasks -> SUBSET Tasks]
  BY <1>18 DEF Work, Take, DropHeld, WorkerMoves, BeginScan, Flagged, BeginRun, SetAside,
       RunAnswers, RunSucceeds, RunFails, FailureIsSettled, FailureIsBorne,
       RunFailsProcess, ScheduleRestart, NoRestart, GovernancePauses, Suspend,
       GovernanceStops, Stop, StopGoesOn, Overwrites, EndSessionThenLock
<1>19. ASSUME NEW c \in Callers, CallStart(c) PROVE ahead' \in [Tasks -> SUBSET Tasks]
  BY <1>19 DEF CallStart, Start, StartGoesOn, EndSessionThenLock
<1>20. ASSUME NEW c \in Callers, CallStop(c) PROVE ahead' \in [Tasks -> SUBSET Tasks]
  BY <1>20 DEF CallStop, Stop, StopGoesOn, EndSessionThenLock
<1>21. CASE \/ HeartbeatIdle \/ HeartbeatRecycles \/ HeartbeatStops \/ BackgroundStop
         \/ OperatorSuspends \/ OperatorResumes \/ EventArrives \/ ListenerWaits
         \/ ListenerPuts \/ RetryArrives \/ WakeRuns
  BY <1>21 DEF HeartbeatIdle, Suspend, HeartbeatRecycles, HeartbeatStops, BackgroundStop,
       Stop, StopGoesOn, Overwrites, EndSessionThenLock, OperatorSuspends,
       OperatorResumes, EventArrives, Wakes, WakesProcess, QueueAfterPut, ListenerWaits,
       ListenerPuts, RetryArrives, WakeRuns
<1>22. CASE UNCHANGED vars
  BY <1>22 DEF vars
<1>. QED
  BY <1>1, <1>2, <1>3, <1>4, <1>5, <1>6, <1>7, <1>8, <1>9, <1>10, <1>11, <1>12, <1>13,
       <1>14, <1>15, <1>16, <1>17, <1>18, <1>19, <1>20, <1>21, <1>22 DEF Next, Continue

\* Every step leaves data of the right types, and the queue within its
\* capacity.
LEMMA DataStep == TypeOK /\ [Next]_vars => Data'
<1>. SUFFICES ASSUME TypeOK, [Next]_vars PROVE Data'
  OBVIOUS
<1>. USE DEF TypeOK
<1>1. ASSUME NEW t \in Tasks, Continue(t) PROVE Data'
  <2>1. state' \in LC!ProcessState
    BY <1>1, LifecycleType DEF LC!Transition, LC!ProcessState, Continue, StopCancelled,
         StopGoesOn, Overwrites, StopDrained, EndSessionThenLock, SessionEnded,
         StopFinishesRecycle, StopNothingToDo, Returns, StopNeverStarted,
         StopBeginsShutdown, StopShutdown, ClearRun, StopReleased, StartCancelled,
         StartGoesOn, StartRefused, Restarting, StartCleansUp, StartBegins, StartSucceeds,
         StartFails, ScheduleRestart, NoRestart, StartReturns
  <2>2. suspend_reason' \in {"none", "idle", "other"}
    BY <1>1 DEF Continue, StopCancelled, StopGoesOn, Overwrites, StopDrained,
         EndSessionThenLock, SessionEnded, StopFinishesRecycle, StopNothingToDo, Returns,
         StopNeverStarted, StopBeginsShutdown, StopShutdown, ClearRun, StopReleased,
         StartCancelled, StartGoesOn, StartRefused, Restarting, StartCleansUp,
         StartBegins, StartSucceeds, StartFails, ScheduleRestart, NoRestart, StartReturns
  <2>3. /\ stop_requested' \in BOOLEAN /\ restarting' \in BOOLEAN /\ recycled' \in BOOLEAN
        /\ draining' \in BOOLEAN /\ session_active' \in BOOLEAN /\ heartbeat' \in BOOLEAN
    BY <1>1 DEF Continue, StopCancelled, StopGoesOn, Overwrites, StopDrained,
         EndSessionThenLock, SessionEnded, StopFinishesRecycle, StopNothingToDo, Returns,
         StopNeverStarted, StopBeginsShutdown, StopShutdown, ClearRun, StopReleased,
         StartCancelled, StartGoesOn, StartRefused, Restarting, StartCleansUp,
         StartBegins, StartSucceeds, StartFails, ScheduleRestart, NoRestart, StartReturns
  <2>4. waking' \in BOOLEAN /\ waiting' \in BOOLEAN /\ overwritten' \in BOOLEAN
    BY <1>1 DEF Continue, StopCancelled, StopGoesOn, Overwrites, StopDrained,
         EndSessionThenLock, SessionEnded, StopFinishesRecycle, StopNothingToDo, Returns,
         StopNeverStarted, StopBeginsShutdown, StopShutdown, ClearRun, StopReleased,
         StartCancelled, StartGoesOn, StartRefused, Restarting, StartCleansUp,
         StartBegins, StartSucceeds, StartFails, ScheduleRestart, NoRestart, StartReturns
  <2>5. restart_task' \in Restarters \cup {NoTask}
    BY <1>1 DEF Continue, StopCancelled, StopGoesOn, Overwrites, StopDrained,
         EndSessionThenLock, SessionEnded, StopFinishesRecycle, StopNothingToDo, Returns,
         StopNeverStarted, StopBeginsShutdown, StopShutdown, ClearRun, StopReleased,
         StartCancelled, StartGoesOn, StartRefused, Restarting, StartCleansUp,
         StartBegins, StartSucceeds, StartFails, ScheduleRestart, NoRestart, StartReturns
  <2>6. restart_count' \in Nat /\ failures' \in Nat
    <3>1. restart_count' = restart_count
      BY <1>1 DEF Continue, StopCancelled, StopGoesOn, Overwrites, StopDrained,
           EndSessionThenLock, SessionEnded, StopFinishesRecycle, StopNothingToDo,
           Returns, StopNeverStarted, StopBeginsShutdown, StopShutdown, ClearRun,
           StopReleased, StartCancelled, StartGoesOn, StartRefused, Restarting,
           StartCleansUp, StartBegins, StartSucceeds, StartFails, ScheduleRestart,
           NoRestart, StartReturns
    <3>2. failures' = failures \/ failures' = 0
      BY <1>1 DEF Continue, StopCancelled, StopGoesOn, Overwrites, StopDrained,
           EndSessionThenLock, SessionEnded, StopFinishesRecycle, StopNothingToDo,
           Returns, StopNeverStarted, StopBeginsShutdown, StopShutdown, ClearRun,
           StopReleased, StartCancelled, StartGoesOn, StartRefused, Restarting,
           StartCleansUp, StartBegins, StartSucceeds, StartFails, ScheduleRestart,
           NoRestart, StartReturns
    <3>. QED
      BY <3>1, <3>2
  <2>7. queued' \in 0..QueueSize
    <3>1. queued' = queued \/ queued' = 0
      BY <1>1 DEF Continue, StopCancelled, StopGoesOn, Overwrites, StopDrained,
           EndSessionThenLock, SessionEnded, StopFinishesRecycle, StopNothingToDo,
           Returns, StopNeverStarted, StopBeginsShutdown, StopShutdown, ClearRun,
           StopReleased, StartCancelled, StartGoesOn, StartRefused, Restarting,
           StartCleansUp, StartBegins, StartSucceeds, StartFails, ScheduleRestart,
           NoRestart, StartReturns
    <3>. QED
      BY <3>1, ConfigAssumption
  <2>. QED
    BY <2>1, <2>2, <2>3, <2>4, <2>5, <2>6, <2>7 DEF Data
<1>2. ASSUME NEW r \in Restarters, RestartContinue(r) PROVE Data'
  <2>1. state' \in LC!ProcessState
    BY <1>2, LifecycleType DEF LC!Transition, LC!ProcessState, RestartContinue,
         RestartCancelled, RestartGivesUp, RestartBegins, EndSessionThenLock,
         RestartRefused, RestartBeginsShutdown, RestartShutdown, ClearRun, Start,
         StartGoesOn
  <2>2. suspend_reason' \in {"none", "idle", "other"}
    BY <1>2 DEF RestartContinue, RestartCancelled, RestartGivesUp, RestartBegins,
         EndSessionThenLock, RestartRefused, RestartBeginsShutdown, RestartShutdown,
         ClearRun, Start, StartGoesOn
  <2>3. /\ stop_requested' \in BOOLEAN /\ restarting' \in BOOLEAN /\ recycled' \in BOOLEAN
        /\ draining' \in BOOLEAN /\ session_active' \in BOOLEAN /\ heartbeat' \in BOOLEAN
    BY <1>2 DEF RestartContinue, RestartCancelled, RestartGivesUp, RestartBegins,
         EndSessionThenLock, RestartRefused, RestartBeginsShutdown, RestartShutdown,
         ClearRun, Start, StartGoesOn
  <2>4. waking' \in BOOLEAN /\ waiting' \in BOOLEAN /\ overwritten' \in BOOLEAN
    BY <1>2 DEF RestartContinue, RestartCancelled, RestartGivesUp, RestartBegins,
         EndSessionThenLock, RestartRefused, RestartBeginsShutdown, RestartShutdown,
         ClearRun, Start, StartGoesOn
  <2>5. restart_task' \in Restarters \cup {NoTask}
    BY <1>2 DEF RestartContinue, RestartCancelled, RestartGivesUp, RestartBegins,
         EndSessionThenLock, RestartRefused, RestartBeginsShutdown, RestartShutdown,
         ClearRun, Start, StartGoesOn
  <2>6. restart_count' \in Nat /\ failures' \in Nat
    BY <1>2, ConfigAssumption DEF RestartContinue, RestartCancelled, RestartGivesUp,
         RestartBegins, EndSessionThenLock, RestartRefused, RestartBeginsShutdown,
         RestartShutdown, ClearRun, Start, StartGoesOn
  <2>7. queued' \in 0..QueueSize
    BY <1>2, ConfigAssumption DEF RestartContinue, RestartCancelled, RestartGivesUp,
         RestartBegins, EndSessionThenLock, RestartRefused, RestartBeginsShutdown,
         RestartShutdown, ClearRun, Start, StartGoesOn
  <2>. QED
    BY <2>1, <2>2, <2>3, <2>4, <2>5, <2>6, <2>7 DEF Data
<1>3. ASSUME NEW w \in Workers, Work(w) PROVE Data'
  <2>1. state' \in LC!ProcessState
    BY <1>3, LifecycleType DEF LC!Transition, LC!ProcessState, Work, Take, DropHeld,
         WorkerMoves, BeginScan, Flagged, BeginRun, SetAside, RunAnswers, RunSucceeds,
         RunFails, FailureIsSettled, FailureIsBorne, RunFailsProcess, ScheduleRestart,
         NoRestart, GovernancePauses, Suspend, GovernanceStops, Stop, StopGoesOn,
         Overwrites, EndSessionThenLock
  <2>2. suspend_reason' \in {"none", "idle", "other"}
    BY <1>3 DEF Work, Take, DropHeld, WorkerMoves, BeginScan, Flagged, BeginRun, SetAside,
         RunAnswers, RunSucceeds, RunFails, FailureIsSettled, FailureIsBorne,
         RunFailsProcess, ScheduleRestart, NoRestart, GovernancePauses, Suspend,
         GovernanceStops, Stop, StopGoesOn, Overwrites, EndSessionThenLock
  <2>3. /\ stop_requested' \in BOOLEAN /\ restarting' \in BOOLEAN /\ recycled' \in BOOLEAN
        /\ draining' \in BOOLEAN /\ session_active' \in BOOLEAN /\ heartbeat' \in BOOLEAN
    BY <1>3 DEF Work, Take, DropHeld, WorkerMoves, BeginScan, Flagged, BeginRun, SetAside,
         RunAnswers, RunSucceeds, RunFails, FailureIsSettled, FailureIsBorne,
         RunFailsProcess, ScheduleRestart, NoRestart, GovernancePauses, Suspend,
         GovernanceStops, Stop, StopGoesOn, Overwrites, EndSessionThenLock
  <2>4. waking' \in BOOLEAN /\ waiting' \in BOOLEAN /\ overwritten' \in BOOLEAN
    BY <1>3 DEF Work, Take, DropHeld, WorkerMoves, BeginScan, Flagged, BeginRun, SetAside,
         RunAnswers, RunSucceeds, RunFails, FailureIsSettled, FailureIsBorne,
         RunFailsProcess, ScheduleRestart, NoRestart, GovernancePauses, Suspend,
         GovernanceStops, Stop, StopGoesOn, Overwrites, EndSessionThenLock
  <2>5. restart_task' \in Restarters \cup {NoTask}
    BY <1>3 DEF Work, Take, DropHeld, WorkerMoves, BeginScan, Flagged, BeginRun, SetAside,
         RunAnswers, RunSucceeds, RunFails, FailureIsSettled, FailureIsBorne,
         RunFailsProcess, ScheduleRestart, NoRestart, GovernancePauses, Suspend,
         GovernanceStops, Stop, StopGoesOn, Overwrites, EndSessionThenLock
  <2>6. restart_count' \in Nat /\ failures' \in Nat
    BY <1>3, ConfigAssumption DEF Work, Take, DropHeld, WorkerMoves, BeginScan, Flagged,
         BeginRun, SetAside, RunAnswers, RunSucceeds, RunFails, FailureIsSettled,
         FailureIsBorne, RunFailsProcess, ScheduleRestart, NoRestart, GovernancePauses,
         Suspend, GovernanceStops, Stop, StopGoesOn, Overwrites, EndSessionThenLock
  <2>7. queued' \in 0..QueueSize
    BY <1>3, ConfigAssumption DEF Work, Take, DropHeld, WorkerMoves, BeginScan, Flagged,
         BeginRun, SetAside, RunAnswers, RunSucceeds, RunFails, FailureIsSettled,
         FailureIsBorne, RunFailsProcess, ScheduleRestart, NoRestart, GovernancePauses,
         Suspend, GovernanceStops, Stop, StopGoesOn, Overwrites, EndSessionThenLock
  <2>. QED
    BY <2>1, <2>2, <2>3, <2>4, <2>5, <2>6, <2>7 DEF Data
<1>4. ASSUME NEW c \in Callers, CallStart(c) \/ CallStop(c) PROVE Data'
  <2>1. state' \in LC!ProcessState
    BY <1>4, LifecycleType DEF LC!Transition, LC!ProcessState, CallStart, Start,
         StartGoesOn, EndSessionThenLock, CallStop, Stop, StopGoesOn, Overwrites
  <2>2. suspend_reason' \in {"none", "idle", "other"}
    BY <1>4 DEF CallStart, Start, StartGoesOn, EndSessionThenLock, CallStop, Stop,
         StopGoesOn, Overwrites
  <2>3. /\ stop_requested' \in BOOLEAN /\ restarting' \in BOOLEAN /\ recycled' \in BOOLEAN
        /\ draining' \in BOOLEAN /\ session_active' \in BOOLEAN /\ heartbeat' \in BOOLEAN
    BY <1>4 DEF CallStart, Start, StartGoesOn, EndSessionThenLock, CallStop, Stop,
         StopGoesOn, Overwrites
  <2>4. waking' \in BOOLEAN /\ waiting' \in BOOLEAN /\ overwritten' \in BOOLEAN
    BY <1>4 DEF CallStart, Start, StartGoesOn, EndSessionThenLock, CallStop, Stop,
         StopGoesOn, Overwrites
  <2>5. restart_task' \in Restarters \cup {NoTask}
    BY <1>4 DEF CallStart, Start, StartGoesOn, EndSessionThenLock, CallStop, Stop,
         StopGoesOn, Overwrites
  <2>6. restart_count' \in Nat /\ failures' \in Nat
    BY <1>4, ConfigAssumption DEF CallStart, Start, StartGoesOn, EndSessionThenLock,
         CallStop, Stop, StopGoesOn, Overwrites
  <2>7. queued' \in 0..QueueSize
    BY <1>4, ConfigAssumption DEF CallStart, Start, StartGoesOn, EndSessionThenLock,
         CallStop, Stop, StopGoesOn, Overwrites
  <2>. QED
    BY <2>1, <2>2, <2>3, <2>4, <2>5, <2>6, <2>7 DEF Data
<1>5. CASE \/ HeartbeatIdle \/ HeartbeatRecycles \/ HeartbeatStops \/ BackgroundStop
         \/ OperatorSuspends \/ OperatorResumes \/ EventArrives \/ ListenerWaits
         \/ ListenerPuts \/ RetryArrives \/ WakeRuns
  <2>1. state' \in LC!ProcessState
    BY <1>5, LifecycleType DEF LC!Transition, LC!ProcessState, HeartbeatIdle, Suspend,
         HeartbeatRecycles, HeartbeatStops, BackgroundStop, Stop, StopGoesOn, Overwrites,
         EndSessionThenLock, OperatorSuspends, OperatorResumes, EventArrives, Wakes,
         WakesProcess, QueueAfterPut, ListenerWaits, ListenerPuts, RetryArrives, WakeRuns
  <2>2. suspend_reason' \in {"none", "idle", "other"}
    BY <1>5 DEF HeartbeatIdle, Suspend, HeartbeatRecycles, HeartbeatStops, BackgroundStop,
         Stop, StopGoesOn, Overwrites, EndSessionThenLock, OperatorSuspends,
         OperatorResumes, EventArrives, Wakes, WakesProcess, QueueAfterPut, ListenerWaits,
         ListenerPuts, RetryArrives, WakeRuns
  <2>3. /\ stop_requested' \in BOOLEAN /\ restarting' \in BOOLEAN /\ recycled' \in BOOLEAN
        /\ draining' \in BOOLEAN /\ session_active' \in BOOLEAN /\ heartbeat' \in BOOLEAN
    BY <1>5 DEF HeartbeatIdle, Suspend, HeartbeatRecycles, HeartbeatStops, BackgroundStop,
         Stop, StopGoesOn, Overwrites, EndSessionThenLock, OperatorSuspends,
         OperatorResumes, EventArrives, Wakes, WakesProcess, QueueAfterPut, ListenerWaits,
         ListenerPuts, RetryArrives, WakeRuns
  <2>4. waking' \in BOOLEAN /\ waiting' \in BOOLEAN /\ overwritten' \in BOOLEAN
    BY <1>5 DEF HeartbeatIdle, Suspend, HeartbeatRecycles, HeartbeatStops, BackgroundStop,
         Stop, StopGoesOn, Overwrites, EndSessionThenLock, OperatorSuspends,
         OperatorResumes, EventArrives, Wakes, WakesProcess, QueueAfterPut, ListenerWaits,
         ListenerPuts, RetryArrives, WakeRuns
  <2>5. restart_task' \in Restarters \cup {NoTask}
    BY <1>5 DEF HeartbeatIdle, Suspend, HeartbeatRecycles, HeartbeatStops, BackgroundStop,
         Stop, StopGoesOn, Overwrites, EndSessionThenLock, OperatorSuspends,
         OperatorResumes, EventArrives, Wakes, WakesProcess, QueueAfterPut, ListenerWaits,
         ListenerPuts, RetryArrives, WakeRuns
  <2>6. restart_count' \in Nat /\ failures' \in Nat
    BY <1>5, ConfigAssumption DEF HeartbeatIdle, Suspend, HeartbeatRecycles, HeartbeatStops,
         BackgroundStop, Stop, StopGoesOn, Overwrites, EndSessionThenLock,
         OperatorSuspends, OperatorResumes, EventArrives, Wakes, WakesProcess,
         QueueAfterPut, ListenerWaits, ListenerPuts, RetryArrives, WakeRuns
  <2>7. queued' \in 0..QueueSize
    BY <1>5, ConfigAssumption DEF HeartbeatIdle, Suspend, HeartbeatRecycles, HeartbeatStops,
         BackgroundStop, Stop, StopGoesOn, Overwrites, EndSessionThenLock,
         OperatorSuspends, OperatorResumes, EventArrives, Wakes, WakesProcess,
         QueueAfterPut, ListenerWaits, ListenerPuts, RetryArrives, WakeRuns
  <2>. QED
    BY <2>1, <2>2, <2>3, <2>4, <2>5, <2>6, <2>7 DEF Data
<1>6. CASE UNCHANGED vars
  BY <1>6 DEF vars, Data
<1>. QED
  BY <1>1, <1>2, <1>3, <1>4, <1>5, <1>6 DEF Next

\* Every variable has its type, every task is where its kind can be, and the
\* trigger queue never exceeds its capacity (start, stop, suspend, resume,
\* _restart, the heartbeat and the workers of runtime/process.py).
THEOREM TypeCorrect == Spec => []TypeOK
<1>1. Init => TypeOK
  <2>. SUFFICES ASSUME Init PROVE TypeOK
    OBVIOUS
  <2>1. Placed
    BY TasksAssumption DEF Init, Placed, PlacesOK, PCs, CancelPC, StopPC, StartPC, DelayPC,
           RestartPC, WorkerPC
  <2>2. ahead \in [Tasks -> SUBSET Tasks]
    BY DEF Init
  <2>3. state \in LC!ProcessState
    BY DEF Init, LC!ProcessState
  <2>4. restart_task \in Restarters \cup {NoTask}
    BY DEF Init
  <2>5. restart_count \in Nat /\ failures \in Nat /\ queued \in 0..QueueSize
    BY ConfigAssumption DEF Init
  <2>. QED
    BY <2>1, <2>2, <2>3, <2>4, <2>5 DEF Init, TypeOK, Placed
<1>2. TypeOK /\ [Next]_vars => TypeOK'
  BY PlacesStep, AheadStep, DataStep DEF TypeOK, Placed, Data
<1>. QED
  BY <1>1, <1>2, PTL DEF Spec

-----------------------------------------------------------------------------
(* The process lock *)

\* Of two tasks at the lock one is ahead of the other, and nobody is ahead of
\* the task inside it: HasLock alone does not keep a second task out, the
\* queue left by every join and leave does.
NeedsLock == WaitsForLock \cup HoldsLock
LockOrder == \A t, u \in LockUsers : t # u => t \in ahead[u] \/ u \in ahead[t]
HolderFirst == \A t \in Tasks : pc[t] \in HoldsLock => ahead[t] = {}
LockInv == LockOrder /\ HolderFirst

\* A task that joins the queue goes behind everybody.
LEMMA JoinLock ==
    ASSUME TypeOK, LockInv, NEW t \in Tasks, ahead' = Joined(t), pc'[t] \notin HoldsLock,
           \A u \in Tasks \ {t} : pc'[u] = pc[u] \/ pc'[u] \notin NeedsLock
    PROVE  LockInv'
<1>. LockUsers' \subseteq LockUsers \cup {t}
  BY DEF LockUsers, NeedsLock
<1>. USE DEF TypeOK
<1>1. LockOrder'
  BY DEF LockInv, LockOrder, Joined, LockUsers
<1>2. HolderFirst'
  BY DEF LockInv, HolderFirst, Joined, NeedsLock
<1>. QED
  BY <1>1, <1>2 DEF LockInv

\* The tasks that leave, or are cancelled, leave the others in order.
LEMMA LeaveLock ==
    ASSUME TypeOK, LockInv, NEW S \in SUBSET Tasks, ahead' = Left(S),
           \A u \in Tasks : pc'[u] \in NeedsLock =>
               /\ u \notin S /\ pc[u] \in NeedsLock
               /\ pc'[u] \in HoldsLock => ahead[u] = {}
    PROVE  LockInv'
<1>. LockUsers' \subseteq LockUsers \ S
  BY DEF LockUsers, NeedsLock
<1>. USE DEF TypeOK
<1>1. LockOrder'
  BY DEF LockInv, LockOrder, Left, LockUsers
<1>2. HolderFirst'
  BY DEF LockInv, HolderFirst, Left, NeedsLock
<1>. QED
  BY <1>1, <1>2 DEF LockInv

\* Going in when nobody is ahead, or ending elsewhere, keeps the queue.
LEMMA KeepLock ==
    ASSUME TypeOK, LockInv, ahead' = ahead,
           \A u \in Tasks : pc'[u] \in NeedsLock =>
               pc[u] \in NeedsLock /\ (pc'[u] \in HoldsLock => ahead[u] = {})
    PROVE  LockInv'
<1>. LockUsers' \subseteq LockUsers
  BY DEF LockUsers, NeedsLock
<1>. QED
  BY DEF TypeOK, LockInv, LockOrder, HolderFirst, LockUsers, NeedsLock

\* The end of the session, then the lock.
LEMMA EndSessionLocks ==
    ASSUME TypeOK, LockInv, NEW t \in Tasks, NEW p, NEW hook \in PCs \ NeedsLock,
           NEW lock \in WaitsForLock,
           p \in [Tasks -> PCs], EndSessionThenLock(t, p, hook, lock),
           \A u \in Tasks \ {t} : p[u] = pc[u] \/ p[u] \notin NeedsLock
    PROVE  LockInv'
<1>. USE DEF EndSessionThenLock, NeedsLock, WaitsForLock, HoldsLock
<1>1. \A u \in Tasks \ {t} : pc'[u] = pc[u] \/ pc'[u] \notin NeedsLock
  OBVIOUS
<1>2. CASE session_active
  <2>1. ahead' = Left({t}) /\ pc'[t] = hook
    BY <1>2
  <2>. HIDE DEF EndSessionThenLock
  <2>2. \A u \in Tasks : pc'[u] \in NeedsLock => u # t /\ pc'[u] = pc[u]
    BY <1>1, <2>1
  <2>. QED
    BY <2>1, <2>2, LeaveLock DEF LockInv, HolderFirst
<1>3. CASE ~session_active
  <2>1. ahead' = Joined(t) /\ pc'[t] = lock
    BY <1>3
  <2>. HIDE DEF EndSessionThenLock
  <2>. QED
    BY <1>1, <2>1, JoinLock
<1>. QED
  BY <1>2, <1>3
\* stop() and start(), once no restart is pending, keep the order at the lock.
LEMMA GoesOnLocks ==
    ASSUME TypeOK, LockInv, NEW t \in Tasks
    PROVE  /\ \A drain \in BOOLEAN : StopGoesOn(t, drain) => LockInv'
           /\ \A s : StartGoesOn(t, s) => LockInv'
<1>. pc \in [Tasks -> PCs] /\ ahead \in [Tasks -> SUBSET Tasks]
  BY DEF TypeOK
<1>1. EndSessionThenLock(t, pc, "stop_session", "stop_lock") => LockInv'
  BY EndSessionLocks DEF NeedsLock, WaitsForLock, HoldsLock, PCs, StopPC
<1>2. EndSessionThenLock(t, pc, "start_session", "start_lock") => LockInv'
  BY EndSessionLocks DEF NeedsLock, WaitsForLock, HoldsLock, PCs, StartPC
<1>3. ASSUME ahead' = ahead, pc' = [pc EXCEPT ![t] = "stop_drain"] PROVE LockInv'
  <2>1. \A u \in Tasks : pc'[u] \in NeedsLock => pc'[u] = pc[u]
    BY <1>3 DEF NeedsLock, WaitsForLock, HoldsLock
  <2>. QED
    BY <1>3, <2>1, KeepLock DEF LockInv, HolderFirst
<1>4. ASSUME ahead' = Joined(t), pc' = [pc EXCEPT ![t] = "start_lock"] PROVE LockInv'
  BY <1>4, JoinLock DEF NeedsLock, WaitsForLock, HoldsLock
<1>5. ASSUME NEW drain \in BOOLEAN, StopGoesOn(t, drain) PROVE LockInv'
  BY <1>1, <1>3, <1>5 DEF StopGoesOn
<1>6. ASSUME NEW s, StartGoesOn(t, s) PROVE LockInv'
  BY <1>2, <1>4, <1>6 DEF StartGoesOn
<1>. QED
  BY <1>5, <1>6

\* A stop() request keeps the order at the lock.
LEMMA StopLocks ==
    ASSUME TypeOK, LockInv, NEW t \in Tasks, NEW drain \in BOOLEAN, Stop(t, drain)
    PROVE  LockInv'
<1>. pc \in [Tasks -> PCs] /\ ahead \in [Tasks -> SUBSET Tasks]
  BY DEF TypeOK
<1>1. CASE RestartPending(t)
  <2>1. ahead' = ahead
    BY <1>1 DEF Stop
  <2>2. PICK p \in CancelPC : CancelsPending(t, p)
    BY <1>1 DEF Stop, CancelPC
  <2>3. \A u \in Tasks : pc'[u] \in NeedsLock => pc'[u] = pc[u]
    BY <2>2 DEF CancelsPending, CancelPC, NeedsLock, WaitsForLock, HoldsLock
  <2>. QED
    BY <2>1, <2>3, KeepLock DEF LockInv, HolderFirst
<1>2. CASE ~RestartPending(t)
  BY <1>2, GoesOnLocks DEF Stop
<1>. QED
  BY <1>1, <1>2

\* So does a start().
LEMMA StartLocks ==
    ASSUME TypeOK, LockInv, NEW t \in Tasks, NEW s, Start(t, s)
    PROVE  LockInv'
<1>. pc \in [Tasks -> PCs] /\ ahead \in [Tasks -> SUBSET Tasks]
  BY DEF TypeOK
<1>1. CASE RestartPending(t)
  <2>1. ahead' = Left({t}) /\ CancelsPending(t, "start_cancel")
    BY <1>1 DEF Start
  <2>2. \A u \in Tasks : pc'[u] \in NeedsLock => pc'[u] = pc[u] /\ u # t
    BY <2>1 DEF CancelsPending, NeedsLock, WaitsForLock, HoldsLock
  <2>. QED
    BY <2>1, <2>2, LeaveLock DEF LockInv, HolderFirst
<1>2. CASE ~RestartPending(t)
  BY <1>2, GoesOnLocks DEF Start
<1>. QED
  BY <1>1, <1>2

\* So does a teardown, which cancels workers that may be waiting at the lock.
LEMMA ShutdownLocks ==
    ASSUME TypeOK, LockInv, NEW t \in Tasks, NEW next \in HoldsLock,
           HasLock(t), pc[t] \in WaitsForLock, BeginShutdown(t, next)
    PROVE  LockInv'
<1>. pc \in [Tasks -> PCs] /\ ahead \in [Tasks -> SUBSET Tasks]
  BY DEF TypeOK
<1>1. \A u \in Tasks : pc'[u] \in NeedsLock =>
         u \notin OtherWorkers(t) /\ (u = t \/ pc'[u] = pc[u])
  BY DEF BeginShutdown, OtherWorkers, NeedsLock, WaitsForLock, HoldsLock
<1>2. OtherWorkers(t) \in SUBSET Tasks /\ ahead' = Left(OtherWorkers(t))
  BY DEF BeginShutdown, OtherWorkers, Tasks
<1>. QED
  BY <1>1, <1>2, LeaveLock DEF LockInv, HolderFirst, HasLock, NeedsLock

\* Every step keeps the order at the lock.
LEMMA LockStep == TypeOK /\ TypeOK' /\ LockInv /\ [Next]_vars => LockInv'
<1>. SUFFICES ASSUME TypeOK, TypeOK', LockInv, [Next]_vars PROVE LockInv'
  OBVIOUS
<1>. pc \in [Tasks -> PCs] /\ ahead \in [Tasks -> SUBSET Tasks]
  BY DEF TypeOK
<1>. \A t \in Tasks : pc[t] \in HoldsLock => ahead[t] = {}
  BY DEF LockInv, HolderFirst
<1>. USE TasksAssumption, KeepLock, LeaveLock, JoinLock DEF NeedsLock, WaitsForLock,
       HoldsLock, HasLock
<1>1. ASSUME NEW t \in Tasks, StopCancelled(t) PROVE LockInv'
  BY <1>1, GoesOnLocks DEF StopCancelled
<1>2. ASSUME NEW t \in Tasks, StopDrained(t) PROVE LockInv'
  BY <1>2 DEF StopDrained, EndSessionThenLock
<1>3. ASSUME NEW t \in Tasks, SessionEnded(t) PROVE LockInv'
  BY <1>3 DEF SessionEnded
<1>4. ASSUME NEW t \in Tasks, StopFinishesRecycle(t) PROVE LockInv'
  BY <1>4 DEF StopFinishesRecycle
<1>5. ASSUME NEW t \in Tasks, StopNothingToDo(t) PROVE LockInv'
  BY <1>5 DEF StopNothingToDo, Returns
<1>6. ASSUME NEW t \in Tasks, StopNeverStarted(t) PROVE LockInv'
  BY <1>6 DEF StopNeverStarted
<1>7. ASSUME NEW t \in Tasks, StopBeginsShutdown(t) PROVE LockInv'
  BY <1>7, ShutdownLocks DEF StopBeginsShutdown, Tasks
<1>8. ASSUME NEW t \in Tasks, StopShutdown(t) PROVE LockInv'
  BY <1>8 DEF StopShutdown, ClearRun
<1>9. ASSUME NEW t \in Tasks, StopReleased(t) PROVE LockInv'
  BY <1>9 DEF StopReleased, Returns
<1>10. ASSUME NEW t \in Tasks, StartCancelled(t) PROVE LockInv'
  BY <1>10, GoesOnLocks DEF StartCancelled
<1>11. ASSUME NEW t \in Tasks, StartRefused(t) PROVE LockInv'
  BY <1>11 DEF StartRefused, Restarting
<1>12. ASSUME NEW t \in Tasks, StartCleansUp(t) PROVE LockInv'
  BY <1>12, ShutdownLocks DEF StartCleansUp, Tasks
<1>13. ASSUME NEW t \in Tasks, StartBegins(t) PROVE LockInv'
  BY <1>13 DEF StartBegins
<1>14. ASSUME NEW t \in Tasks, StartSucceeds(t) PROVE LockInv'
  BY <1>14 DEF StartSucceeds
<1>15. ASSUME NEW t \in Tasks, StartFails(t) PROVE LockInv'
  BY <1>15 DEF StartFails, Restarting, ScheduleRestart, NoRestart
<1>16. ASSUME NEW t \in Tasks, StartReturns(t) PROVE LockInv'
  BY <1>16 DEF StartReturns, Restarting
<1>17. ASSUME NEW r \in Restarters, RestartCancelled(r) PROVE LockInv'
  BY <1>17 DEF RestartCancelled
<1>18. ASSUME NEW r \in Restarters, RestartGivesUp(r) PROVE LockInv'
  BY <1>18 DEF RestartGivesUp
<1>19. ASSUME NEW r \in Restarters, RestartBegins(r) PROVE LockInv'
  BY <1>19, EndSessionLocks DEF RestartBegins, Tasks, PCs, RestartPC
<1>20. ASSUME NEW r \in Restarters, RestartRefused(r) PROVE LockInv'
  <2>1. r \in Tasks /\ ahead' = Left({r}) /\ pc' = [pc EXCEPT ![r] = "none"]
    BY <1>20 DEF RestartRefused, Tasks
  <2>. QED
    BY <2>1
<1>21. ASSUME NEW r \in Restarters, RestartBeginsShutdown(r) PROVE LockInv'
  BY <1>21, ShutdownLocks DEF RestartBeginsShutdown, Tasks
<1>22. ASSUME NEW r \in Restarters, RestartShutdown(r) PROVE LockInv'
  <2>. r \in Tasks
    BY DEF Tasks
  <2>1. CASE stop_requested
    <3>1. ahead' = Left({r}) /\ pc' = [pc EXCEPT ![r] = "none"]
      BY <1>22, <2>1 DEF RestartShutdown
    <3>. QED
      BY <3>1
  <2>2. CASE ~stop_requested
    <3>1. PICK s : Start(r, s)
      BY <1>22, <2>2 DEF RestartShutdown
    <3>. QED
      BY <3>1, StartLocks
  <2>. QED
    BY <2>1, <2>2
<1>23. ASSUME NEW w \in Workers, Take(w) PROVE LockInv'
  BY <1>23 DEF Take
<1>24. ASSUME NEW w \in Workers, DropHeld(w) PROVE LockInv'
  BY <1>24 DEF DropHeld, WorkerMoves
<1>25. ASSUME NEW w \in Workers, BeginScan(w) PROVE LockInv'
  BY <1>25 DEF BeginScan, WorkerMoves
<1>26. ASSUME NEW w \in Workers, Flagged(w) PROVE LockInv'
  BY <1>26 DEF Flagged, WorkerMoves
<1>27. ASSUME NEW w \in Workers, BeginRun(w) PROVE LockInv'
  BY <1>27 DEF BeginRun, WorkerMoves
<1>28. ASSUME NEW w \in Workers, SetAside(w) PROVE LockInv'
  BY <1>28 DEF SetAside, WorkerMoves
<1>29. ASSUME NEW w \in Workers, RunAnswers(w) PROVE LockInv'
  BY <1>29 DEF RunAnswers
<1>30. ASSUME NEW w \in Workers, RunSucceeds(w) PROVE LockInv'
  BY <1>30 DEF RunSucceeds
<1>31. ASSUME NEW w \in Workers, RunFails(w) PROVE LockInv'
  BY <1>31 DEF RunFails
<1>32. ASSUME NEW w \in Workers, FailureIsSettled(w) PROVE LockInv'
  BY <1>32 DEF FailureIsSettled, WorkerMoves
<1>33. ASSUME NEW w \in Workers, FailureIsBorne(w) PROVE LockInv'
  BY <1>33 DEF FailureIsBorne, WorkerMoves
<1>34. ASSUME NEW w \in Workers, RunFailsProcess(w) PROVE LockInv'
  BY <1>34 DEF RunFailsProcess, ScheduleRestart, NoRestart
<1>35. ASSUME NEW w \in Workers, GovernancePauses(w) PROVE LockInv'
  BY <1>35 DEF GovernancePauses, Suspend
<1>36. ASSUME NEW w \in Workers, GovernanceStops(w) PROVE LockInv'
  <2>1. Stop(w, FALSE) /\ w \in Tasks
    BY <1>36 DEF GovernanceStops, Tasks
  <2>. QED
    BY <2>1, StopLocks
<1>37. ASSUME NEW c \in Callers, CallStart(c) PROVE LockInv'
  BY <1>37, StartLocks DEF CallStart, Tasks
<1>38. ASSUME NEW c \in Callers, CallStop(c) PROVE LockInv'
  <2>1. PICK drain \in BOOLEAN : Stop(c, drain)
    BY <1>38 DEF CallStop
  <2>. QED
    BY <2>1, StopLocks DEF Tasks
<1>39. ASSUME HeartbeatIdle PROVE LockInv'
  BY <1>39 DEF HeartbeatIdle, Suspend
<1>40. ASSUME HeartbeatRecycles PROVE LockInv'
  BY <1>40 DEF HeartbeatRecycles
<1>41. ASSUME HeartbeatStops PROVE LockInv'
  BY <1>41 DEF HeartbeatStops
<1>42. ASSUME BackgroundStop PROVE LockInv'
  <2>1. Stop(BgStop, FALSE) /\ BgStop \in Tasks
    BY <1>42 DEF BackgroundStop, Tasks
  <2>. QED
    BY <2>1, StopLocks
<1>43. ASSUME OperatorSuspends PROVE LockInv'
  BY <1>43 DEF OperatorSuspends, Suspend
<1>44. ASSUME OperatorResumes PROVE LockInv'
  BY <1>44 DEF OperatorResumes
<1>45. ASSUME EventArrives PROVE LockInv'
  BY <1>45 DEF EventArrives, Wakes, WakesProcess, QueueAfterPut
<1>46. ASSUME ListenerWaits PROVE LockInv'
  BY <1>46 DEF ListenerWaits, Wakes, WakesProcess
<1>47. ASSUME ListenerPuts PROVE LockInv'
  BY <1>47 DEF ListenerPuts
<1>48. ASSUME RetryArrives PROVE LockInv'
  BY <1>48 DEF RetryArrives
<1>49. ASSUME WakeRuns PROVE LockInv'
  BY <1>49 DEF WakeRuns, Wakes, WakesProcess
<1>50. CASE UNCHANGED vars
  BY <1>50 DEF vars
<1>. QED
  BY <1>1, <1>2, <1>3, <1>4, <1>5, <1>6, <1>7, <1>8, <1>9, <1>10, <1>11, <1>12, <1>13,
       <1>14, <1>15, <1>16, <1>17, <1>18, <1>19, <1>20, <1>21, <1>22, <1>23, <1>24, <1>25,
       <1>26, <1>27, <1>28, <1>29, <1>30, <1>31, <1>32, <1>33, <1>34, <1>35, <1>36, <1>37,
       <1>38, <1>39, <1>40, <1>41, <1>42, <1>43, <1>44, <1>45, <1>46, <1>47, <1>48, <1>49,
       <1>50 DEF Next, Continue, RestartContinue, Work

\* The order at the lock keeps all but one task out of it.
LEMMA LockMeansExclusive == TypeOK /\ LockInv => LockIsExclusive
BY DEF TypeOK, LockInv, LockOrder, HolderFirst, LockIsExclusive, LockUsers

\* The order at the lock is an invariant.
LEMMA LockInvariant == Spec => [](TypeOK /\ LockInv)
<1>1. Init => LockInv
  BY DEF Init, LockInv, LockOrder, HolderFirst, LockUsers, NeedsLock, WaitsForLock,
         HoldsLock
<1>. QED
  BY <1>1, TypeCorrect, LockStep, PTL DEF Spec

\* Teardowns and builds of any number of callers, restarts, background stops
\* and workers that stop their own process never overlap (the self._lock
\* sections of start, stop and _restart).
THEOREM LockIsExclusiveAlways == Spec => []LockIsExclusive
BY LockInvariant, LockMeansExclusive, PTL

-----------------------------------------------------------------------------
(* A process that is down *)

\* From the start of a teardown to the end of a build no worker exists but
\* the one tearing down: what makes "down" mean quiescent.
Teardown == {"stop_shut", "re_shut", "start_shut", "start_build"}
WorkersGone == \A t \in Tasks : pc[t] \in Teardown => \A w \in Workers \ {t} : pc[w] = "none"
DownInv == WorkersGone /\ QuiescentWhenDown

\* Every step keeps the workers away from a teardown and a build.
LEMMA WorkersStep == TypeOK /\ LockInv /\ DownInv /\ [Next]_vars => WorkersGone'
<1>. SUFFICES ASSUME TypeOK, LockInv, DownInv, [Next]_vars PROVE WorkersGone'
  OBVIOUS
<1>. pc \in [Tasks -> PCs] /\ PlacesOK /\ state \in LC!ProcessState
     /\ LockIsExclusive /\ WorkersGone
  BY LockMeansExclusive DEF TypeOK, DownInv
<1>. USE TasksAssumption DEF WorkersGone, Teardown, Tasks
<1>1. ASSUME NEW t \in Tasks, StopCancelled(t) PROVE WorkersGone'
  <2>1. PICK p \in {"stop_drain", "stop_session", "stop_lock"} : pc' = [pc EXCEPT ![t] = p]
    BY <1>1, StopGoesOnMoves DEF StopCancelled
  <2>. QED
    BY <1>1, <2>1 DEF StopCancelled, CancelPC
<1>2. ASSUME NEW t \in Tasks, StopDrained(t) PROVE WorkersGone'
  BY <1>2 DEF StopDrained, EndSessionThenLock
<1>3. ASSUME NEW t \in Tasks, SessionEnded(t) PROVE WorkersGone'
  BY <1>3 DEF SessionEnded
<1>4. ASSUME NEW t \in Tasks, StopFinishesRecycle(t) PROVE WorkersGone'
  BY <1>4 DEF StopFinishesRecycle
<1>5. ASSUME NEW t \in Tasks, StopNothingToDo(t) PROVE WorkersGone'
  BY <1>5 DEF StopNothingToDo, Returns
<1>6. ASSUME NEW t \in Tasks, StopNeverStarted(t) PROVE WorkersGone'
  BY <1>6 DEF StopNeverStarted
<1>7. ASSUME NEW t \in Tasks, StopBeginsShutdown(t) PROVE WorkersGone'
  BY <1>7 DEF StopBeginsShutdown, BeginShutdown, OtherWorkers
<1>8. ASSUME NEW t \in Tasks, StopShutdown(t) PROVE WorkersGone'
  BY <1>8 DEF StopShutdown, ClearRun
<1>9. ASSUME NEW t \in Tasks, StopReleased(t) PROVE WorkersGone'
  BY <1>9 DEF StopReleased, Returns
<1>10. ASSUME NEW t \in Tasks, StartCancelled(t) PROVE WorkersGone'
  <2>1. PICK p \in {"start_session", "start_lock"} : pc' = [pc EXCEPT ![t] = p]
    BY <1>10, StartGoesOnMoves DEF StartCancelled
  <2>. QED
    BY <1>10, <2>1 DEF StartCancelled
<1>11. ASSUME NEW t \in Tasks, StartRefused(t) PROVE WorkersGone'
  BY <1>11 DEF StartRefused, Restarting
<1>12. ASSUME NEW t \in Tasks, StartCleansUp(t) PROVE WorkersGone'
  BY <1>12 DEF StartCleansUp, BeginShutdown, OtherWorkers
<1>13. ASSUME NEW t \in Tasks, StartBegins(t) PROVE WorkersGone'
  <2>1. CASE pc[t] = "start_shut"
    BY <1>13, <2>1 DEF StartBegins
  <2>2. CASE pc[t] = "start_lock" /\ HasLock(t) /\ state # "failed"
    <3>1. state \in {"created", "stopped"}
      BY <1>13, <2>2 DEF StartBegins, LC!Transition, LC!CanTransition,
             LC!ValidTransitions, LC!ProcessState
    <3>2. \A w \in Workers : pc[w] \in {"none", "stop_release"}
      BY <3>1 DEF DownInv, QuiescentWhenDown
    <3>3. \A w \in Workers \ {t} : pc[w] # "stop_release"
      BY <2>2 DEF LockInv, LockOrder, HolderFirst, LockUsers, HasLock, WaitsForLock,
             HoldsLock
    <3>4. pc' = [pc EXCEPT ![t] = "start_build"]
      BY <1>13 DEF StartBegins
    <3>5. t \notin Workers
      BY <2>2 DEF PlacesOK, StartPC
    <3>. QED
      BY <3>2, <3>3, <3>4, <3>5
  <2>. QED
    BY <1>13, <2>1, <2>2 DEF StartBegins
<1>14. ASSUME NEW t \in Tasks, StartSucceeds(t) PROVE WorkersGone'
  BY <1>14 DEF StartSucceeds, LockIsExclusive, HoldsLock
<1>15. ASSUME NEW t \in Tasks, StartFails(t) PROVE WorkersGone'
  BY <1>15 DEF StartFails, Restarting, ScheduleRestart, NoRestart
<1>16. ASSUME NEW t \in Tasks, StartReturns(t) PROVE WorkersGone'
  BY <1>16 DEF StartReturns, Restarting
<1>17. ASSUME NEW r \in Restarters, RestartCancelled(r) PROVE WorkersGone'
  BY <1>17 DEF RestartCancelled
<1>18. ASSUME NEW r \in Restarters, RestartGivesUp(r) PROVE WorkersGone'
  BY <1>18 DEF RestartGivesUp
<1>19. ASSUME NEW r \in Restarters, RestartBegins(r) PROVE WorkersGone'
  BY <1>19 DEF RestartBegins, EndSessionThenLock
<1>20. ASSUME NEW r \in Restarters, RestartRefused(r) PROVE WorkersGone'
  BY <1>20 DEF RestartRefused
<1>21. ASSUME NEW r \in Restarters, RestartBeginsShutdown(r) PROVE WorkersGone'
  BY <1>21 DEF RestartBeginsShutdown, BeginShutdown, OtherWorkers
<1>22. ASSUME NEW r \in Restarters, RestartShutdown(r) PROVE WorkersGone'
  <2>1. CASE stop_requested
    BY <1>22, <2>1 DEF RestartShutdown
  <2>2. CASE ~stop_requested
    <3>1. PICK s : Start(r, s)
      BY <1>22, <2>2 DEF RestartShutdown
    <3>2. /\ pc' \in [Tasks -> PCs]
          /\ pc'[r] \in {"start_cancel", "start_session", "start_lock"}
          /\ OthersStay(r)
      BY <3>1, StartMoves
    <3>. QED
      BY <3>2 DEF OthersStay
  <2>. QED
    BY <2>1, <2>2
<1>23. ASSUME NEW w \in Workers, Take(w) PROVE WorkersGone'
  BY <1>23 DEF Take
<1>24. ASSUME NEW w \in Workers, DropHeld(w) PROVE WorkersGone'
  BY <1>24 DEF DropHeld, WorkerMoves
<1>25. ASSUME NEW w \in Workers, BeginScan(w) PROVE WorkersGone'
  BY <1>25 DEF BeginScan, WorkerMoves
<1>26. ASSUME NEW w \in Workers, Flagged(w) PROVE WorkersGone'
  BY <1>26 DEF Flagged, WorkerMoves
<1>27. ASSUME NEW w \in Workers, BeginRun(w) PROVE WorkersGone'
  BY <1>27 DEF BeginRun, WorkerMoves
<1>28. ASSUME NEW w \in Workers, SetAside(w) PROVE WorkersGone'
  BY <1>28 DEF SetAside, WorkerMoves
<1>29. ASSUME NEW w \in Workers, RunAnswers(w) PROVE WorkersGone'
  BY <1>29 DEF RunAnswers
<1>30. ASSUME NEW w \in Workers, RunSucceeds(w) PROVE WorkersGone'
  BY <1>30 DEF RunSucceeds
<1>31. ASSUME NEW w \in Workers, RunFails(w) PROVE WorkersGone'
  BY <1>31 DEF RunFails
<1>32. ASSUME NEW w \in Workers, FailureIsSettled(w) PROVE WorkersGone'
  BY <1>32 DEF FailureIsSettled, WorkerMoves
<1>33. ASSUME NEW w \in Workers, FailureIsBorne(w) PROVE WorkersGone'
  BY <1>33 DEF FailureIsBorne, WorkerMoves
<1>34. ASSUME NEW w \in Workers, RunFailsProcess(w) PROVE WorkersGone'
  BY <1>34 DEF RunFailsProcess, ScheduleRestart, NoRestart
<1>35. ASSUME NEW w \in Workers, GovernancePauses(w) PROVE WorkersGone'
  BY <1>35 DEF GovernancePauses, Suspend
<1>36. ASSUME NEW w \in Workers, GovernanceStops(w) PROVE WorkersGone'
  <2>1. Stop(w, FALSE) /\ w \in Tasks
    BY <1>36 DEF GovernanceStops
  <2>2. /\ pc' \in [Tasks -> PCs]
        /\ pc'[w] \in CancelPC \cup {"stop_drain", "stop_session", "stop_lock"}
        /\ OthersStay(w)
    BY <2>1, StopMoves
  <2>3. pc[w] # "none" /\ pc[w] \notin Teardown
    BY <1>36 DEF GovernanceStops, Governed
  <2>. QED
    BY <2>2, <2>3 DEF OthersStay, CancelPC
<1>37. ASSUME NEW c \in Callers, CallStart(c) PROVE WorkersGone'
  <2>1. Start(c, state) /\ c \in Tasks
    BY <1>37 DEF CallStart
  <2>2. /\ pc' \in [Tasks -> PCs]
        /\ pc'[c] \in {"start_cancel", "start_session", "start_lock"}
        /\ OthersStay(c)
    BY <2>1, StartMoves
  <2>. QED
    BY <2>2 DEF OthersStay
<1>38. ASSUME NEW c \in Callers, CallStop(c) PROVE WorkersGone'
  <2>1. PICK drain \in BOOLEAN : Stop(c, drain)
    BY <1>38 DEF CallStop
  <2>2. /\ pc' \in [Tasks -> PCs]
        /\ pc'[c] \in CancelPC \cup {"stop_drain", "stop_session", "stop_lock"}
        /\ OthersStay(c)
    BY <2>1, StopMoves
  <2>. QED
    BY <2>2 DEF OthersStay, CancelPC
<1>39. ASSUME HeartbeatIdle PROVE WorkersGone'
  BY <1>39 DEF HeartbeatIdle, Suspend
<1>40. ASSUME HeartbeatRecycles PROVE WorkersGone'
  BY <1>40 DEF HeartbeatRecycles
<1>41. ASSUME HeartbeatStops PROVE WorkersGone'
  BY <1>41 DEF HeartbeatStops
<1>42. ASSUME BackgroundStop PROVE WorkersGone'
  <2>1. Stop(BgStop, FALSE) /\ BgStop \in Tasks
    BY <1>42 DEF BackgroundStop
  <2>2. /\ pc' \in [Tasks -> PCs]
        /\ pc'[BgStop] \in CancelPC \cup {"stop_drain", "stop_session", "stop_lock"}
        /\ OthersStay(BgStop)
    BY <2>1, StopMoves
  <2>. QED
    BY <2>2 DEF OthersStay, CancelPC
<1>43. ASSUME OperatorSuspends PROVE WorkersGone'
  BY <1>43 DEF OperatorSuspends, Suspend
<1>44. ASSUME OperatorResumes PROVE WorkersGone'
  BY <1>44 DEF OperatorResumes
<1>45. ASSUME EventArrives PROVE WorkersGone'
  BY <1>45 DEF EventArrives, Wakes, WakesProcess, QueueAfterPut
<1>46. ASSUME ListenerWaits PROVE WorkersGone'
  BY <1>46 DEF ListenerWaits, Wakes, WakesProcess
<1>47. ASSUME ListenerPuts PROVE WorkersGone'
  BY <1>47 DEF ListenerPuts
<1>48. ASSUME RetryArrives PROVE WorkersGone'
  BY <1>48 DEF RetryArrives
<1>49. ASSUME WakeRuns PROVE WorkersGone'
  BY <1>49 DEF WakeRuns, Wakes, WakesProcess
<1>50. CASE UNCHANGED vars
  BY <1>50 DEF vars
<1>. QED
  BY <1>1, <1>2, <1>3, <1>4, <1>5, <1>6, <1>7, <1>8, <1>9, <1>10, <1>11, <1>12, <1>13,
       <1>14, <1>15, <1>16, <1>17, <1>18, <1>19, <1>20, <1>21, <1>22, <1>23, <1>24, <1>25,
       <1>26, <1>27, <1>28, <1>29, <1>30, <1>31, <1>32, <1>33, <1>34, <1>35, <1>36, <1>37,
       <1>38, <1>39, <1>40, <1>41, <1>42, <1>43, <1>44, <1>45, <1>46, <1>47, <1>48, <1>49,
       <1>50 DEF Next, Continue, RestartContinue, Work

\* Every step leaves a process that is down quiescent.
LEMMA DownStep == TypeOK /\ LockInv /\ DownInv /\ [Next]_vars => QuiescentWhenDown'
<1>. SUFFICES ASSUME TypeOK, LockInv, DownInv, [Next]_vars PROVE QuiescentWhenDown'
  OBVIOUS
<1>. pc \in [Tasks -> PCs] /\ PlacesOK /\ state \in LC!ProcessState
     /\ WorkersGone /\ QuiescentWhenDown
  BY DEF TypeOK, DownInv
<1>. USE TasksAssumption DEF QuiescentWhenDown, Tasks
<1>1. ASSUME NEW t \in Tasks, StopCancelled(t) PROVE QuiescentWhenDown'
  <2>1. PICK p \in {"stop_drain", "stop_session", "stop_lock"} : pc' = [pc EXCEPT ![t] = p]
    BY <1>1, StopGoesOnMoves DEF StopCancelled
  <2>2. state' = state /\ heartbeat' = heartbeat
    BY <1>1 DEF StopCancelled
  <2>3. state \in {"created", "stopped"} /\ ~draining => ~draining'
    BY <1>1 DEF StopCancelled, StopGoesOn
  <2>4. pc[t] \in CancelPC
    BY <1>1 DEF StopCancelled
  <2>. QED
    BY <2>1, <2>2, <2>3, <2>4 DEF CancelPC
<1>2. ASSUME NEW t \in Tasks, StopDrained(t) PROVE QuiescentWhenDown'
  BY <1>2 DEF StopDrained, EndSessionThenLock, LC!Transition, LC!CanTransition
<1>3. ASSUME NEW t \in Tasks, SessionEnded(t) PROVE QuiescentWhenDown'
  BY <1>3 DEF SessionEnded, LC!Transition, LC!CanTransition
<1>4. ASSUME NEW t \in Tasks, StopFinishesRecycle(t) PROVE QuiescentWhenDown'
  BY <1>4 DEF StopFinishesRecycle, LC!Transition, LC!CanTransition
<1>5. ASSUME NEW t \in Tasks, StopNothingToDo(t) PROVE QuiescentWhenDown'
  BY <1>5 DEF StopNothingToDo, Returns, LC!Transition, LC!CanTransition
<1>6. ASSUME NEW t \in Tasks, StopNeverStarted(t) PROVE QuiescentWhenDown'
  BY <1>6 DEF StopNeverStarted, LC!Transition, LC!CanTransition
<1>7. ASSUME NEW t \in Tasks, StopBeginsShutdown(t) PROVE QuiescentWhenDown'
  BY <1>7 DEF StopBeginsShutdown, BeginShutdown, OtherWorkers, LC!Transition,
         LC!CanTransition
<1>8. ASSUME NEW t \in Tasks, StopShutdown(t) PROVE QuiescentWhenDown'
  BY <1>8 DEF StopShutdown, ClearRun, WorkersGone, Teardown, LC!Transition
<1>9. ASSUME NEW t \in Tasks, StopReleased(t) PROVE QuiescentWhenDown'
  BY <1>9 DEF StopReleased, Returns, LC!Transition, LC!CanTransition
<1>10. ASSUME NEW t \in Tasks, StartCancelled(t) PROVE QuiescentWhenDown'
  <2>1. PICK p \in {"start_session", "start_lock"} : pc' = [pc EXCEPT ![t] = p]
    BY <1>10, StartGoesOnMoves DEF StartCancelled
  <2>2. UNCHANGED <<state, heartbeat, draining>> /\ pc[t] = "start_cancel"
    BY <1>10 DEF StartCancelled
  <2>. QED
    BY <2>1, <2>2
<1>11. ASSUME NEW t \in Tasks, StartRefused(t) PROVE QuiescentWhenDown'
  BY <1>11 DEF StartRefused, Restarting, LC!Transition, LC!CanTransition
<1>12. ASSUME NEW t \in Tasks, StartCleansUp(t) PROVE QuiescentWhenDown'
  BY <1>12 DEF StartCleansUp, BeginShutdown, OtherWorkers, LC!Transition, LC!CanTransition
<1>13. ASSUME NEW t \in Tasks, StartBegins(t) PROVE QuiescentWhenDown'
  BY <1>13 DEF StartBegins, LC!Transition, LC!CanTransition
<1>14. ASSUME NEW t \in Tasks, StartSucceeds(t) PROVE QuiescentWhenDown'
  BY <1>14 DEF StartSucceeds, LC!Transition, LC!CanTransition
<1>15. ASSUME NEW t \in Tasks, StartFails(t) PROVE QuiescentWhenDown'
  BY <1>15 DEF StartFails, Restarting, ScheduleRestart, NoRestart, LC!Transition,
         LC!CanTransition
<1>16. ASSUME NEW t \in Tasks, StartReturns(t) PROVE QuiescentWhenDown'
  BY <1>16 DEF StartReturns, Restarting, LC!Transition, LC!CanTransition
<1>17. ASSUME NEW r \in Restarters, RestartCancelled(r) PROVE QuiescentWhenDown'
  BY <1>17 DEF RestartCancelled, LC!Transition, LC!CanTransition
<1>18. ASSUME NEW r \in Restarters, RestartGivesUp(r) PROVE QuiescentWhenDown'
  BY <1>18 DEF RestartGivesUp, LC!Transition, LC!CanTransition
<1>19. ASSUME NEW r \in Restarters, RestartBegins(r) PROVE QuiescentWhenDown'
  BY <1>19 DEF RestartBegins, EndSessionThenLock, LC!Transition, LC!CanTransition
<1>20. ASSUME NEW r \in Restarters, RestartRefused(r) PROVE QuiescentWhenDown'
  BY <1>20 DEF RestartRefused, LC!Transition, LC!CanTransition
<1>21. ASSUME NEW r \in Restarters, RestartBeginsShutdown(r) PROVE QuiescentWhenDown'
  BY <1>21 DEF RestartBeginsShutdown, BeginShutdown, OtherWorkers, LC!Transition,
         LC!CanTransition
<1>22. ASSUME NEW r \in Restarters, RestartShutdown(r) PROVE QuiescentWhenDown'
  <2>1. state' \in {state, "stopped"} /\ ~heartbeat' /\ ~draining'
    BY <1>22 DEF RestartShutdown, ClearRun, LC!Transition
  <2>2. \A w \in Workers : pc[w] = "none"
    BY <1>22 DEF RestartShutdown, WorkersGone, Teardown
  <2>3. \A w \in Workers : pc'[w] = "none"
    <3>1. CASE stop_requested
      BY <1>22, <2>2, <3>1 DEF RestartShutdown
    <3>2. CASE ~stop_requested
      <4>1. PICK s : Start(r, s)
        BY <1>22, <3>2 DEF RestartShutdown
      <4>2. OthersStay(r)
        BY <4>1, StartMoves
      <4>. QED
        BY <2>2, <4>2 DEF OthersStay
    <3>. QED
      BY <3>1, <3>2
  <2>. QED
    BY <2>1, <2>3
<1>23. ASSUME NEW w \in Workers, Take(w) PROVE QuiescentWhenDown'
  BY <1>23 DEF Take, LC!Transition, LC!CanTransition
<1>24. ASSUME NEW w \in Workers, DropHeld(w) PROVE QuiescentWhenDown'
  BY <1>24 DEF DropHeld, WorkerMoves, LC!Transition, LC!CanTransition
<1>25. ASSUME NEW w \in Workers, BeginScan(w) PROVE QuiescentWhenDown'
  BY <1>25 DEF BeginScan, WorkerMoves, LC!Transition, LC!CanTransition
<1>26. ASSUME NEW w \in Workers, Flagged(w) PROVE QuiescentWhenDown'
  BY <1>26 DEF Flagged, WorkerMoves, LC!Transition, LC!CanTransition
<1>27. ASSUME NEW w \in Workers, BeginRun(w) PROVE QuiescentWhenDown'
  BY <1>27 DEF BeginRun, WorkerMoves, LC!Transition, LC!CanTransition
<1>28. ASSUME NEW w \in Workers, SetAside(w) PROVE QuiescentWhenDown'
  BY <1>28 DEF SetAside, WorkerMoves, LC!Transition, LC!CanTransition
<1>29. ASSUME NEW w \in Workers, RunAnswers(w) PROVE QuiescentWhenDown'
  BY <1>29 DEF RunAnswers, LC!Transition, LC!CanTransition
<1>30. ASSUME NEW w \in Workers, RunSucceeds(w) PROVE QuiescentWhenDown'
  BY <1>30 DEF RunSucceeds, LC!Transition, LC!CanTransition
<1>31. ASSUME NEW w \in Workers, RunFails(w) PROVE QuiescentWhenDown'
  BY <1>31 DEF RunFails, LC!Transition, LC!CanTransition
<1>32. ASSUME NEW w \in Workers, FailureIsSettled(w) PROVE QuiescentWhenDown'
  BY <1>32 DEF FailureIsSettled, WorkerMoves, LC!Transition, LC!CanTransition
<1>33. ASSUME NEW w \in Workers, FailureIsBorne(w) PROVE QuiescentWhenDown'
  BY <1>33 DEF FailureIsBorne, WorkerMoves, LC!Transition, LC!CanTransition
<1>34. ASSUME NEW w \in Workers, RunFailsProcess(w) PROVE QuiescentWhenDown'
  BY <1>34 DEF RunFailsProcess, ScheduleRestart, NoRestart, LC!Transition, LC!CanTransition
<1>35. ASSUME NEW w \in Workers, GovernancePauses(w) PROVE QuiescentWhenDown'
  BY <1>35 DEF GovernancePauses, Suspend, LC!Transition, LC!CanTransition
<1>36. ASSUME NEW w \in Workers, GovernanceStops(w) PROVE QuiescentWhenDown'
  <2>1. state' = state /\ pc[w] \in {"run", "post", "failing"}
    BY <1>36 DEF GovernanceStops, Governed, Stop
  <2>. QED
    BY <2>1
<1>37. ASSUME NEW c \in Callers, CallStart(c) PROVE QuiescentWhenDown'
  <2>1. Start(c, state) /\ c \in Tasks
    BY <1>37 DEF CallStart
  <2>2. /\ pc' \in [Tasks -> PCs]
        /\ pc'[c] \in {"start_cancel", "start_session", "start_lock"}
        /\ OthersStay(c)
    BY <2>1, StartMoves
  <2>3. UNCHANGED <<state, heartbeat, draining>>
    BY <1>37 DEF CallStart
  <2>. QED
    BY <2>2, <2>3 DEF OthersStay
<1>38. ASSUME NEW c \in Callers, CallStop(c) PROVE QuiescentWhenDown'
  <2>1. PICK drain \in BOOLEAN : Stop(c, drain)
    BY <1>38 DEF CallStop
  <2>2. /\ pc' \in [Tasks -> PCs]
        /\ pc'[c] \in CancelPC \cup {"stop_drain", "stop_session", "stop_lock"}
        /\ OthersStay(c)
    BY <2>1, StopMoves
  <2>3. state' = state /\ heartbeat' = heartbeat
    BY <2>1 DEF Stop
  <2>4. state \in {"created", "stopped"} /\ ~draining => ~draining'
    BY <2>1 DEF Stop, StopGoesOn
  <2>. QED
    BY <2>2, <2>3, <2>4 DEF OthersStay
<1>39. ASSUME HeartbeatIdle PROVE QuiescentWhenDown'
  BY <1>39 DEF HeartbeatIdle, Suspend, LC!Transition, LC!CanTransition
<1>40. ASSUME HeartbeatRecycles PROVE QuiescentWhenDown'
  BY <1>40 DEF HeartbeatRecycles, LC!Transition, LC!CanTransition
<1>41. ASSUME HeartbeatStops PROVE QuiescentWhenDown'
  BY <1>41 DEF HeartbeatStops, LC!Transition, LC!CanTransition
<1>42. ASSUME BackgroundStop PROVE QuiescentWhenDown'
  <2>1. Stop(BgStop, FALSE) /\ BgStop \in Tasks
    BY <1>42 DEF BackgroundStop
  <2>2. /\ pc' \in [Tasks -> PCs]
        /\ pc'[BgStop] \in CancelPC \cup {"stop_drain", "stop_session", "stop_lock"}
        /\ OthersStay(BgStop)
    BY <2>1, StopMoves
  <2>3. state' = state /\ heartbeat' = heartbeat
    BY <2>1 DEF Stop
  <2>4. state \in {"created", "stopped"} /\ ~draining => ~draining'
    BY <2>1 DEF Stop, StopGoesOn
  <2>. QED
    BY <2>2, <2>3, <2>4 DEF OthersStay
<1>43. ASSUME OperatorSuspends PROVE QuiescentWhenDown'
  BY <1>43 DEF OperatorSuspends, Suspend, LC!Transition, LC!CanTransition
<1>44. ASSUME OperatorResumes PROVE QuiescentWhenDown'
  BY <1>44 DEF OperatorResumes, LC!Transition, LC!CanTransition
<1>45. ASSUME EventArrives PROVE QuiescentWhenDown'
  BY <1>45 DEF EventArrives, Wakes, WakesProcess, QueueAfterPut, LC!Transition, LC!CanTransition
<1>46. ASSUME ListenerWaits PROVE QuiescentWhenDown'
  BY <1>46 DEF ListenerWaits, Wakes, WakesProcess, LC!Transition, LC!CanTransition
<1>47. ASSUME ListenerPuts PROVE QuiescentWhenDown'
  BY <1>47 DEF ListenerPuts, LC!Transition, LC!CanTransition
<1>48. ASSUME RetryArrives PROVE QuiescentWhenDown'
  BY <1>48 DEF RetryArrives, LC!Transition, LC!CanTransition
<1>49. ASSUME WakeRuns PROVE QuiescentWhenDown'
  BY <1>49 DEF WakeRuns, Wakes, WakesProcess, LC!Transition, LC!CanTransition
<1>50. CASE UNCHANGED vars
  BY <1>50 DEF vars
<1>. QED
  BY <1>1, <1>2, <1>3, <1>4, <1>5, <1>6, <1>7, <1>8, <1>9, <1>10, <1>11, <1>12, <1>13,
       <1>14, <1>15, <1>16, <1>17, <1>18, <1>19, <1>20, <1>21, <1>22, <1>23, <1>24, <1>25,
       <1>26, <1>27, <1>28, <1>29, <1>30, <1>31, <1>32, <1>33, <1>34, <1>35, <1>36, <1>37,
       <1>38, <1>39, <1>40, <1>41, <1>42, <1>43, <1>44, <1>45, <1>46, <1>47, <1>48, <1>49,
       <1>50 DEF Next, Continue, RestartContinue, Work

\* A stopped or new process has no heartbeat, no drain and no worker at work
\* (what _shutdown promises).
LEMMA DownInvariant == Spec => [](TypeOK /\ LockInv /\ DownInv)
<1>1. Init => DownInv
  BY DEF Init, DownInv, WorkersGone, QuiescentWhenDown, Teardown, Tasks
<1>2. TypeOK /\ LockInv /\ DownInv /\ [Next]_vars => DownInv'
  BY WorkersStep, DownStep DEF DownInv
<1>. QED
  BY <1>1, <1>2, LockInvariant, PTL DEF Spec

\* A stopped or new process has no heartbeat, no drain and no worker at work,
\* whatever stops, restarts and failures ran into one another (what _shutdown
\* promises its callers).
THEOREM QuiescentWhenDownAlways == Spec => []QuiescentWhenDown
BY DownInvariant, PTL DEF DownInv

-----------------------------------------------------------------------------
(* Draining *)

\* The graceful stop that drains is still this side of the end of its
\* teardown.
DrainingPC == {"stop_drain", "stop_session", "stop_lock", "stop_shut"}
DrainOwned == draining => \E c \in Callers : pc[c] \in DrainingPC

\* Every step that leaves the process draining leaves the stop() that drains
\* it.
LEMMA DrainStep == TypeOK /\ QuiescentWhenDown /\ DrainOwned /\ [Next]_vars => DrainOwned'
<1>. SUFFICES ASSUME TypeOK, QuiescentWhenDown, DrainOwned, [Next]_vars, draining'
              PROVE  \E c \in Callers : pc'[c] \in DrainingPC
  BY DEF DrainOwned
<1>. DEFINE Owned == \E c \in Callers : pc'[c] \in DrainingPC
<1>. pc \in [Tasks -> PCs] /\ PlacesOK /\ restart_task \in Restarters \cup {NoTask}
     /\ state \in LC!ProcessState /\ (draining => \E c \in Callers : pc[c] \in DrainingPC)
  BY DEF TypeOK, DrainOwned
<1>. USE TasksAssumption DEF DrainingPC, Tasks, PlacesOK, StartPC, DelayPC, RestartPC, WorkerPC
<1>1. ASSUME NEW t \in Tasks, StopCancelled(t) PROVE Owned
  <2>1. PICK p \in {"stop_drain", "stop_session", "stop_lock"} : pc' = [pc EXCEPT ![t] = p]
    BY <1>1, StopGoesOnMoves DEF StopCancelled
  <2>2. pc[t] \in CancelPC
    BY <1>1 DEF StopCancelled
  <2>3. draining \/ pc[t] = "stop_cancel_drain"
    BY <1>1 DEF StopCancelled, StopGoesOn
  <2>. QED
    BY <2>1, <2>2, <2>3 DEF CancelPC
<1>2. ASSUME NEW t \in Tasks, StopDrained(t) PROVE Owned
  BY <1>2 DEF StopDrained, EndSessionThenLock
<1>3. ASSUME NEW t \in Tasks, SessionEnded(t) PROVE Owned
  BY <1>3 DEF SessionEnded
<1>4. ASSUME NEW t \in Tasks, StopFinishesRecycle(t) PROVE Owned
  BY <1>4 DEF StopFinishesRecycle, QuiescentWhenDown
<1>5. ASSUME NEW t \in Tasks, StopNothingToDo(t) PROVE Owned
  BY <1>5 DEF StopNothingToDo, QuiescentWhenDown
<1>6. ASSUME NEW t \in Tasks, StopNeverStarted(t) PROVE Owned
  BY <1>6 DEF StopNeverStarted, QuiescentWhenDown
<1>7. ASSUME NEW t \in Tasks, StopBeginsShutdown(t) PROVE Owned
  BY <1>7 DEF StopBeginsShutdown, BeginShutdown, OtherWorkers
<1>8. ASSUME NEW t \in Tasks, StopShutdown(t) PROVE Owned
  BY <1>8 DEF StopShutdown, ClearRun
<1>9. ASSUME NEW t \in Tasks, StopReleased(t) PROVE Owned
  BY <1>9 DEF StopReleased, Returns
<1>10. ASSUME NEW t \in Tasks, StartCancelled(t) PROVE Owned
  <2>1. PICK p \in {"start_session", "start_lock"} : pc' = [pc EXCEPT ![t] = p]
    BY <1>10, StartGoesOnMoves DEF StartCancelled
  <2>2. draining /\ pc[t] = "start_cancel"
    BY <1>10 DEF StartCancelled
  <2>. QED
    BY <2>1, <2>2
<1>11. ASSUME NEW t \in Tasks, StartRefused(t) PROVE Owned
  BY <1>11 DEF StartRefused, Restarting
<1>12. ASSUME NEW t \in Tasks, StartCleansUp(t) PROVE Owned
  BY <1>12 DEF StartCleansUp, BeginShutdown, OtherWorkers
<1>13. ASSUME NEW t \in Tasks, StartBegins(t) PROVE Owned
  BY <1>13 DEF StartBegins
<1>14. ASSUME NEW t \in Tasks, StartSucceeds(t) PROVE Owned
  BY <1>14 DEF StartSucceeds
<1>15. ASSUME NEW t \in Tasks, StartFails(t) PROVE Owned
  BY <1>15 DEF StartFails, Restarting, ScheduleRestart, NoRestart
<1>16. ASSUME NEW t \in Tasks, StartReturns(t) PROVE Owned
  BY <1>16 DEF StartReturns, Restarting
<1>17. ASSUME NEW r \in Restarters, RestartCancelled(r) PROVE Owned
  BY <1>17 DEF RestartCancelled
<1>18. ASSUME NEW r \in Restarters, RestartGivesUp(r) PROVE Owned
  BY <1>18 DEF RestartGivesUp
<1>19. ASSUME NEW r \in Restarters, RestartBegins(r) PROVE Owned
  BY <1>19 DEF RestartBegins, EndSessionThenLock
<1>20. ASSUME NEW r \in Restarters, RestartRefused(r) PROVE Owned
  BY <1>20 DEF RestartRefused
<1>21. ASSUME NEW r \in Restarters, RestartBeginsShutdown(r) PROVE Owned
  BY <1>21 DEF RestartBeginsShutdown, BeginShutdown, OtherWorkers
<1>22. ASSUME NEW r \in Restarters, RestartShutdown(r) PROVE Owned
  BY <1>22 DEF RestartShutdown, ClearRun
<1>23. ASSUME NEW w \in Workers, Take(w) PROVE Owned
  BY <1>23 DEF Take
<1>24. ASSUME NEW w \in Workers, DropHeld(w) PROVE Owned
  BY <1>24 DEF DropHeld, WorkerMoves
<1>25. ASSUME NEW w \in Workers, BeginScan(w) PROVE Owned
  BY <1>25 DEF BeginScan, WorkerMoves
<1>26. ASSUME NEW w \in Workers, Flagged(w) PROVE Owned
  BY <1>26 DEF Flagged, WorkerMoves
<1>27. ASSUME NEW w \in Workers, BeginRun(w) PROVE Owned
  BY <1>27 DEF BeginRun, WorkerMoves
<1>28. ASSUME NEW w \in Workers, SetAside(w) PROVE Owned
  BY <1>28 DEF SetAside, WorkerMoves
<1>29. ASSUME NEW w \in Workers, RunAnswers(w) PROVE Owned
  BY <1>29 DEF RunAnswers
<1>30. ASSUME NEW w \in Workers, RunSucceeds(w) PROVE Owned
  BY <1>30 DEF RunSucceeds
<1>31. ASSUME NEW w \in Workers, RunFails(w) PROVE Owned
  BY <1>31 DEF RunFails
<1>32. ASSUME NEW w \in Workers, FailureIsSettled(w) PROVE Owned
  BY <1>32 DEF FailureIsSettled, WorkerMoves
<1>33. ASSUME NEW w \in Workers, FailureIsBorne(w) PROVE Owned
  BY <1>33 DEF FailureIsBorne, WorkerMoves
<1>34. ASSUME NEW w \in Workers, RunFailsProcess(w) PROVE Owned
  BY <1>34 DEF RunFailsProcess, ScheduleRestart, NoRestart
<1>35. ASSUME NEW w \in Workers, GovernancePauses(w) PROVE Owned
  BY <1>35 DEF GovernancePauses, Suspend
<1>36. ASSUME NEW w \in Workers, GovernanceStops(w) PROVE Owned
  <2>1. Stop(w, FALSE) /\ w \in Tasks
    BY <1>36 DEF GovernanceStops
  <2>2. /\ pc' \in [Tasks -> PCs]
        /\ pc'[w] \in CancelPC \cup {"stop_drain", "stop_session", "stop_lock"}
        /\ OthersStay(w)
    BY <2>1, StopMoves
  <2>3. draining
    BY <2>1 DEF Stop, StopGoesOn
  <2>. QED
    BY <2>2, <2>3 DEF OthersStay
<1>37. ASSUME NEW c \in Callers, CallStart(c) PROVE Owned
  <2>1. Start(c, state) /\ c \in Tasks
    BY <1>37 DEF CallStart
  <2>2. /\ pc' \in [Tasks -> PCs]
        /\ pc'[c] \in {"start_cancel", "start_session", "start_lock"}
        /\ OthersStay(c)
    BY <2>1, StartMoves
  <2>3. draining /\ pc[c] = "none"
    BY <1>37 DEF CallStart
  <2>. QED
    BY <2>2, <2>3 DEF OthersStay
<1>38. ASSUME NEW c \in Callers, CallStop(c) PROVE Owned
  <2>1. PICK drain \in BOOLEAN : Stop(c, drain)
    BY <1>38 DEF CallStop
  <2>2. /\ pc' \in [Tasks -> PCs]
        /\ pc'[c] \in CancelPC \cup {"stop_drain", "stop_session", "stop_lock"}
        /\ OthersStay(c)
    BY <2>1, StopMoves
  <2>3. pc[c] = "none"
    BY <1>38 DEF CallStop
  <2>4. CASE pc'[c] \in CancelPC
    <3>1. ~StopGoesOn(c, drain)
      <4>1. SUFFICES ASSUME StopGoesOn(c, drain) PROVE FALSE
        OBVIOUS
      <4>2. PICK p \in {"stop_drain", "stop_session", "stop_lock"} : pc' = [pc EXCEPT ![c] = p]
        BY <4>1, StopGoesOnMoves
      <4>. QED
        BY <2>4, <4>2 DEF CancelPC
    <3>2. draining
      BY <2>1, <3>1 DEF Stop
    <3>. QED
      BY <2>2, <2>3, <3>2 DEF OthersStay
  <2>5. CASE pc'[c] \notin CancelPC
    BY <2>2, <2>5
  <2>. QED
    BY <2>4, <2>5
<1>39. ASSUME HeartbeatIdle PROVE Owned
  BY <1>39 DEF HeartbeatIdle, Suspend
<1>40. ASSUME HeartbeatRecycles PROVE Owned
  BY <1>40 DEF HeartbeatRecycles
<1>41. ASSUME HeartbeatStops PROVE Owned
  BY <1>41 DEF HeartbeatStops
<1>42. ASSUME BackgroundStop PROVE Owned
  <2>1. Stop(BgStop, FALSE) /\ BgStop \in Tasks
    BY <1>42 DEF BackgroundStop
  <2>2. /\ pc' \in [Tasks -> PCs]
        /\ pc'[BgStop] \in CancelPC \cup {"stop_drain", "stop_session", "stop_lock"}
        /\ OthersStay(BgStop)
    BY <2>1, StopMoves
  <2>3. draining
    BY <2>1 DEF Stop, StopGoesOn
  <2>. QED
    BY <2>2, <2>3 DEF OthersStay
<1>43. ASSUME OperatorSuspends PROVE Owned
  BY <1>43 DEF OperatorSuspends, Suspend
<1>44. ASSUME OperatorResumes PROVE Owned
  BY <1>44 DEF OperatorResumes
<1>45. ASSUME EventArrives PROVE Owned
  BY <1>45 DEF EventArrives, Wakes, WakesProcess, QueueAfterPut
<1>46. ASSUME ListenerWaits PROVE Owned
  BY <1>46 DEF ListenerWaits, Wakes, WakesProcess
<1>47. ASSUME ListenerPuts PROVE Owned
  BY <1>47 DEF ListenerPuts
<1>48. ASSUME RetryArrives PROVE Owned
  BY <1>48 DEF RetryArrives
<1>49. ASSUME WakeRuns PROVE Owned
  BY <1>49 DEF WakeRuns, Wakes, WakesProcess
<1>50. CASE UNCHANGED vars
  BY <1>50 DEF vars
<1>. QED
  BY <1>1, <1>2, <1>3, <1>4, <1>5, <1>6, <1>7, <1>8, <1>9, <1>10, <1>11, <1>12, <1>13,
       <1>14, <1>15, <1>16, <1>17, <1>18, <1>19, <1>20, <1>21, <1>22, <1>23, <1>24, <1>25,
       <1>26, <1>27, <1>28, <1>29, <1>30, <1>31, <1>32, <1>33, <1>34, <1>35, <1>36, <1>37,
       <1>38, <1>39, <1>40, <1>41, <1>42, <1>43, <1>44, <1>45, <1>46, <1>47, <1>48, <1>49,
       <1>50 DEF Next, Continue, RestartContinue, Work

\* The process refuses runs and events only while a graceful stop() of a
\* caller is under way (_drain_runs, _shutdown, start).
THEOREM DrainEndsAlways == Spec => []DrainEnds
<1>1. Init => DrainOwned
  BY DEF Init, DrainOwned
<1>2. DownInv => QuiescentWhenDown
  BY DEF DownInv
<1>3. DrainOwned => DrainEnds
  BY DEF DrainOwned, DrainingPC, DrainEnds, StopPC, CancelPC
<1>. QED
  BY <1>1, <1>2, <1>3, DrainStep, DownInvariant, PTL DEF Spec

-----------------------------------------------------------------------------
-----------------------------------------------------------------------------
(* Automatic restarts *)

\* Until one is overwritten, a restart in its delay is the one _restart_task
\* names, and one of a failure was scheduled with an attempt left.
OnePending ==
    \A r \in Restarters :
        /\ pc[r] \in DelayPC => restart_task = r
        /\ pc[r] = "re_delay" => restart_count < MaxRestarts
Counted == restart_count <= MaxRestarts /\ OnePending
RestartInv == overwritten \/ Counted

\* No step forgets that a restart was overwritten.
LEMMA OverwrittenStays == TypeOK /\ [Next]_vars /\ overwritten => overwritten'
<1>. SUFFICES ASSUME [Next]_vars, overwritten PROVE overwritten'
  OBVIOUS
<1>1. ASSUME NEW t \in Tasks, Continue(t) PROVE overwritten'
  BY <1>1 DEF Continue, StopCancelled, StopGoesOn, Overwrites, StopDrained,
       EndSessionThenLock, SessionEnded, StopFinishesRecycle, StopNothingToDo, Returns,
       StopNeverStarted, StopBeginsShutdown, StopShutdown, ClearRun, StopReleased,
       StartCancelled, StartGoesOn, StartRefused, Restarting, StartCleansUp, StartBegins,
       StartSucceeds, StartFails, ScheduleRestart, NoRestart, StartReturns
<1>2. ASSUME NEW r \in Restarters, RestartContinue(r) PROVE overwritten'
  BY <1>2 DEF RestartContinue, RestartCancelled, RestartGivesUp, RestartBegins,
       EndSessionThenLock, RestartRefused, RestartBeginsShutdown, RestartShutdown,
       ClearRun, Start, StartGoesOn
<1>3. ASSUME NEW w \in Workers, Work(w) PROVE overwritten'
  BY <1>3 DEF Work, Take, DropHeld, WorkerMoves, BeginScan, Flagged, BeginRun, SetAside,
       RunAnswers, RunSucceeds, RunFails, FailureIsSettled, FailureIsBorne,
       RunFailsProcess, ScheduleRestart, NoRestart, GovernancePauses, Suspend,
       GovernanceStops, Stop, StopGoesOn, Overwrites, EndSessionThenLock
<1>4. ASSUME NEW c \in Callers, CallStart(c) \/ CallStop(c) PROVE overwritten'
  BY <1>4 DEF CallStart, Start, StartGoesOn, EndSessionThenLock, CallStop, Stop,
       StopGoesOn, Overwrites
<1>5. CASE \/ HeartbeatIdle \/ HeartbeatRecycles \/ HeartbeatStops \/ BackgroundStop
         \/ OperatorSuspends \/ OperatorResumes \/ EventArrives \/ ListenerWaits
         \/ ListenerPuts \/ RetryArrives \/ WakeRuns
  BY <1>5 DEF HeartbeatIdle, Suspend, HeartbeatRecycles, HeartbeatStops, BackgroundStop,
       Stop, StopGoesOn, Overwrites, EndSessionThenLock, OperatorSuspends,
       OperatorResumes, EventArrives, Wakes, WakesProcess, QueueAfterPut, ListenerWaits,
       ListenerPuts, RetryArrives, WakeRuns
<1>6. CASE UNCHANGED vars
  BY <1>6 DEF vars
<1>. QED
  BY <1>1, <1>2, <1>3, <1>4, <1>5, <1>6 DEF Next

\* A stop() request leaves no restart in its delay.
LEMMA StopLeavesNone ==
    ASSUME TypeOK, OnePending, NEW t \in Tasks \ Restarters, NEW drain \in BOOLEAN, Stop(t, drain)
    PROVE  \A r \in Restarters : pc'[r] \notin DelayPC
<1>. pc \in [Tasks -> PCs] /\ restart_task \in Restarters \cup {NoTask}
     /\ Restarters \subseteq Tasks /\ NoTask \notin Restarters
  BY TasksAssumption DEF TypeOK, Tasks
<1>1. CASE RestartPending(t)
  <2>1. PICK p \in CancelPC : CancelsPending(t, p)
    BY <1>1 DEF Stop, CancelPC
  <2>. QED
    BY <2>1 DEF OnePending, CancelsPending, CancelPC, DelayPC
<1>2. CASE ~RestartPending(t)
  <2>1. restart_task = NoTask
    BY <1>2 DEF RestartPending
  <2>2. StopGoesOn(t, drain)
    BY <1>2 DEF Stop
  <2>3. PICK p \in {"stop_drain", "stop_session", "stop_lock"} : pc' = [pc EXCEPT ![t] = p]
    BY <2>2, StopGoesOnMoves
  <2>. QED
    BY <2>1, <2>3 DEF OnePending, DelayPC
<1>. QED
  BY <1>1, <1>2

\* Nor does a start().
LEMMA StartLeavesNone ==
    ASSUME TypeOK, OnePending, NEW t \in Tasks, pc[t] \notin DelayPC, NEW s, Start(t, s)
    PROVE  \A r \in Restarters : pc'[r] \notin DelayPC
<1>. pc \in [Tasks -> PCs] /\ restart_task \in Restarters \cup {NoTask}
     /\ Restarters \subseteq Tasks /\ NoTask \notin Restarters
  BY TasksAssumption DEF TypeOK, Tasks
<1>1. CASE RestartPending(t)
  <2>1. CancelsPending(t, "start_cancel")
    BY <1>1 DEF Start
  <2>. QED
    BY <2>1 DEF OnePending, CancelsPending, DelayPC
<1>2. CASE ~RestartPending(t)
  <2>1. restart_task \in {NoTask, t}
    BY <1>2 DEF RestartPending
  <2>2. StartGoesOn(t, s)
    BY <1>2 DEF Start
  <2>3. PICK p \in {"start_session", "start_lock"} : pc' = [pc EXCEPT ![t] = p]
    BY <2>2, StartGoesOnMoves
  <2>. QED
    BY <2>1, <2>3 DEF OnePending, DelayPC
<1>. QED
  BY <1>1, <1>2

\* Every step keeps the restarts one at a time and counted, or overwrites one.
LEMMA CountedStep == TypeOK /\ Counted /\ [Next]_vars => Counted' \/ overwritten'
<1>. SUFFICES ASSUME TypeOK, Counted, [Next]_vars PROVE Counted' \/ overwritten'
  OBVIOUS
<1>. DEFINE Inv == Counted' \/ overwritten'
<1>. pc \in [Tasks -> PCs] /\ PlacesOK /\ restart_task \in Restarters \cup {NoTask}
     /\ restart_count \in Nat /\ restart_count <= MaxRestarts /\ OnePending
  BY DEF TypeOK, Counted
<1>. USE TasksAssumption, ConfigAssumption DEF Counted, OnePending, DelayPC, Tasks
<1>1. ASSUME NEW t \in Tasks, StopCancelled(t) PROVE Inv
  <2>1. PICK p \in {"stop_drain", "stop_session", "stop_lock"} : pc' = [pc EXCEPT ![t] = p]
    BY <1>1, StopGoesOnMoves DEF StopCancelled
  <2>2. restart_count' = restart_count /\ (restart_task # NoTask => overwritten')
    BY <1>1 DEF StopCancelled, StopGoesOn, Overwrites
  <2>. QED
    BY <2>1, <2>2
<1>2. ASSUME NEW t \in Tasks, StopDrained(t) PROVE Inv
  BY <1>2 DEF StopDrained, EndSessionThenLock
<1>3. ASSUME NEW t \in Tasks, SessionEnded(t) PROVE Inv
  BY <1>3 DEF SessionEnded
<1>4. ASSUME NEW t \in Tasks, StopFinishesRecycle(t) PROVE Inv
  BY <1>4 DEF StopFinishesRecycle
<1>5. ASSUME NEW t \in Tasks, StopNothingToDo(t) PROVE Inv
  BY <1>5 DEF StopNothingToDo, Returns
<1>6. ASSUME NEW t \in Tasks, StopNeverStarted(t) PROVE Inv
  BY <1>6 DEF StopNeverStarted
<1>7. ASSUME NEW t \in Tasks, StopBeginsShutdown(t) PROVE Inv
  BY <1>7 DEF StopBeginsShutdown, BeginShutdown, OtherWorkers
<1>8. ASSUME NEW t \in Tasks, StopShutdown(t) PROVE Inv
  BY <1>8 DEF StopShutdown, ClearRun
<1>9. ASSUME NEW t \in Tasks, StopReleased(t) PROVE Inv
  BY <1>9 DEF StopReleased, Returns
<1>10. ASSUME NEW t \in Tasks, StartCancelled(t) PROVE Inv
  <2>1. PICK p \in {"start_session", "start_lock"} : pc' = [pc EXCEPT ![t] = p]
    BY <1>10, StartGoesOnMoves DEF StartCancelled
  <2>2. restart_count' = restart_count /\ (restart_task # NoTask => overwritten')
    BY <1>10 DEF StartCancelled, Overwrites
  <2>. QED
    BY <2>1, <2>2
<1>11. ASSUME NEW t \in Tasks, StartRefused(t) PROVE Inv
  BY <1>11 DEF StartRefused, Restarting
<1>12. ASSUME NEW t \in Tasks, StartCleansUp(t) PROVE Inv
  BY <1>12 DEF StartCleansUp, BeginShutdown, OtherWorkers
<1>13. ASSUME NEW t \in Tasks, StartBegins(t) PROVE Inv
  BY <1>13 DEF StartBegins
<1>14. ASSUME NEW t \in Tasks, StartSucceeds(t) PROVE Inv
  BY <1>14 DEF StartSucceeds
<1>15. ASSUME NEW t \in Tasks, StartFails(t) PROVE Inv
  BY <1>15 DEF StartFails, Restarting, ScheduleRestart, NoRestart, RestartIsDue
<1>16. ASSUME NEW t \in Tasks, StartReturns(t) PROVE Inv
  BY <1>16 DEF StartReturns, Restarting
<1>17. ASSUME NEW r \in Restarters, RestartCancelled(r) PROVE Inv
  BY <1>17 DEF RestartCancelled
<1>18. ASSUME NEW r \in Restarters, RestartGivesUp(r) PROVE Inv
  BY <1>18 DEF RestartGivesUp
<1>19. ASSUME NEW r \in Restarters, RestartBegins(r) PROVE Inv
  BY <1>19 DEF RestartBegins, EndSessionThenLock
<1>20. ASSUME NEW r \in Restarters, RestartRefused(r) PROVE Inv
  BY <1>20 DEF RestartRefused
<1>21. ASSUME NEW r \in Restarters, RestartBeginsShutdown(r) PROVE Inv
  BY <1>21 DEF RestartBeginsShutdown, BeginShutdown, OtherWorkers
<1>22. ASSUME NEW r \in Restarters, RestartShutdown(r) PROVE Inv
  <2>1. CASE stop_requested
    BY <1>22, <2>1 DEF RestartShutdown
  <2>2. CASE ~stop_requested
    <3>1. restart_count' = restart_count /\ r \in Tasks /\ pc[r] \notin DelayPC
      BY <1>22 DEF RestartShutdown
    <3>2. PICK s : Start(r, s)
      BY <1>22, <2>2 DEF RestartShutdown
    <3>3. \A q \in Restarters : pc'[q] \notin DelayPC
      BY <3>1, <3>2, StartLeavesNone
    <3>. QED
      BY <3>1, <3>3
  <2>. QED
    BY <2>1, <2>2
<1>23. ASSUME NEW w \in Workers, Take(w) PROVE Inv
  BY <1>23 DEF Take
<1>24. ASSUME NEW w \in Workers, DropHeld(w) PROVE Inv
  BY <1>24 DEF DropHeld, WorkerMoves
<1>25. ASSUME NEW w \in Workers, BeginScan(w) PROVE Inv
  BY <1>25 DEF BeginScan, WorkerMoves
<1>26. ASSUME NEW w \in Workers, Flagged(w) PROVE Inv
  BY <1>26 DEF Flagged, WorkerMoves
<1>27. ASSUME NEW w \in Workers, BeginRun(w) PROVE Inv
  BY <1>27 DEF BeginRun, WorkerMoves
<1>28. ASSUME NEW w \in Workers, SetAside(w) PROVE Inv
  BY <1>28 DEF SetAside, WorkerMoves
<1>29. ASSUME NEW w \in Workers, RunAnswers(w) PROVE Inv
  BY <1>29 DEF RunAnswers
<1>30. ASSUME NEW w \in Workers, RunSucceeds(w) PROVE Inv
  BY <1>30 DEF RunSucceeds
<1>31. ASSUME NEW w \in Workers, RunFails(w) PROVE Inv
  BY <1>31 DEF RunFails
<1>32. ASSUME NEW w \in Workers, FailureIsSettled(w) PROVE Inv
  BY <1>32 DEF FailureIsSettled, WorkerMoves
<1>33. ASSUME NEW w \in Workers, FailureIsBorne(w) PROVE Inv
  BY <1>33 DEF FailureIsBorne, WorkerMoves
<1>34. ASSUME NEW w \in Workers, RunFailsProcess(w) PROVE Inv
  BY <1>34 DEF RunFailsProcess, ScheduleRestart, NoRestart, RestartIsDue
<1>35. ASSUME NEW w \in Workers, GovernancePauses(w) PROVE Inv
  BY <1>35 DEF GovernancePauses, Suspend
<1>36. ASSUME NEW w \in Workers, GovernanceStops(w) PROVE Inv
  <2>1. Stop(w, FALSE) /\ w \in Tasks \ Restarters
    BY <1>36 DEF GovernanceStops, PlacesOK, StopPC, StartPC, RestartPC, WorkerPC
  <2>2. restart_count' = restart_count
    BY <1>36 DEF GovernanceStops, Stop
  <2>3. \A q \in Restarters : pc'[q] \notin DelayPC
    BY <2>1, StopLeavesNone
  <2>. QED
    BY <2>2, <2>3
<1>37. ASSUME NEW c \in Callers, CallStart(c) PROVE Inv
  <2>1. Start(c, state) /\ c \in Tasks /\ pc[c] \notin DelayPC
    BY <1>37 DEF CallStart, PlacesOK, StopPC, StartPC, RestartPC, WorkerPC
  <2>2. restart_count' = restart_count
    BY <1>37 DEF CallStart
  <2>3. \A q \in Restarters : pc'[q] \notin DelayPC
    BY <2>1, StartLeavesNone
  <2>. QED
    BY <2>2, <2>3
<1>38. ASSUME NEW c \in Callers, CallStop(c) PROVE Inv
  <2>1. c \in Tasks \ Restarters /\ \E drain \in BOOLEAN : Stop(c, drain)
    BY <1>38 DEF CallStop, PlacesOK, StopPC, StartPC, RestartPC, WorkerPC
  <2>2. restart_count' = restart_count
    BY <1>38 DEF CallStop, Stop
  <2>3. \A q \in Restarters : pc'[q] \notin DelayPC
    BY <2>1, StopLeavesNone
  <2>. QED
    BY <2>2, <2>3
<1>39. ASSUME HeartbeatIdle PROVE Inv
  BY <1>39 DEF HeartbeatIdle, Suspend
<1>40. ASSUME HeartbeatRecycles PROVE Inv
  BY <1>40 DEF HeartbeatRecycles, Overwrites
<1>41. ASSUME HeartbeatStops PROVE Inv
  BY <1>41 DEF HeartbeatStops
<1>42. ASSUME BackgroundStop PROVE Inv
  <2>1. Stop(BgStop, FALSE) /\ BgStop \in Tasks \ Restarters
    BY <1>42 DEF BackgroundStop, PlacesOK, StopPC, StartPC, RestartPC, WorkerPC
  <2>2. restart_count' = restart_count
    BY <1>42 DEF BackgroundStop, Stop
  <2>3. \A q \in Restarters : pc'[q] \notin DelayPC
    BY <2>1, StopLeavesNone
  <2>. QED
    BY <2>2, <2>3
<1>43. ASSUME OperatorSuspends PROVE Inv
  BY <1>43 DEF OperatorSuspends, Suspend
<1>44. ASSUME OperatorResumes PROVE Inv
  BY <1>44 DEF OperatorResumes
<1>45. ASSUME EventArrives PROVE Inv
  BY <1>45 DEF EventArrives, Wakes, WakesProcess, QueueAfterPut
<1>46. ASSUME ListenerWaits PROVE Inv
  BY <1>46 DEF ListenerWaits, Wakes, WakesProcess
<1>47. ASSUME ListenerPuts PROVE Inv
  BY <1>47 DEF ListenerPuts
<1>48. ASSUME RetryArrives PROVE Inv
  BY <1>48 DEF RetryArrives
<1>49. ASSUME WakeRuns PROVE Inv
  BY <1>49 DEF WakeRuns, Wakes, WakesProcess
<1>50. CASE UNCHANGED vars
  BY <1>50 DEF vars
<1>. QED
  BY <1>1, <1>2, <1>3, <1>4, <1>5, <1>6, <1>7, <1>8, <1>9, <1>10, <1>11, <1>12, <1>13,
       <1>14, <1>15, <1>16, <1>17, <1>18, <1>19, <1>20, <1>21, <1>22, <1>23, <1>24, <1>25,
       <1>26, <1>27, <1>28, <1>29, <1>30, <1>31, <1>32, <1>33, <1>34, <1>35, <1>36, <1>37,
       <1>38, <1>39, <1>40, <1>41, <1>42, <1>43, <1>44, <1>45, <1>46, <1>47, <1>48, <1>49,
       <1>50 DEF Next, Continue, RestartContinue, Work

\* Every step keeps the restarts one at a time and counted, or overwrites one.
LEMMA RestartStep == TypeOK /\ RestartInv /\ [Next]_vars => RestartInv'
<1>1. TypeOK /\ overwritten /\ [Next]_vars => RestartInv'
  BY OverwrittenStays DEF RestartInv
<1>2. TypeOK /\ Counted /\ [Next]_vars => RestartInv'
  BY CountedStep DEF RestartInv
<1>. QED
  BY <1>1, <1>2 DEF RestartInv

\* Automatic restarts in a row never exceed max_restarts, unless a pending one
\* was overwritten (_schedule_restart, _restart, _heartbeat_loop, start, stop).
THEOREM RestartsAreBoundedAlways == Spec => []RestartsAreBounded
<1>1. Init => RestartInv
  BY ConfigAssumption DEF Init, RestartInv, Counted, OnePending, DelayPC, Tasks
<1>2. RestartInv => RestartsAreBounded
  BY DEF RestartInv, Counted, RestartsAreBounded
<1>. QED
  BY <1>1, <1>2, RestartStep, TypeCorrect, PTL DEF Spec

-----------------------------------------------------------------------------
(* Idle suspensions *)

\* The workers that hold an event.
Holders == {w \in Workers : pc[w] = "hold"}

\* Nothing waits exactly when the queue is empty and no worker holds an event.
NothingQueued == queued = 0 /\ Holders = {}

\* The count that the heartbeat reads is zero exactly then.
LEMMA NothingWaits == queued \in Nat => (QueuedEvents = 0 <=> NothingQueued)
<1>. SUFFICES ASSUME queued \in Nat PROVE QueuedEvents = 0 <=> NothingQueued
  OBVIOUS
<1>1. IsFiniteSet(Holders)
  BY TasksAssumption, FS_Subset DEF Holders
<1>2. Cardinality(Holders) \in Nat /\ (Cardinality(Holders) = 0 <=> Holders = {})
  BY <1>1, FS_CardinalityType, FS_EmptySet
<1>3. QueuedEvents = queued + Cardinality(Holders)
  BY DEF QueuedEvents, Holders
<1>. QED
  BY <1>2, <1>3 DEF NothingQueued

\* Asleep, without the count.
Sleeping == WakesProcess /\ ~NothingQueued /\ ~waking
LEMMA SleepingIsAsleep == TypeOK => (Asleep <=> Sleeping)
<1>. SUFFICES ASSUME TypeOK PROVE Asleep <=> Sleeping
  OBVIOUS
<1>1. queued \in Nat
  BY ConfigAssumption DEF TypeOK
<1>2. QueuedEvents \in Nat
  BY <1>1, TasksAssumption, FS_Subset, FS_CardinalityType DEF QueuedEvents
<1>3. QueuedEvents > 0 <=> ~NothingQueued
  BY <1>1, <1>2, NothingWaits
<1>. QED
  BY <1>3 DEF Asleep, Sleeping

\* No step but the put of a listener that waited for room puts an event to sleep.
LEMMA SleepsStep == TypeOK /\ [Next]_vars => (Sleeping' => Sleeping \/ ListenerPuts)
<1>. SUFFICES ASSUME TypeOK, [Next]_vars, Sleeping', ~ListenerPuts PROVE Sleeping
  OBVIOUS
<1>. pc \in [Tasks -> PCs] /\ PlacesOK /\ queued \in 0..QueueSize /\ QueueSize \in Nat
     /\ restart_task \in Restarters \cup {NoTask} /\ waking \in BOOLEAN
  BY ConfigAssumption DEF TypeOK
<1>. USE TasksAssumption DEF Sleeping, WakesProcess, NothingQueued, Holders, Tasks
<1>1. ASSUME NEW t \in Tasks, StopCancelled(t) PROVE Sleeping
  <2>1. PICK p \in {"stop_drain", "stop_session", "stop_lock"} : pc' = [pc EXCEPT ![t] = p]
    BY <1>1, StopGoesOnMoves DEF StopCancelled
  <2>2. UNCHANGED <<state, suspend_reason, queued, waking>>
    BY <1>1 DEF StopCancelled
  <2>. QED
    BY <2>1, <2>2
<1>2. ASSUME NEW t \in Tasks, StopDrained(t) PROVE Sleeping
  BY <1>2 DEF StopDrained, EndSessionThenLock
<1>3. ASSUME NEW t \in Tasks, SessionEnded(t) PROVE Sleeping
  BY <1>3 DEF SessionEnded
<1>4. ASSUME NEW t \in Tasks, StopFinishesRecycle(t) PROVE Sleeping
  BY <1>4 DEF StopFinishesRecycle
<1>5. ASSUME NEW t \in Tasks, StopNothingToDo(t) PROVE Sleeping
  BY <1>5 DEF StopNothingToDo, Returns
<1>6. ASSUME NEW t \in Tasks, StopNeverStarted(t) PROVE Sleeping
  BY <1>6 DEF StopNeverStarted
<1>7. ASSUME NEW t \in Tasks, StopBeginsShutdown(t) PROVE Sleeping
  BY <1>7 DEF StopBeginsShutdown, BeginShutdown, OtherWorkers, LC!Transition
<1>8. ASSUME NEW t \in Tasks, StopShutdown(t) PROVE Sleeping
  BY <1>8 DEF StopShutdown, ClearRun, LC!Transition
<1>9. ASSUME NEW t \in Tasks, StopReleased(t) PROVE Sleeping
  BY <1>9 DEF StopReleased, Returns
<1>10. ASSUME NEW t \in Tasks, StartCancelled(t) PROVE Sleeping
  <2>1. PICK p \in {"start_session", "start_lock"} : pc' = [pc EXCEPT ![t] = p]
    BY <1>10, StartGoesOnMoves DEF StartCancelled
  <2>2. UNCHANGED <<state, suspend_reason, queued, waking>>
    BY <1>10 DEF StartCancelled
  <2>. QED
    BY <2>1, <2>2
<1>11. ASSUME NEW t \in Tasks, StartRefused(t) PROVE Sleeping
  BY <1>11 DEF StartRefused, Restarting
<1>12. ASSUME NEW t \in Tasks, StartCleansUp(t) PROVE Sleeping
  BY <1>12 DEF StartCleansUp, BeginShutdown, OtherWorkers
<1>13. ASSUME NEW t \in Tasks, StartBegins(t) PROVE Sleeping
  BY <1>13 DEF StartBegins, LC!Transition
<1>14. ASSUME NEW t \in Tasks, StartSucceeds(t) PROVE Sleeping
  BY <1>14 DEF StartSucceeds, LC!Transition
<1>15. ASSUME NEW t \in Tasks, StartFails(t) PROVE Sleeping
  BY <1>15 DEF StartFails, Restarting, ScheduleRestart, NoRestart, RestartIsDue, LC!Transition
<1>16. ASSUME NEW t \in Tasks, StartReturns(t) PROVE Sleeping
  BY <1>16 DEF StartReturns, Restarting
<1>17. ASSUME NEW r \in Restarters, RestartCancelled(r) PROVE Sleeping
  BY <1>17 DEF RestartCancelled
<1>18. ASSUME NEW r \in Restarters, RestartGivesUp(r) PROVE Sleeping
  BY <1>18 DEF RestartGivesUp
<1>19. ASSUME NEW r \in Restarters, RestartBegins(r) PROVE Sleeping
  BY <1>19 DEF RestartBegins, EndSessionThenLock
<1>20. ASSUME NEW r \in Restarters, RestartRefused(r) PROVE Sleeping
  BY <1>20 DEF RestartRefused
<1>21. ASSUME NEW r \in Restarters, RestartBeginsShutdown(r) PROVE Sleeping
  BY <1>21 DEF RestartBeginsShutdown, BeginShutdown, OtherWorkers, LC!Transition
<1>22. ASSUME NEW r \in Restarters, RestartShutdown(r) PROVE Sleeping
  <2>1. state' = state \/ state' = "stopped"
    BY <1>22 DEF RestartShutdown, LC!Transition
  <2>2. state # "suspended"
    BY <1>22 DEF RestartShutdown, LC!Transition, LC!CanTransition, LC!ValidTransitions
  <2>. QED
    BY <2>1, <2>2
<1>23. ASSUME NEW w \in Workers, Take(w) PROVE Sleeping
  BY <1>23 DEF Take
<1>24. ASSUME NEW w \in Workers, DropHeld(w) PROVE Sleeping
  BY <1>24 DEF DropHeld, WorkerMoves
<1>25. ASSUME NEW w \in Workers, BeginScan(w) PROVE Sleeping
  BY <1>25 DEF BeginScan, WorkerMoves
<1>26. ASSUME NEW w \in Workers, Flagged(w) PROVE Sleeping
  BY <1>26 DEF Flagged, WorkerMoves
<1>27. ASSUME NEW w \in Workers, BeginRun(w) PROVE Sleeping
  BY <1>27 DEF BeginRun, WorkerMoves
<1>28. ASSUME NEW w \in Workers, SetAside(w) PROVE Sleeping
  BY <1>28 DEF SetAside, WorkerMoves
<1>29. ASSUME NEW w \in Workers, RunAnswers(w) PROVE Sleeping
  BY <1>29 DEF RunAnswers
<1>30. ASSUME NEW w \in Workers, RunSucceeds(w) PROVE Sleeping
  BY <1>30 DEF RunSucceeds
<1>31. ASSUME NEW w \in Workers, RunFails(w) PROVE Sleeping
  BY <1>31 DEF RunFails
<1>32. ASSUME NEW w \in Workers, FailureIsSettled(w) PROVE Sleeping
  BY <1>32 DEF FailureIsSettled, WorkerMoves
<1>33. ASSUME NEW w \in Workers, FailureIsBorne(w) PROVE Sleeping
  BY <1>33 DEF FailureIsBorne, WorkerMoves
<1>34. ASSUME NEW w \in Workers, RunFailsProcess(w) PROVE Sleeping
  BY <1>34 DEF RunFailsProcess, ScheduleRestart, NoRestart
<1>35. ASSUME NEW w \in Workers, GovernancePauses(w) PROVE Sleeping
  BY <1>35 DEF GovernancePauses, Suspend, LC!Transition
<1>36. ASSUME NEW w \in Workers, GovernanceStops(w) PROVE Sleeping
  <2>1. Stop(w, FALSE) /\ w \in Tasks
    BY <1>36 DEF GovernanceStops
  <2>2. \A v \in Workers : pc'[v] = "hold" => pc[v] = "hold"
    BY <2>1, StopMoves DEF OthersStay, CancelPC
  <2>3. UNCHANGED <<state, suspend_reason, queued, waking>>
    BY <2>1 DEF Stop
  <2>. QED
    BY <2>2, <2>3
<1>37. ASSUME NEW c \in Callers, CallStart(c) PROVE Sleeping
  <2>1. Start(c, state) /\ c \in Tasks
    BY <1>37 DEF CallStart
  <2>2. \A v \in Workers : pc'[v] = "hold" => pc[v] = "hold"
    BY <2>1, StartMoves DEF OthersStay, CancelPC
  <2>3. UNCHANGED <<state, suspend_reason, queued, waking>>
    BY <1>37 DEF CallStart
  <2>. QED
    BY <2>2, <2>3
<1>38. ASSUME NEW c \in Callers, CallStop(c) PROVE Sleeping
  <2>1. PICK drain \in BOOLEAN : Stop(c, drain)
    BY <1>38 DEF CallStop
  <2>2. \A v \in Workers : pc'[v] = "hold" => pc[v] = "hold"
    BY <2>1, StopMoves DEF OthersStay, CancelPC
  <2>3. UNCHANGED <<state, suspend_reason, queued, waking>>
    BY <2>1 DEF Stop
  <2>. QED
    BY <2>2, <2>3
<1>39. ASSUME HeartbeatIdle PROVE Sleeping
  <2>1. NothingQueued
    BY <1>39, NothingWaits DEF HeartbeatIdle, Idle
  <2>2. UNCHANGED <<pc, queued>>
    BY <1>39 DEF HeartbeatIdle
  <2>. QED
    BY <2>1, <2>2
<1>40. ASSUME HeartbeatRecycles PROVE Sleeping
  BY <1>40 DEF HeartbeatRecycles
<1>41. ASSUME HeartbeatStops PROVE Sleeping
  BY <1>41 DEF HeartbeatStops
<1>42. ASSUME BackgroundStop PROVE Sleeping
  <2>1. Stop(BgStop, FALSE) /\ BgStop \in Tasks
    BY <1>42 DEF BackgroundStop
  <2>2. \A v \in Workers : pc'[v] = "hold" => pc[v] = "hold"
    BY <2>1, StopMoves DEF OthersStay, CancelPC
  <2>3. UNCHANGED <<state, suspend_reason, queued, waking>>
    BY <2>1 DEF Stop
  <2>. QED
    BY <2>2, <2>3
<1>43. ASSUME OperatorSuspends PROVE Sleeping
  BY <1>43 DEF OperatorSuspends, Suspend
<1>44. ASSUME OperatorResumes PROVE Sleeping
  BY <1>44 DEF OperatorResumes, LC!Transition
<1>45. ASSUME EventArrives PROVE Sleeping
  BY <1>45 DEF EventArrives, Wakes, QueueAfterPut
<1>46. ASSUME ListenerWaits PROVE Sleeping
  BY <1>46 DEF ListenerWaits, Wakes
<1>47. ASSUME ListenerPuts PROVE Sleeping
  BY <1>47
<1>48. ASSUME RetryArrives PROVE Sleeping
  BY <1>48 DEF RetryArrives, SpawnsWake
<1>49. ASSUME WakeRuns PROVE Sleeping
  BY <1>49 DEF WakeRuns, Wakes
<1>50. CASE UNCHANGED vars
  BY <1>50 DEF vars
<1>. QED
  BY <1>1, <1>2, <1>3, <1>4, <1>5, <1>6, <1>7, <1>8, <1>9, <1>10, <1>11, <1>12, <1>13,
       <1>14, <1>15, <1>16, <1>17, <1>18, <1>19, <1>20, <1>21, <1>22, <1>23, <1>24, <1>25,
       <1>26, <1>27, <1>28, <1>29, <1>30, <1>31, <1>32, <1>33, <1>34, <1>35, <1>36, <1>37,
       <1>38, <1>39, <1>40, <1>41, <1>42, <1>43, <1>44, <1>45, <1>46, <1>47, <1>48, <1>49,
       <1>50 DEF Next, Continue, RestartContinue, Work

\* No step puts an event to sleep, whatever the number of workers (_heartbeat_loop,
\* suspend, _wake_if_idle, inject, redeliver, _requeue_retry).
THEOREM NoEventSleepsAlways == Spec => NoEventSleeps
<1>1. TypeOK /\ TypeOK' /\ [Next]_vars => [Asleep' => Asleep \/ ListenerPuts]_vars
  <2>. SUFFICES ASSUME TypeOK, TypeOK', [Next]_vars, Asleep' PROVE Asleep \/ ListenerPuts
    OBVIOUS
  <2>1. TypeOK' => (Asleep' <=> Sleeping')
    BY SleepingIsAsleep, PTL
  <2>. QED
    BY <2>1, SleepingIsAsleep, SleepsStep
<1>. QED
  BY <1>1, TypeCorrect, PTL DEF Spec, NoEventSleeps

-----------------------------------------------------------------------------
(* Failures are attended to *)

\* The pending restart is a task in its delay, or one that the start() or stop()
\* which waits for it has cancelled; the streak of failures is over when a start()
\* builds the agent.
PendingInv == restart_task # NoTask => pc[restart_task] \in DelayPC \cup {"cancelled"}
AwaitedInv ==
    restart_task # NoTask /\ pc[restart_task] = "cancelled" =>
        \E t \in Tasks : pc[t] \in CancelPC \cup {"start_cancel"}
BuildClean == \A t \in Tasks : pc[t] = "start_build" => failures = 0
RestartTaskInv == PendingInv /\ AwaitedInv

\* A task that moves on its own, no restarter among those cancelled.
LEMMA PendingMove ==
    ASSUME TypeOK, RestartTaskInv, NEW t \in Tasks, NEW p, pc' = [pc EXCEPT ![t] = p],
           UNCHANGED restart_task, pc[t] \notin DelayPC \cup {"cancelled"},
           pc[t] \in CancelPC \cup {"start_cancel"} => PendingDone
    PROVE  RestartTaskInv'
<1>. pc \in [Tasks -> PCs] /\ restart_task \in Restarters \cup {NoTask}
  BY DEF TypeOK
<1>. USE DEF RestartTaskInv, PendingInv, AwaitedInv, Tasks
<1>1. PendingInv'
  OBVIOUS
<1>2. ASSUME (restart_task # NoTask /\ pc[restart_task] = "cancelled")'
      PROVE  \E u \in Tasks : pc'[u] \in CancelPC \cup {"start_cancel"}
  <2>1. restart_task # NoTask /\ restart_task \in Restarters /\ restart_task # t
        /\ pc[restart_task] = "cancelled"
    BY <1>2
  <2>2. PICK u \in Tasks : pc[u] \in CancelPC \cup {"start_cancel"}
    BY <2>1
  <2>3. u # t
    BY <2>1, <2>2 DEF PendingDone
  <2>. QED
    BY <2>2, <2>3
<1>. QED
  BY <1>1, <1>2

\* A teardown cancels workers, none of them still awaited by a restart it cancelled.
LEMMA PendingShutdown ==
    ASSUME TypeOK, RestartTaskInv, NEW t \in Tasks, NEW next, BeginShutdown(t, next),
           UNCHANGED restart_task,
           pc[t] \notin DelayPC \cup {"cancelled", "start_cancel"} \cup CancelPC
    PROVE  RestartTaskInv'
<1>. pc \in [Tasks -> PCs] /\ restart_task \in Restarters \cup {NoTask}
  BY DEF TypeOK
<1>. USE TasksAssumption DEF RestartTaskInv, PendingInv, AwaitedInv, BeginShutdown,
       OtherWorkers, Tasks
<1>1. \A u \in Tasks \ {t} : pc'[u] = IF u \in Workers THEN "none" ELSE pc[u]
  OBVIOUS
<1>2. PendingInv'
  BY <1>1
<1>3. ASSUME (restart_task # NoTask /\ pc[restart_task] = "cancelled")'
      PROVE  \E u \in Tasks : pc'[u] \in CancelPC \cup {"start_cancel"}
  <2>1. restart_task # NoTask /\ restart_task \in Restarters /\ restart_task # t
        /\ pc[restart_task] = "cancelled"
    BY <1>1, <1>2, <1>3
  <2>2. PICK u \in Tasks : pc[u] \in CancelPC \cup {"start_cancel"}
    BY <2>1
  <2>3. \A w \in Workers \ {t} : pc[w] \notin CancelPC
    BY <2>1 DEF PendingDone
  <2>4. u # t /\ u \notin Workers
    BY <2>2, <2>3 DEF TypeOK, PlacesOK, StartPC
  <2>. QED
    BY <1>1, <2>2, <2>4
<1>. QED
  BY <1>2, <1>3

\* A stop() or a start() awaits the restart it cancels.
LEMMA PendingCancels ==
    ASSUME TypeOK, NEW t \in Tasks, NEW p \in CancelPC \cup {"start_cancel"},
           RestartPending(t), CancelsPending(t, p), UNCHANGED restart_task
    PROVE  RestartTaskInv'
BY DEF RestartPending, CancelsPending, RestartTaskInv, PendingInv, AwaitedInv, TypeOK, Tasks

\* Whatever ends or moves the pending restart also clears _restart_task, and
\* whoever cancelled it awaits it.
LEMMA PendingStep == TypeOK /\ WorkersGone /\ RestartTaskInv /\ [Next]_vars => RestartTaskInv'
<1>. SUFFICES ASSUME TypeOK, WorkersGone, RestartTaskInv, [Next]_vars PROVE RestartTaskInv'
  OBVIOUS
<1>. pc \in [Tasks -> PCs] /\ PlacesOK /\ restart_task \in Restarters \cup {NoTask}
     /\ NoTask \notin Restarters
  BY TasksAssumption DEF TypeOK, Tasks
<1>. USE TasksAssumption DEF Tasks
<1>0. ASSUME restart_task' = NoTask PROVE RestartTaskInv'
  BY <1>0 DEF RestartTaskInv, PendingInv, AwaitedInv
<1>1. ASSUME NEW t \in Tasks, pc[t] \notin DelayPC \cup {"cancelled", "start_cancel"} \cup CancelPC,
             NEW p, ScheduleRestart([pc EXCEPT ![t] = p]) \/ NoRestart([pc EXCEPT ![t] = p])
      PROVE  RestartTaskInv'
  <2>1. CASE ScheduleRestart([pc EXCEPT ![t] = p])
    BY <2>1 DEF ScheduleRestart, RestartTaskInv, PendingInv, AwaitedInv, DelayPC
  <2>2. CASE NoRestart([pc EXCEPT ![t] = p])
    BY <1>1, <2>2, PendingMove DEF NoRestart
  <2>. QED
    BY <1>1, <2>1, <2>2
<1>2. ASSUME NEW t \in Tasks \ Restarters, NEW drain \in BOOLEAN, Stop(t, drain)
      PROVE  RestartTaskInv'
  <2>1. CASE RestartPending(t)
    <3>1. PICK p \in CancelPC : CancelsPending(t, p)
      BY <1>2, <2>1 DEF Stop, CancelPC
    <3>2. UNCHANGED restart_task
      BY <1>2, <2>1 DEF Stop
    <3>. QED
      BY <2>1, <3>1, <3>2, PendingCancels
  <2>2. CASE ~RestartPending(t)
    BY <1>0, <1>2, <2>2 DEF Stop, StopGoesOn
  <2>. QED
    BY <2>1, <2>2
<1>3. ASSUME NEW t \in Tasks, pc[t] \in {"none", "re_shut"}, NEW s, Start(t, s)
      PROVE  RestartTaskInv'
  <2>1. CASE RestartPending(t)
    BY <1>3, <2>1, PendingCancels DEF Start
  <2>2. CASE ~RestartPending(t)
    <3>1. UNCHANGED restart_task /\ StartGoesOn(t, s)
      BY <1>3, <2>2 DEF Start
    <3>2. PICK p \in {"start_session", "start_lock"} : pc' = [pc EXCEPT ![t] = p]
      BY <3>1, StartGoesOnMoves
    <3>. QED
      BY <1>3, <3>1, <3>2, PendingMove DEF DelayPC, CancelPC
  <2>. QED
    BY <2>1, <2>2
<1>4. ASSUME NEW t \in Tasks, Continue(t) PROVE RestartTaskInv'
  <2>1. CASE StartFails(t)
    BY <1>1, <2>1 DEF StartFails, DelayPC, CancelPC
  <2>2. CASE StopBeginsShutdown(t) \/ StartCleansUp(t)
    BY <2>2, PendingShutdown DEF StopBeginsShutdown, StartCleansUp, DelayPC, CancelPC
  <2>3. CASE StartSucceeds(t)
    <3>1. /\ UNCHANGED restart_task /\ pc[t] = "start_build"
          /\ \A u \in Tasks \ Workers : u = t \/ pc'[u] = pc[u]
          /\ \A u \in Tasks : pc'[u] = "cancelled" => pc[u] = "cancelled"
      BY <2>3 DEF StartSucceeds
    <3>2. \A w \in Workers : pc[w] \notin CancelPC
      BY <3>1 DEF WorkersGone, Teardown, CancelPC
    <3>. QED
      BY <3>1, <3>2 DEF RestartTaskInv, PendingInv, AwaitedInv, PlacesOK, StartPC, DelayPC, CancelPC
  <2>4. CASE StopCancelled(t) \/ StartCancelled(t)
    BY <1>0, <2>4 DEF StopCancelled, StopGoesOn, StartCancelled
  <2>5. CASE ~(StartFails(t) \/ StopBeginsShutdown(t) \/ StartCleansUp(t) \/ StartSucceeds(t)
               \/ StopCancelled(t) \/ StartCancelled(t))
    <3>1. /\ pc[t] \notin DelayPC \cup {"cancelled", "start_cancel"} \cup CancelPC
          /\ UNCHANGED restart_task
          /\ \E p : pc' = [pc EXCEPT ![t] = p]
      BY <1>4, <2>5 DEF Continue, StopDrained, EndSessionThenLock, SessionEnded,
             StopFinishesRecycle, StopNothingToDo, Returns, StopNeverStarted, StopShutdown,
             StopReleased, StartRefused, StartBegins, StartReturns, DelayPC, CancelPC
    <3>. QED
      BY <3>1, PendingMove
  <2>. QED
    BY <2>1, <2>2, <2>3, <2>4, <2>5
<1>5. ASSUME NEW r \in Restarters, RestartContinue(r) PROVE RestartTaskInv'
  <2>1. CASE RestartShutdown(r)
    <3>1. CASE stop_requested
      <4>1. UNCHANGED restart_task /\ pc[r] = "re_shut" /\ pc' = [pc EXCEPT ![r] = "none"]
        BY <2>1, <3>1 DEF RestartShutdown
      <4>. QED
        BY <4>1, PendingMove DEF DelayPC, CancelPC
    <3>2. CASE ~stop_requested
      <4>1. PICK s : Start(r, s)
        BY <2>1, <3>2 DEF RestartShutdown
      <4>2. pc[r] = "re_shut"
        BY <2>1 DEF RestartShutdown
      <4>. QED
        BY <1>3, <4>1, <4>2
    <3>. QED
      BY <3>1, <3>2
  <2>2. CASE RestartBeginsShutdown(r)
    BY <2>2, PendingShutdown DEF RestartBeginsShutdown, DelayPC, CancelPC
  <2>3. CASE RestartCancelled(r) \/ RestartGivesUp(r)
    <3>1. /\ pc' = [pc EXCEPT ![r] = "none"]
          /\ restart_task' = IF restart_task = r THEN NoTask ELSE restart_task
          /\ pc[r] \in DelayPC \cup {"cancelled"}
      BY <2>3 DEF RestartCancelled, RestartGivesUp
    <3>. QED
      BY <3>1 DEF RestartTaskInv, PendingInv, AwaitedInv, DelayPC, CancelPC
  <2>4. CASE RestartBegins(r)
    BY <1>0, <2>4 DEF RestartBegins
  <2>5. CASE RestartRefused(r)
    BY <2>5, PendingMove DEF RestartRefused, DelayPC, CancelPC
  <2>. QED
    BY <1>5, <2>1, <2>2, <2>3, <2>4, <2>5 DEF RestartContinue
<1>6. ASSUME NEW w \in Workers, Work(w) PROVE RestartTaskInv'
  <2>1. CASE RunFailsProcess(w)
    BY <1>1, <2>1 DEF RunFailsProcess, DelayPC, CancelPC
  <2>2. CASE GovernanceStops(w)
    BY <1>2, <2>2 DEF GovernanceStops
  <2>3. CASE GovernancePauses(w)
    BY <2>3 DEF GovernancePauses, RestartTaskInv, PendingInv, AwaitedInv
  <2>4. CASE ~(RunFailsProcess(w) \/ GovernanceStops(w) \/ GovernancePauses(w))
    <3>1. /\ UNCHANGED restart_task /\ \E p : pc' = [pc EXCEPT ![w] = p]
          /\ pc[w] \in WorkerPC
      BY <1>6, <2>4 DEF Work, Take, DropHeld, WorkerMoves, BeginScan, Flagged, BeginRun,
             SetAside, RunAnswers, RunSucceeds, RunFails, FailureIsSettled, FailureIsBorne,
             WorkerPC
    <3>. QED
      BY <3>1, PendingMove DEF WorkerPC, DelayPC, CancelPC
  <2>. QED
    BY <2>1, <2>2, <2>3, <2>4
<1>7. ASSUME NEW c \in Callers, CallStart(c) PROVE RestartTaskInv'
  BY <1>3, <1>7 DEF CallStart
<1>8. ASSUME NEW c \in Callers, CallStop(c) PROVE RestartTaskInv'
  BY <1>2, <1>8 DEF CallStop
<1>9. CASE HeartbeatRecycles
  BY <1>9 DEF HeartbeatRecycles, RestartTaskInv, PendingInv, AwaitedInv, DelayPC
<1>10. CASE HeartbeatStops
  <2>1. UNCHANGED restart_task /\ pc' = [pc EXCEPT ![BgStop] = "bg"] /\ pc[BgStop] = "none"
    BY <1>10 DEF HeartbeatStops
  <2>. QED
    BY <2>1, PendingMove DEF DelayPC, CancelPC
<1>11. CASE BackgroundStop
  BY <1>2, <1>11 DEF BackgroundStop
<1>12. CASE \/ HeartbeatIdle \/ OperatorSuspends \/ OperatorResumes \/ EventArrives
            \/ ListenerWaits \/ ListenerPuts \/ RetryArrives \/ WakeRuns
  <2>1. UNCHANGED <<pc, restart_task>>
    BY <1>12 DEF HeartbeatIdle, OperatorSuspends, OperatorResumes, EventArrives, ListenerWaits,
           ListenerPuts, RetryArrives, WakeRuns
  <2>. QED
    BY <2>1 DEF RestartTaskInv, PendingInv, AwaitedInv
<1>13. CASE UNCHANGED vars
  BY <1>13 DEF vars, RestartTaskInv, PendingInv, AwaitedInv
<1>. QED
  BY <1>4, <1>5, <1>6, <1>7, <1>8, <1>9, <1>10, <1>11, <1>12, <1>13 DEF Next

\* No run is left to fail while a start() builds the agent.
LEMMA BuildStep == TypeOK /\ WorkersGone /\ BuildClean /\ [Next]_vars => BuildClean'
<1>. SUFFICES ASSUME TypeOK, WorkersGone, BuildClean, [Next]_vars,
                     NEW u \in Tasks, pc'[u] = "start_build"
              PROVE  failures' = 0
  BY DEF BuildClean
<1>. pc \in [Tasks -> PCs] /\ PlacesOK
  BY DEF TypeOK
<1>. USE TasksAssumption DEF PlacesOK, CancelPC, StopPC, StartPC, DelayPC, RestartPC, WorkerPC, Tasks
<1>1. ASSUME NEW t \in Tasks, StartBegins(t) PROVE failures' = 0
  BY <1>1 DEF StartBegins
<1>2. SUFFICES ASSUME \A t \in Tasks : ~StartBegins(t) PROVE failures' = 0
  BY <1>1
<1>3. ASSUME NEW t \in Tasks, Continue(t) PROVE pc[u] = "start_build" /\ UNCHANGED failures
  <2>1. CASE StopCancelled(t)
    <3>1. PICK p \in {"stop_drain", "stop_session", "stop_lock"} : pc' = [pc EXCEPT ![t] = p]
      BY <2>1, StopGoesOnMoves DEF StopCancelled
    <3>. QED
      BY <2>1, <3>1 DEF StopCancelled
  <2>2. CASE StartCancelled(t)
    <3>1. PICK p \in {"start_session", "start_lock"} : pc' = [pc EXCEPT ![t] = p]
      BY <2>2, StartGoesOnMoves DEF StartCancelled
    <3>. QED
      BY <2>2, <3>1 DEF StartCancelled
  <2>3. CASE ~StopCancelled(t) /\ ~StartCancelled(t)
    BY <1>2, <1>3, <2>3 DEF Continue, StopDrained, EndSessionThenLock,
             SessionEnded, StopFinishesRecycle, StopNothingToDo, Returns, StopNeverStarted,
             StopBeginsShutdown, BeginShutdown, OtherWorkers, StopShutdown, StopReleased,
             StartRefused, StartCleansUp, StartSucceeds, StartFails, ScheduleRestart, NoRestart,
             StartReturns
  <2>. QED
    BY <2>1, <2>2, <2>3
<1>4. ASSUME NEW r \in Restarters, RestartContinue(r)
      PROVE pc[u] = "start_build" /\ UNCHANGED failures
  <2>1. CASE RestartShutdown(r)
    <3>1. CASE stop_requested
      BY <2>1, <3>1 DEF RestartShutdown
    <3>2. CASE ~stop_requested
      <4>1. PICK s : Start(r, s)
        BY <2>1, <3>2 DEF RestartShutdown
      <4>2. OthersStay(r) /\ pc'[r] \in {"start_cancel", "start_session", "start_lock"}
        BY <4>1, StartMoves
      <4>. QED
        BY <2>1, <4>2 DEF RestartShutdown, OthersStay
    <3>. QED
      BY <3>1, <3>2
  <2>2. CASE ~RestartShutdown(r)
    BY <1>4, <2>2 DEF RestartContinue, RestartCancelled, RestartGivesUp, RestartBegins,
           EndSessionThenLock, RestartRefused, RestartBeginsShutdown, BeginShutdown,
           OtherWorkers
  <2>. QED
    BY <2>1, <2>2
<1>5. ASSUME NEW t \in Tasks, NEW drain \in BOOLEAN, Stop(t, drain)
      PROVE  pc[u] = "start_build" /\ UNCHANGED failures
  <2>1. /\ pc'[t] \in CancelPC \cup {"stop_drain", "stop_session", "stop_lock"}
        /\ OthersStay(t)
    BY <1>5, StopMoves
  <2>. QED
    BY <1>5, <2>1 DEF Stop, OthersStay
<1>6. ASSUME NEW w \in Workers, Work(w) PROVE failures' = 0
  <2>1. pc[u] = "start_build"
    <3>1. CASE GovernanceStops(w)
      BY <1>5, <3>1 DEF GovernanceStops
    <3>2. CASE ~GovernanceStops(w)
      BY <1>6, <3>2 DEF Work, Take, DropHeld, WorkerMoves, BeginScan, Flagged, BeginRun,
             SetAside, RunAnswers, RunSucceeds, RunFails, FailureIsSettled, FailureIsBorne,
             RunFailsProcess, ScheduleRestart, NoRestart, GovernancePauses
    <3>. QED
      BY <3>1, <3>2
  <2>2. pc[w] = "none" \/ w = u
    BY <2>1 DEF WorkersGone, Teardown
  <2>. QED
    BY <1>6, <2>1, <2>2 DEF Work, Take, DropHeld, WorkerMoves, BeginScan, Flagged, BeginRun,
             SetAside, RunAnswers, RunSucceeds, RunFails, FailureIsSettled, FailureIsBorne,
             RunFailsProcess, GovernancePauses, GovernanceStops, Governed
<1>7. ASSUME NEW c \in Callers, CallStart(c) PROVE pc[u] = "start_build" /\ UNCHANGED failures
  <2>1. OthersStay(c) /\ pc'[c] \in {"start_cancel", "start_session", "start_lock"}
    BY <1>7, StartMoves DEF CallStart
  <2>. QED
    BY <1>7, <2>1 DEF CallStart, OthersStay
<1>8. ASSUME NEW c \in Callers, CallStop(c) PROVE pc[u] = "start_build" /\ UNCHANGED failures
  BY <1>5, <1>8 DEF CallStop
<1>9. CASE BackgroundStop
  BY <1>5, <1>9 DEF BackgroundStop, BuildClean
<1>10. CASE HeartbeatRecycles \/ HeartbeatStops
  BY <1>10 DEF HeartbeatRecycles, HeartbeatStops, BuildClean
<1>11. CASE \/ HeartbeatIdle \/ OperatorSuspends \/ OperatorResumes \/ EventArrives
            \/ ListenerWaits \/ ListenerPuts \/ RetryArrives \/ WakeRuns
  BY <1>11 DEF HeartbeatIdle, OperatorSuspends, OperatorResumes, EventArrives, ListenerWaits,
         ListenerPuts, RetryArrives, WakeRuns, BuildClean
<1>12. CASE UNCHANGED vars
  BY <1>12 DEF vars, BuildClean
<1>. QED
  BY <1>3, <1>4, <1>6, <1>7, <1>8, <1>9, <1>10, <1>11, <1>12 DEF Next, BuildClean

\* A step that leaves the process failed with nobody attending, although
\* attempts remain, found it so.
LEMMA FailureStep ==
    ASSUME TypeOK, RestartTaskInv, BuildClean, [Next]_vars,
           state' = "failed", failures' >= MaxFailures, ~Attended',
           RestartPolicy # "never", ~(restart_count >= MaxRestarts)
    PROVE  state = "failed" /\ ~Attended
<1>. stop_requested' = FALSE /\ \A t \in Tasks : pc'[t] \notin Attending
  BY DEF Attended, TypeOK
<1>. pc \in [Tasks -> PCs] /\ PlacesOK /\ restart_task \in Restarters \cup {NoTask}
     /\ restart_count < MaxRestarts /\ failures \in Nat
  BY ConfigAssumption DEF TypeOK
<1>. DEFINE Quiet == /\ state' = state /\ stop_requested' = stop_requested
                     /\ \A t \in Tasks : pc[t] \in Attending => pc'[t] \in Attending
<1>0. Quiet => state = "failed" /\ ~Attended
  BY DEF Attended
<1>. USE TasksAssumption DEF PlacesOK, CancelPC, StopPC, StartPC, DelayPC, RestartPC, WorkerPC,
       Tasks, Attending
<1>1. ASSUME NEW t \in Tasks, NEW drain \in BOOLEAN PROVE ~StopGoesOn(t, drain) /\ ~Stop(t, drain)
  <2>1. ~StopGoesOn(t, drain)
    BY StopGoesOnMoves
  <2>2. ~Stop(t, drain)
    BY DEF Stop
  <2>. QED
    BY <2>1, <2>2
<1>2. ASSUME NEW t \in Tasks, NEW s PROVE ~StartGoesOn(t, s) /\ ~Start(t, s)
  <2>1. ~StartGoesOn(t, s)
    BY StartGoesOnMoves
  <2>2. ~Start(t, s)
    BY StartMoves
  <2>. QED
    BY <2>1, <2>2
<1>3. ASSUME NEW t \in Tasks, Continue(t) PROVE Quiet
  <2>1. ~StopBeginsShutdown(t) /\ ~StopShutdown(t) /\ ~StopNeverStarted(t)
    BY DEF StopBeginsShutdown, StopShutdown, StopNeverStarted, LC!Transition
  <2>2. ~StartRefused(t) /\ ~StartCleansUp(t) /\ ~StartBegins(t) /\ ~StartSucceeds(t)
    BY DEF StartRefused, StartCleansUp, BeginShutdown, StartBegins, StartSucceeds, LC!Transition
  <2>3. ~StartFails(t)
    BY ConfigAssumption DEF StartFails, BuildClean
  <2>4. ~SessionEnded(t) /\ ~StopFinishesRecycle(t) /\ ~StopNothingToDo(t)
    BY DEF SessionEnded, StopFinishesRecycle, StopNothingToDo
  <2>5. ~StopDrained(t)
    BY DEF StopDrained, EndSessionThenLock
  <2>6. ~StopCancelled(t) /\ ~StartCancelled(t)
    BY <1>1, <1>2 DEF StopCancelled, StartCancelled
  <2>7. CASE StopReleased(t)
    BY <2>7 DEF StopReleased, Returns
  <2>8. CASE StartReturns(t)
    BY <2>8 DEF StartReturns
  <2>. QED
    BY <1>3, <2>1, <2>2, <2>3, <2>4, <2>5, <2>6, <2>7, <2>8 DEF Continue
<1>4. ASSUME NEW r \in Restarters, RestartContinue(r) PROVE Quiet
  <2>1. CASE RestartCancelled(r)
    BY <2>1 DEF RestartCancelled
  <2>2. ~RestartGivesUp(r)
    BY DEF RestartGivesUp
  <2>3. ~RestartBegins(r)
    BY DEF RestartBegins, EndSessionThenLock
  <2>4. ~RestartRefused(r)
    BY DEF RestartRefused
  <2>5. ~RestartBeginsShutdown(r)
    BY DEF RestartBeginsShutdown, BeginShutdown
  <2>6. ~RestartShutdown(r)
    BY <1>2 DEF RestartShutdown
  <2>. QED
    BY <1>4, <2>1, <2>2, <2>3, <2>4, <2>5, <2>6 DEF RestartContinue
<1>5. ASSUME NEW w \in Workers, Work(w) PROVE Quiet
  <2>1. CASE RunFailsProcess(w)
    <3>1. CASE LC!CanTransition(state, "failed") /\ RestartIsDue
      BY <2>1, <3>1 DEF RunFailsProcess, ScheduleRestart
    <3>2. CASE LC!CanTransition(state, "failed") /\ ~RestartIsDue
      <4>1. pc' = [pc EXCEPT ![w] = "none"] /\ ~stop_requested /\ pc[w] = "judge"
        BY <2>1, <3>2 DEF RunFailsProcess, NoRestart
      <4>2. restart_task # NoTask
        BY <3>2, <4>1 DEF RestartIsDue
      <4>3. restart_task \in Restarters /\ pc[restart_task] \in DelayPC \cup {"cancelled"}
        BY <4>2 DEF RestartTaskInv, PendingInv
      <4>4. pc[restart_task] \notin DelayPC
        BY <4>1, <4>3
      <4>5. PICK t \in Tasks : pc[t] \in CancelPC \cup {"start_cancel"}
        BY <4>2, <4>3, <4>4 DEF RestartTaskInv, AwaitedInv
      <4>6. pc'[t] = pc[t]
        BY <4>1, <4>5
      <4>. QED
        BY <4>5, <4>6
    <3>3. CASE ~LC!CanTransition(state, "failed")
      BY <2>1, <3>3 DEF RunFailsProcess, NoRestart
    <3>. QED
      BY <3>1, <3>2, <3>3
  <2>2. ~GovernanceStops(w)
    BY <1>1 DEF GovernanceStops
  <2>3. ~GovernancePauses(w)
    BY DEF GovernancePauses, Suspend, LC!Transition
  <2>4. CASE ~RunFailsProcess(w)
    BY <1>5, <2>2, <2>3, <2>4 DEF Work, Take, DropHeld, WorkerMoves, BeginScan, Flagged,
           BeginRun, SetAside, RunAnswers, RunSucceeds, RunFails, FailureIsSettled, FailureIsBorne
  <2>. QED
    BY <2>1, <2>4
<1>6. ASSUME NEW c \in Callers PROVE ~CallStart(c) /\ ~CallStop(c)
  BY <1>1, <1>2 DEF CallStart, CallStop
<1>7. ~HeartbeatIdle /\ ~OperatorSuspends /\ ~OperatorResumes
  BY DEF HeartbeatIdle, OperatorSuspends, Suspend, OperatorResumes, LC!Transition
<1>8. ~HeartbeatRecycles /\ ~BackgroundStop
  BY <1>1 DEF HeartbeatRecycles, BackgroundStop
<1>9. HeartbeatStops => Quiet
  BY DEF HeartbeatStops
<1>10. EventArrives \/ ListenerWaits \/ WakeRuns => Quiet
  BY DEF EventArrives, ListenerWaits, WakeRuns, Wakes
<1>11. ListenerPuts \/ RetryArrives => Quiet
  BY DEF ListenerPuts, RetryArrives
<1>12. UNCHANGED vars => Quiet
  BY DEF vars
<1>. QED
  BY <1>0, <1>3, <1>4, <1>5, <1>6, <1>7, <1>8, <1>9, <1>10, <1>11, <1>12 DEF Next

\* A process that its own runs failed is not left alone while attempts remain:
\* _schedule_restart finds a restart to make or one that is pending, and only
\* a stop() ends a restart or a start() before it has built the agent again.
THEOREM FailureIsAttendedAlways == Spec => FailureIsAttended
<1>1. Init => RestartTaskInv /\ BuildClean
  BY DEF Init, RestartTaskInv, PendingInv, AwaitedInv, BuildClean
<1>2. TypeOK /\ (LockInv /\ DownInv) /\ (RestartTaskInv /\ BuildClean) /\ [Next]_vars
      => (RestartTaskInv /\ BuildClean)'
  BY PendingStep, BuildStep DEF DownInv
<1>3. Spec => [](TypeOK /\ RestartTaskInv /\ BuildClean)
  BY <1>1, <1>2, DownInvariant, PTL DEF Spec
<1>4. TypeOK /\ RestartTaskInv /\ BuildClean /\ [Next]_vars
      => [state' = "failed" /\ failures' >= MaxFailures /\ ~Attended' =>
              \/ RestartPolicy = "never" \/ restart_count >= MaxRestarts
              \/ state = "failed" /\ ~Attended]_vars
  BY FailureStep
<1>. QED
  BY <1>3, <1>4, PTL DEF Spec, FailureIsAttended

=============================================================================
