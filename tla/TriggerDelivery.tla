--------------------------- MODULE TriggerDelivery ---------------------------
(***************************************************************************)
(* The data plane of one agent process (promptise/runtime/process.py):     *)
(* where a trigger event is from the moment its trigger buffers it to the  *)
(* end of its run, through retries, dead letters, redelivery, suspension,  *)
(* failures, restarts and stops.                                           *)
(*                                                                         *)
(* The process has one trigger, an event trigger with a bounded buffer     *)
(* (triggers/event.py), and its listener.  The control plane, AgentProcess,*)
(* shows that one teardown or build runs at a time; here they are stages   *)
(* that follow one another, and who asks for them is left open.            *)
(***************************************************************************)
EXTENDS Integers, Sequences, FiniteSets, SequencesExt

CONSTANTS
    Events,         \* numbered in the order they come into being
    Workers,        \* config.concurrency worker tasks
    NoEvent, NoWorker,
    BufferSize,     \* capacity of the trigger's buffer
    QueueSize,      \* capacity of the process's trigger queue
    DeadLetterSize, \* trigger_delivery.dead_letter_size
    MaxRetries,     \* trigger_delivery.max_retries
    Redeliverable   \* the dead letters an operator redelivers or clears

ASSUME EventsAssumption == Events \subseteq Nat /\ NoEvent \notin Events /\ NoWorker \notin Workers
ASSUME WorkersAssumption == IsFiniteSet(Workers)
ASSUME SizesAssumption ==
    /\ BufferSize \in Nat /\ QueueSize \in Nat /\ MaxRetries \in Nat
    /\ DeadLetterSize \in Nat \ {0}
    /\ Redeliverable \subseteq Events

VARIABLES
    state,      \* the lifecycle state ("stopped" stands for "created" too)
    stage,      \* where a build or a teardown is
    final,      \* the final= argument of the _shutdown in progress, else FALSE
    owner,      \* the worker whose own run asked for the stop in progress
    recycled,   \* _recycled
    draining,   \* _draining
    live,       \* the trigger is started
    buffer,     \* what the trigger has not handed over
    listener,   \* where the listener is, and the event it holds
    leftovers,  \* events taken from a cancelled listener or a stopped trigger
    queue,      \* _trigger_queue
    at,         \* where each worker is
    event,      \* the event each worker has
    retries,    \* _retry_handles, in order
    dead,       \* the events of _dead_letters, oldest first
    attempts,   \* _delivery_attempts, 0 for an event without an entry
    injecting,  \* events in inject(), at their admission hooks
    \* History:
    born,       \* events that have come into being
    done,       \* events whose run ended with an answer
    cut,        \* events whose run was cut off before it had an outcome
    dropped,    \* events a filter or a hook refused
    forgotten,  \* dead letters rotated out or cleared
    requeued    \* events that did not come straight from the trigger

vars == <<state, stage, final, owner, recycled, draining, live, buffer, listener, leftovers,
          queue, at, event, retries, dead, attempts, injecting, born, done, cut,
          dropped, forgotten, requeued>>

States == {"stopped", "starting", "running", "suspended", "failed", "stopping"}
Stages == {"down", "build", "up", "workers", "listeners", "refill", "release", "owner"}
Idle == [at |-> "waiting", event |-> NoEvent]
Gone == [at |-> "none", event |-> NoEvent]

\* _running_workers: the run itself, the PERMISSION_DENIED hooks of a run the
\* guardrails refused, the health actions of one without retries left, and a
\* stop asked for there.
RunPlaces == {"run", "denied", "spent", "spent_stop"}

\* _worker_events: a worker whose event has its outcome holds it no more.
\* Mutant: it still does while the TASK_COMPLETED hooks run.
Holding_UntilHooksEnd == {w \in Workers : at[w] \in RunPlaces \cup {"hold", "hooks"}}
Holding == {w \in Workers : at[w] \in RunPlaces \cup {"hold"}}
EventsOf(W) == {event[w] : w \in W} \ {NoEvent}

Fits == Len(queue) < QueueSize

-----------------------------------------------------------------------------
(* Pieces the operations share *)

\* _dead_letter, for the events of a sequence one after the other: a bounded
\* deque forgets its oldest entries; the attempts of an event start over.
\* Mutant: they do not.
DeadLetter_KeepsAttempts(es) ==
    LET all  == dead \o es
        over == IF Len(all) > DeadLetterSize THEN Len(all) - DeadLetterSize ELSE 0
    IN /\ dead' = SubSeq(all, over + 1, Len(all))
       /\ forgotten' = forgotten \cup ToSet(SubSeq(all, 1, over))
       /\ UNCHANGED attempts
DeadLetter(es) ==
    LET all  == dead \o es
        over == IF Len(all) > DeadLetterSize THEN Len(all) - DeadLetterSize ELSE 0
    IN /\ dead' = SubSeq(all, over + 1, Len(all))
       /\ forgotten' = forgotten \cup ToSet(SubSeq(all, 1, over))
       /\ attempts' = [e \in Events |-> IF e \in ToSet(es) THEN 0 ELSE attempts[e]]

NoDeadLetter == UNCHANGED <<dead, forgotten, attempts>>

\* put_nowait: an event that does not fit is dead-lettered.
\* Mutant: the queue takes it anyway.
PutOrDeadLetter_Unbounded(e) == queue' = Append(queue, e) /\ NoDeadLetter
PutOrDeadLetter(e) ==
    IF Fits THEN queue' = Append(queue, e) /\ NoDeadLetter
            ELSE DeadLetter(<<e>>) /\ UNCHANGED queue

\* _wake_if_idle: whether a suspension is for idle_timeout is the control
\* plane's, so a suspended process may wake.
Wakes == UNCHANGED state \/ (state = "suspended" /\ state' = "running")

\* _admit_event: the FILE_CHANGED and TASK_CREATED hooks refuse an event; a
\* file change is dropped, any other event dead-lettered.
Refused(e) ==
    \/ DeadLetter(<<e>>) /\ UNCHANGED dropped
    \/ dropped' = dropped \cup {e} /\ NoDeadLetter

\* The next event to come into being.
IsNext(e) == e \notin born /\ \A f \in Events \ born : e <= f

-----------------------------------------------------------------------------
(* The trigger and its listener *)

TriggerFires(e) ==          \* the handler of the bus; a full buffer overflows
    /\ live /\ IsNext(e)
    /\ born' = born \cup {e}
    /\ IF Len(buffer) < BufferSize
       THEN buffer' = Append(buffer, e) /\ NoDeadLetter
       ELSE DeadLetter(<<e>>) /\ UNCHANGED buffer
    /\ UNCHANGED <<state, stage, final, owner, recycled, draining, live, listener, leftovers,
                   queue, at, event, retries, injecting, done, cut, dropped, requeued>>

\* The listener looks at the state again before it waits for another event.
\* Mutant: it leaves a suspended process too.
ListenerNext_LeavesSuspended == IF state \in {"stopped", "stopping", "suspended"} THEN Gone ELSE Idle
ListenerNext == IF state \in {"stopped", "stopping"} THEN Gone ELSE Idle

ListenerTakes ==
    /\ listener.at = "waiting" /\ buffer # <<>>
    /\ buffer' = Tail(buffer)
    /\ LET e == Head(buffer)
       IN \/ /\ dropped' = dropped \cup {e}         \* the trigger's filter
             /\ listener' = ListenerNext /\ NoDeadLetter
          \/ /\ state = "failed" \/ draining
             /\ DeadLetter(<<e>>)
             /\ listener' = ListenerNext /\ UNCHANGED dropped
          \/ /\ state # "failed" /\ ~draining
             /\ listener' = [at |-> "admitting", event |-> e]
             /\ NoDeadLetter /\ UNCHANGED dropped
    /\ UNCHANGED <<state, stage, final, owner, recycled, draining, live, leftovers, queue, at,
                   event, retries, injecting, born, done, cut, requeued>>

ListenerAdmits ==
    /\ listener.at = "admitting"
    /\ \/ /\ listener' = [listener EXCEPT !.at = "putting"]
          /\ Wakes /\ NoDeadLetter /\ UNCHANGED dropped
       \/ listener' = ListenerNext /\ Refused(listener.event) /\ UNCHANGED state
    /\ UNCHANGED <<stage, final, owner, recycled, draining, live, buffer, leftovers,
                   queue, at, event, retries, injecting, born, done, cut, requeued>>

ListenerPuts ==             \* put() waits for room
    /\ listener.at = "putting" /\ Fits
    /\ queue' = Append(queue, listener.event)
    /\ listener' = ListenerNext
    /\ UNCHANGED <<state, stage, final, owner, recycled, draining, live, buffer, leftovers,
                   at, event, retries, dead, attempts, injecting, born, done, cut, dropped,
                   forgotten, requeued>>

HeldByListener == IF listener.event = NoEvent THEN <<>> ELSE <<listener.event>>

\* remove_trigger and add_trigger hold the process lock: no build or teardown
\* is under way.
RemoveTrigger ==
    /\ stage = "up" /\ live
    /\ DeadLetter(HeldByListener \o buffer)
    /\ live' = FALSE /\ buffer' = <<>> /\ listener' = Gone
    /\ UNCHANGED <<state, stage, final, owner, recycled, draining, leftovers, queue, at, event,
                   retries, injecting, born, done, cut, dropped, requeued>>

AddTrigger ==
    /\ stage = "up" /\ ~live /\ state \in {"running", "suspended"}
    /\ live' = TRUE /\ listener' = Idle
    /\ UNCHANGED <<state, stage, final, owner, recycled, draining, buffer, leftovers, queue,
                   at, event, retries, dead, attempts, injecting, born, done, cut, dropped,
                   forgotten, requeued>>

-----------------------------------------------------------------------------
(* The workers: _worker_loop and _process_event *)

Worker(w, to, e) == at' = [at EXCEPT ![w] = to] /\ event' = [event EXCEPT ![w] = e]

Take(w) ==
    /\ at[w] = "idle" /\ queue # <<>>
    /\ queue' = Tail(queue)
    /\ Worker(w, "hold", Head(queue))
    /\ UNCHANGED <<state, stage, final, owner, recycled, draining, live, buffer, listener,
                   leftovers, retries, dead, attempts, injecting, born, done, cut, dropped,
                   forgotten, requeued>>

\* The process can run an event it holds only when it runs and does not drain.
CanRun == state = "running" /\ ~draining

DropHeld(w) ==
    /\ at[w] = "hold" /\ state \notin {"starting", "suspended"} /\ ~CanRun
    /\ DeadLetter(<<event[w]>>)
    /\ Worker(w, "idle", NoEvent)
    /\ UNCHANGED <<state, stage, final, owner, recycled, draining, live, buffer, listener,
                   leftovers, queue, retries, injecting, born, done, cut, dropped, requeued>>

BeginRun(w) ==              \* the payload scan is the start of the run
    /\ at[w] = "hold" /\ CanRun
    /\ at' = [at EXCEPT ![w] = "run"]
    /\ attempts' = [attempts EXCEPT ![event[w]] = @ + 1]
    /\ UNCHANGED <<state, stage, final, owner, recycled, draining, live, buffer, listener,
                   leftovers, queue, event, retries, dead, injecting, born, done, cut, dropped,
                   forgotten, requeued>>

\* The run of w goes on: not while w itself tears the process down.
GoesOn(w) == w = owner => stage = "owner"
Ends(w) == at[w] = "run" /\ GoesOn(w)

\* A worker that stopped its process is cancelled at the next await, which may
\* come before the attempts are forgotten.
Succeeds(w) ==
    /\ Ends(w)
    /\ done' = done \cup {event[w]}
    /\ \/ attempts' = [attempts EXCEPT ![event[w]] = 0]
       \/ w = owner /\ UNCHANGED attempts
    /\ Worker(w, "hooks", event[w])
    /\ UNCHANGED <<state, stage, final, owner, recycled, draining, live, buffer, listener,
                   leftovers, queue, retries, dead, injecting, born, cut, dropped, forgotten,
                   requeued>>

SetAside(w) ==              \* over the limit of runs, or blocked by a hook
    /\ Ends(w)
    /\ DeadLetter(<<event[w]>>)
    /\ Worker(w, "hooks", event[w])
    /\ UNCHANGED <<state, stage, final, owner, recycled, draining, live, buffer, listener,
                   leftovers, queue, retries, injecting, born, done, cut, dropped, requeued>>

Denied(w) ==                \* the payload scan or a guardrail: PERMISSION_DENIED first
    /\ Ends(w)
    /\ Worker(w, "denied", event[w])
    /\ UNCHANGED <<state, stage, final, owner, recycled, draining, live, buffer, listener,
                   leftovers, queue, retries, dead, attempts, injecting, born, done, cut,
                   dropped, forgotten, requeued>>

DeniedEnds(w) ==
    /\ at[w] = "denied"
    /\ DeadLetter(<<event[w]>>)
    /\ Worker(w, "hooks", event[w])
    /\ UNCHANGED <<state, stage, final, owner, recycled, draining, live, buffer, listener,
                   leftovers, queue, retries, injecting, born, done, cut, dropped, requeued>>

RetriesLeft(w) == attempts[event[w]] <= MaxRetries

Retries(w) ==
    /\ Ends(w) /\ RetriesLeft(w)
    /\ retries' = Append(retries, event[w])
    /\ Worker(w, "hooks", event[w])
    /\ UNCHANGED <<state, stage, final, owner, recycled, draining, live, buffer, listener,
                   leftovers, queue, dead, attempts, injecting, born, done, cut, dropped,
                   forgotten, requeued>>

Exhausted(w) ==             \* health: the error, and the on_anomaly action
    /\ Ends(w) /\ ~RetriesLeft(w)
    /\ Worker(w, "spent", event[w])
    /\ UNCHANGED <<state, stage, final, owner, recycled, draining, live, buffer, listener,
                   leftovers, queue, retries, dead, attempts, injecting, born, done, cut,
                   dropped, forgotten, requeued>>

\* The streak of failures may be long enough now to fail the process.
GivesUp(w) ==
    /\ at[w] \in {"spent", "spent_stop"} /\ GoesOn(w)
    /\ DeadLetter(<<event[w]>>)
    /\ \E to \in {"hooks", "failing"} : Worker(w, to, event[w])
    /\ UNCHANGED <<state, stage, final, owner, recycled, draining, live, buffer, listener,
                   leftovers, queue, retries, injecting, born, done, cut, dropped, requeued>>

HooksEnd(w) ==              \* TASK_COMPLETED
    /\ at[w] = "hooks"
    /\ Worker(w, "idle", NoEvent)
    /\ UNCHANGED <<state, stage, final, owner, recycled, draining, live, buffer, listener,
                   leftovers, queue, retries, dead, attempts, injecting, born, done,
                   cut, dropped, forgotten, requeued>>

FailsProcess(w) ==          \* a state that allows no failure is left as it is
    /\ at[w] = "failing"
    /\ state' = IF state \in {"running", "suspended"} THEN "failed" ELSE state
    /\ DeadLetter(retries \o queue)
    /\ retries' = <<>> /\ queue' = <<>>
    /\ Worker(w, "none", NoEvent)
    /\ UNCHANGED <<stage, final, owner, recycled, draining, live, buffer, listener, leftovers,
                   injecting, born, done, cut, dropped, requeued>>

RetryFires(e) ==            \* _requeue_retry
    /\ \E i \in DOMAIN retries : retries[i] = e /\ retries' = RemoveAt(retries, i)
    /\ requeued' = requeued \cup {e}
    /\ IF state \in {"failed", "stopping", "stopped"} \/ draining
       THEN DeadLetter(<<e>>) /\ UNCHANGED queue
       ELSE PutOrDeadLetter(e)
    /\ UNCHANGED <<state, stage, final, owner, recycled, draining, live, buffer, listener,
                   leftovers, at, event, injecting, born, done, cut, dropped>>

-----------------------------------------------------------------------------
(* The operator: inject() and the dead letters *)

InjectBegins(e) ==
    /\ IsNext(e)
    /\ born' = born \cup {e} /\ requeued' = requeued \cup {e}
    /\ IF draining THEN DeadLetter(<<e>>) /\ UNCHANGED injecting
                   ELSE injecting' = injecting \cup {e} /\ NoDeadLetter
    /\ UNCHANGED <<state, stage, final, owner, recycled, draining, live, buffer, listener,
                   leftovers, queue, at, event, retries, done, cut, dropped>>

InjectEnds(e) ==            \* after its admission hooks
    /\ e \in injecting
    /\ injecting' = injecting \ {e}
    /\ \/ Refused(e) /\ UNCHANGED <<state, queue>>
       \/ PutOrDeadLetter(e) /\ Wakes /\ UNCHANGED dropped
    /\ UNCHANGED <<stage, final, owner, recycled, draining, live, buffer, listener, leftovers,
                   at, event, retries, born, done, cut, requeued>>

Redeliver(e) ==             \* an event that does not fit stays a dead letter
    /\ e \in Redeliverable /\ Fits
    /\ \E i \in DOMAIN dead : dead[i] = e /\ dead' = RemoveAt(dead, i)
    /\ queue' = Append(queue, e)
    /\ requeued' = requeued \cup {e}
    /\ Wakes
    /\ UNCHANGED <<stage, final, owner, recycled, draining, live, buffer, listener, leftovers,
                   at, event, retries, attempts, injecting, born, done, cut, dropped, forgotten>>

ClearDeadLetters ==
    /\ dead # <<>> /\ ToSet(dead) \subseteq Redeliverable
    /\ forgotten' = forgotten \cup ToSet(dead)
    /\ dead' = <<>>
    /\ UNCHANGED <<state, stage, final, owner, recycled, draining, live, buffer, listener,
                   leftovers, queue, at, event, retries, attempts, injecting, born, done,
                   cut, dropped, requeued>>

-----------------------------------------------------------------------------
(* The control plane, as far as the events see it *)

\* Moves of the control plane that touch no event.
NoEventMoves == UNCHANGED <<buffer, listener, leftovers, queue, at, event, retries, dead,
                            attempts, injecting, born, done, cut, dropped, forgotten, requeued>>

StartBegins ==
    /\ stage = "down" /\ state \in {"stopped", "failed"}
    /\ state' = "starting" /\ stage' = "build"
    /\ draining' = FALSE /\ recycled' = FALSE
    /\ NoEventMoves /\ UNCHANGED <<final, owner, live>>

TriggerStarts ==            \* before its listener exists
    /\ stage = "build" /\ ~live
    /\ live' = TRUE
    /\ NoEventMoves /\ UNCHANGED <<state, stage, final, owner, recycled, draining>>

StartSucceeds ==
    /\ stage = "build" /\ live
    /\ state' = "running" /\ stage' = "up"
    /\ listener' = Idle
    /\ at' = [w \in Workers |-> "idle"] /\ UNCHANGED event
    /\ UNCHANGED <<final, owner, recycled, draining, live, buffer, leftovers, queue, retries,
                   dead, attempts, injecting, born, done, cut, dropped, forgotten, requeued>>

StartFails ==
    /\ stage = "build"
    /\ state' = "failed" /\ stage' = "up"
    /\ NoEventMoves /\ UNCHANGED <<final, owner, recycled, draining, live>>

Suspends ==
    /\ state = "running" /\ state' = "suspended"
    /\ NoEventMoves /\ UNCHANGED <<stage, final, owner, recycled, draining, live>>

Resumes ==
    /\ state = "suspended" /\ state' = "running"
    /\ NoEventMoves /\ UNCHANGED <<stage, final, owner, recycled, draining, live>>

DrainBegins ==              \* stop(drain_timeout > 0), before the lock
    /\ state \in {"running", "suspended"} /\ ~draining
    /\ draining' = TRUE
    /\ NoEventMoves /\ UNCHANGED <<state, stage, final, owner, recycled, live>>

\* _shutdown up to its first await, asked for by o (a worker whose run stops
\* the process) or by anybody else: the retries and the events the other
\* workers hold become dead letters, and those workers are cancelled.
BeginTeardown(f, o) ==
    /\ \/ stage = "up" /\ state \in {"running", "suspended", "failed"}
       \/ stage = "down" /\ state = "failed"
    /\ o # NoWorker => f /\ at[o] \in {"run", "spent"}
    /\ stage' = "workers" /\ final' = f /\ owner' = o
    /\ state' = IF state = "failed" /\ ~f THEN "failed" ELSE "stopping"
    /\ \E held \in SetToSeqs(EventsOf(Holding \ {o})) : DeadLetter(retries \o held)
    /\ retries' = <<>>
    /\ at' = [w \in Workers |-> IF w # o THEN "none"
                            ELSE IF at[w] = "spent" THEN "spent_stop" ELSE "run"]
    /\ event' = [w \in Workers |-> IF w = o THEN event[w] ELSE NoEvent]
    /\ UNCHANGED <<recycled, draining, live, buffer, listener, leftovers, queue, injecting,
                   born, done, cut, dropped, requeued>>

\* A listener cancelled with an event in its hands leaves it to _shutdown.
\* Mutant: the event goes with it.
LeftByListener_Lost == <<>>
LeftByListener ==
    IF listener.event = NoEvent THEN <<>>
    ELSE <<[event |-> listener.event, admitted |-> listener.at = "putting"]>>

CancelListener ==
    /\ stage = "workers"
    /\ stage' = "listeners"
    /\ leftovers' = leftovers \o LeftByListener
    /\ listener' = Gone
    /\ UNCHANGED <<state, final, owner, recycled, draining, live, buffer, queue, at, event,
                   retries, dead, attempts, injecting, born, done, cut, dropped, forgotten, requeued>>

EventsIn(s) == [i \in 1..Len(s) |-> s[i].event]

\* What a stopped trigger still buffered comes after what its listener held.
\* Mutant: before it.
WithBuffered_First(s) == [i \in 1..Len(buffer) |-> [event |-> buffer[i], admitted |-> FALSE]] \o s
WithBuffered(s) == s \o [i \in 1..Len(buffer) |-> [event |-> buffer[i], admitted |-> FALSE]]

\* The trigger is stopped and gives up what it buffered.
StopTriggerForGood ==       \* final: the queue too becomes dead letters
    /\ stage = "listeners" /\ final
    /\ live' = FALSE /\ stage' = "release"
    /\ DeadLetter(queue \o EventsIn(leftovers) \o buffer)
    /\ queue' = <<>> /\ leftovers' = <<>> /\ buffer' = <<>>
    /\ UNCHANGED <<state, final, owner, recycled, draining, listener, at, event, retries,
                   injecting, born, done, cut, dropped, requeued>>

StopTriggerForRestart ==
    /\ stage = "listeners" /\ ~final
    /\ live' = FALSE /\ stage' = "refill"
    /\ leftovers' = WithBuffered(leftovers)
    /\ buffer' = <<>>
    /\ UNCHANGED <<state, final, owner, recycled, draining, listener, queue, at, event, retries,
                   dead, attempts, injecting, born, done, cut, dropped, forgotten, requeued>>

\* _keep_trigger_leftovers: the filter and the admission hooks, unless the
\* event has passed them, then the queue that survives the restart.
RefillQueue ==
    /\ stage = "refill" /\ leftovers # <<>>
    /\ leftovers' = Tail(leftovers)
    /\ LET e == Head(leftovers).event
       IN \/ PutOrDeadLetter(e) /\ UNCHANGED dropped
          \/ ~Head(leftovers).admitted /\ Refused(e) /\ UNCHANGED queue
    /\ UNCHANGED <<state, stage, final, owner, recycled, draining, live, buffer, listener, at,
                   event, retries, injecting, born, done, cut, requeued>>

RefillEnds ==
    /\ stage = "refill" /\ leftovers = <<>>
    /\ stage' = "release"
    /\ NoEventMoves /\ UNCHANGED <<state, final, owner, recycled, draining, live>>

EndTeardown ==
    /\ stage = "release"
    /\ stage' = IF owner = NoWorker THEN "down" ELSE "owner"
    /\ draining' = FALSE /\ final' = FALSE
    /\ IF state = "failed" THEN UNCHANGED <<state, recycled>>
       ELSE state' = "stopped" /\ recycled' = ~final
    /\ NoEventMoves /\ UNCHANGED <<owner, live>>

\* The worker that stopped its own process goes on until it next has to wait;
\* its cancellation ends it there.  Mutant: it is not cancelled.
AfterOwner_NotCancelled == UNCHANGED <<at, event>>
AfterOwner == Worker(owner, "none", NoEvent)

\* A run that stopped its process before it was refused or gave up meets its
\* cancellation at the hooks or the health actions that come first: its event
\* gets no outcome.  One that stopped it from the health actions awaits
\* nothing more before its dead letter.
OwnerEnds ==
    /\ stage = "owner" /\ at[owner] \notin {"hold", "run", "spent_stop"}
    /\ stage' = "down"
    /\ cut' = cut \cup (IF at[owner] \in {"denied", "spent"} THEN {event[owner]} ELSE {})
    /\ AfterOwner
    /\ owner' = NoWorker
    /\ UNCHANGED <<state, final, recycled, draining, live, buffer, listener, leftovers, queue,
                   retries, dead, attempts, injecting, born, done, dropped, forgotten, requeued>>

StopFinishesRecycle ==      \* stop() of a process between the halves of a recycle
    /\ stage = "down" /\ state = "stopped" /\ recycled
    /\ recycled' = FALSE
    /\ DeadLetter(queue) /\ queue' = <<>>
    /\ UNCHANGED <<state, stage, final, owner, draining, live, buffer, listener, leftovers, at,
                   event, retries, injecting, born, done, cut, dropped, requeued>>

-----------------------------------------------------------------------------

Init ==
    /\ state = "stopped" /\ stage = "down" /\ final = FALSE /\ owner = NoWorker
    /\ recycled = FALSE /\ draining = FALSE /\ live = FALSE
    /\ buffer = <<>> /\ listener = Gone /\ leftovers = <<>> /\ queue = <<>>
    /\ at = [w \in Workers |-> "none"] /\ event = [w \in Workers |-> NoEvent]
    /\ retries = <<>> /\ dead = <<>> /\ attempts = [e \in Events |-> 0] /\ injecting = {}
    /\ born = {} /\ done = {} /\ cut = {} /\ dropped = {} /\ forgotten = {} /\ requeued = {}

Listen == ListenerTakes \/ ListenerAdmits \/ ListenerPuts

Work(w) ==
    \/ Take(w) \/ DropHeld(w) \/ BeginRun(w)
    \/ Succeeds(w) \/ SetAside(w) \/ Denied(w) \/ DeniedEnds(w)
    \/ Retries(w) \/ Exhausted(w) \/ GivesUp(w)
    \/ HooksEnd(w) \/ FailsProcess(w)

Operate ==
    \/ \E e \in Events : InjectBegins(e) \/ Redeliver(e)
    \/ ClearDeadLetters \/ RemoveTrigger \/ AddTrigger

Control ==
    \/ StartBegins \/ TriggerStarts \/ StartSucceeds \/ StartFails
    \/ Suspends \/ Resumes \/ DrainBegins
    \/ \E f \in BOOLEAN, o \in Workers \cup {NoWorker} : BeginTeardown(f, o)
    \/ CancelListener \/ StopTriggerForGood \/ StopTriggerForRestart
    \/ RefillQueue \/ RefillEnds \/ EndTeardown \/ OwnerEnds \/ StopFinishesRecycle

Next ==
    \/ \E e \in Events : TriggerFires(e) \/ RetryFires(e) \/ InjectEnds(e)
    \/ Listen \/ Operate \/ Control
    \/ \E w \in Workers : Work(w)

Spec == Init /\ [][Next]_vars

\* The event loop runs the listener and the workers, a hook and a run end (a
\* hook is cut off by its timeout; that a run ends is the agent's), a timer
\* fires.  No fairness for the operator, the control plane or the trigger.
Fairness ==
    /\ WF_vars(Listen)
    /\ \A w \in Workers : WF_vars(Work(w))
    /\ \A e \in Events : WF_vars(RetryFires(e)) /\ WF_vars(InjectEnds(e))

LiveSpec == Spec /\ Fairness

-----------------------------------------------------------------------------
(* Properties *)

\* Where an event is on its way to a worker, in order.
Pipeline == queue \o HeldByListener \o EventsIn(leftovers) \o buffer

Holds(e) == \E w \in Workers : at[w] = "hold" /\ event[w] = e
Runs(e) == \E w \in Workers : at[w] \in RunPlaces /\ event[w] = e
Waits(e) == Contains(Pipeline, e) \/ Contains(retries, e) \/ e \in injecting \/ Holds(e)

Fate(e) ==
    CASE e \notin born -> "new"
      [] e \in done -> "done"
      [] e \in cut -> "cut"
      [] e \in dropped -> "dropped"
      [] e \in forgotten \/ Contains(dead, e) -> "dead"
      [] Runs(e) -> "running"
      [] Waits(e) -> "accepted"
      [] OTHER -> "lost"

EF == INSTANCE EventFate WITH fate <- [e \in Events |-> Fate(e)]

\* Every variable has its type, and every container its bound.
TypeOK ==
    /\ state \in States /\ stage \in Stages /\ owner \in Workers \cup {NoWorker}
    /\ final \in BOOLEAN /\ recycled \in BOOLEAN /\ draining \in BOOLEAN /\ live \in BOOLEAN
    /\ buffer \in Seq(Events) /\ Len(buffer) <= BufferSize
    /\ listener \in [at : {"waiting", "admitting", "putting", "none"}, event : Events \cup {NoEvent}]
    /\ leftovers \in Seq([event : Events, admitted : BOOLEAN])
    /\ queue \in Seq(Events) /\ Len(queue) <= QueueSize
    /\ at \in [Workers -> RunPlaces \cup {"none", "idle", "hold", "hooks", "failing"}]
    /\ event \in [Workers -> Events \cup {NoEvent}]
    /\ retries \in Seq(Events) /\ dead \in Seq(Events) /\ Len(dead) <= DeadLetterSize
    /\ attempts \in [Events -> Nat]
    /\ injecting \in SUBSET Events /\ born \in SUBSET Events /\ done \in SUBSET Events
    /\ cut \in SUBSET Events /\ dropped \in SUBSET Events /\ forgotten \in SUBSET Events
    /\ requeued \in SUBSET Events

\* Every event follows EventFate: none is lost between the trigger, its
\* listener, the queue, a worker and a retry, whoever cancels whom, unless its
\* own run stopped the process and was then refused or out of retries; one
\* that is done or refused is never a dead letter or run again.
Delivery == EF!Spec

\* An event is in one place: a dead letter is not also in the queue or about
\* to be retried, so a redelivery never runs it twice.
OnePlace ==
    LET line == Pipeline \o retries \o dead
        sets == <<ToSet(line), injecting, EventsOf(Holding), done, cut, dropped, forgotten>>
    IN /\ IsInjective(line)
       /\ \A v, w \in Holding : event[v] = event[w] => v = w
       /\ \A i, j \in DOMAIN sets : i # j => sets[i] \cap sets[j] = {}

\* An event is tried at most 1 + max_retries times in a row: retries, dead
\* letters, redeliveries and restarts do not add up.
AttemptsBounded == \A e \in Events : attempts[e] <= MaxRetries + 1

\* Whether e may come before f: the events that came straight from the trigger
\* are numbered in their order.
Ahead(e, f) == e < f \/ e \in requeued \/ f \in requeued

\* Events run in arrival order (_worker_loop): one that came from the trigger
\* and was never requeued is behind every such event before it, also across
\* a suspension or a restart.
InOrder ==
    /\ \A i, j \in DOMAIN Pipeline : i < j => Ahead(Pipeline[i], Pipeline[j])
    /\ \A e \in EventsOf(Holding), f \in ToSet(Pipeline) : Ahead(e, f)

\* A process that is down keeps no event where nothing would look for it.
DownHoldsNothing ==
    stage = "down" /\ state = "stopped" =>
        /\ buffer = <<>> /\ leftovers = <<>> /\ listener = Gone /\ ~live
        /\ \A w \in Workers : at[w] = "none"

\* An event accepted by a process that stays running is run, dead-lettered or
\* dropped, also after the process was suspended or restarted.
Served ==
    \A e \in Events : <>[](state = "running") => (Waits(e) ~> ~Waits(e))

\* A stop leaves nothing in the queue (process.py:3118: "A stop dead-letters every
\* event not run yet: queued, held by a worker or a trigger listener, ...").
StopEmptiesQueue == [][state = "stopping" /\ final /\ state' = "stopped" => queue = <<>>]_vars

=============================================================================
