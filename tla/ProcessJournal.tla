--------------------------- MODULE ProcessJournal ---------------------------
(***************************************************************************)
(* The journal of an agent process and what a crash leaves of the process  *)
(* (promptise/runtime: process.py, context.py, journal/file.py, replay.py, *)
(* rewind.py): context writes that are journaled after the fact, check-    *)
(* points in a file and in the journal, the recovery of the first start,   *)
(* the dead letters of runs a stop cut off, and rewind().                  *)
(*                                                                         *)
(* A step lasts from one suspension of a task to the next.  The journal    *)
(* writes without suspending, so a checkpoint and a rewind are one step    *)
(* each; they wait before it, for the entries of the writes made so far.   *)
(* A crash may come anywhere, between the two halves of a checkpoint too:  *)
(* that is a checkpoint whose entry fails, and a crash.                    *)
(***************************************************************************)
EXTENDS Integers, SequencesExt

CONSTANTS
    Keys,           \* of the context state
    Events,         \* trigger events, one run each, and one per redelivery
    MaxWrites,      \* bound: context writes
    MaxTroubles     \* bound: crashes, writes to the disk that fail, stops,
                    \* restarts, rewinds and redeliveries, all together

ASSUME BoundsAssumption == MaxWrites \in Nat /\ MaxTroubles \in Nat

VARIABLES
    proc,       \* where the process object is
    context,    \* AgentContext._state; a value is the number of its write
    talk,       \* the conversation buffer: the runs and notes it holds
    pending,    \* the update hooks that have not run yet, oldest first
    place,      \* where each event is
    interrupted,\* _interrupted_ids
    rewinding,  \* a rewind was applied and is not checkpointed yet
    journal,    \* {name}.jsonl
    file,       \* {name}.checkpoint.json
    since,      \* history: the values of a key from the last journaled one on
    lost,       \* history: keys whose value differs from the journaled one
    kept,       \* history: cut-off runs a checkpoint holds, until redelivered
    settled,    \* history: the runs whose own checkpoint was written, unless cut off after
    writes, troubles    \* bounds

objectVars == <<proc, context, talk, pending, rewinding>>
eventVars == <<place, interrupted, kept, settled>>
diskVars == <<journal, file, since, lost>>
bounds == <<writes, troubles>>
vars == <<proc, context, talk, pending, place, interrupted, rewinding, journal, file, since,
          lost, kept, settled, writes, troubles>>

\* No object; one that was not started; one that recovered and does not run; ...
Procs == {"gone", "fresh", "idle", "running", "stopping", "drained"}
Places == {"new", "queued", "running", "ending", "after", "dead", "done", "cleared", "lost"}

\* _worker_events: from the start of the run to _task_completed.  In between it
\* waits for its checkpoint (ending), then for the budget, the health actions
\* and the mission (after).
InRun == {"running", "ending", "after"}
UnderWay == {e \in Events : place[e] \in InRun}

Blank == [k \in Keys |-> 0]
Empty == [context |-> Blank, talk |-> {}]

-----------------------------------------------------------------------------
(* What the journal says *)

Update(k, v) == [type |-> "context_update", key |-> k, value |-> v]
Checkpoint(state) == [type |-> "checkpoint", state |-> state]
Note(type) == [type |-> type]

Updated(ctx, entry) ==
    IF entry.type = "context_update" THEN [ctx EXCEPT ![entry.key] = entry.value] ELSE ctx

\* RewindEngine._reconstruct: a checkpoint overwrites what came before.
\* Mutant: it adds to it, and a key it does not have keeps its old value.
Replayed_Merged(state, entry) ==
    IF entry.type = "checkpoint"
    THEN [context |-> [k \in Keys |-> IF entry.state.context[k] = 0 THEN state.context[k]
                                     ELSE entry.state.context[k]],
          talk |-> entry.state.talk]
    ELSE [state EXCEPT !.context = Updated(@, entry)]
Replayed(state, entry) ==
    IF entry.type = "checkpoint"
    THEN [context |-> entry.state.context, talk |-> entry.state.talk]
    ELSE [state EXCEPT !.context = Updated(@, entry)]
Reconstruct(entries) == FoldLeft(Replayed, Empty, entries)

\* ReplayEngine.recover: the checkpoint file, and the updates after the last
\* checkpoint entry.
\* Mutant: after the first one.
CheckpointsOf(entries) == {i \in DOMAIN entries : entries[i].type = "checkpoint"}
LastCheckpoint_First == Min(CheckpointsOf(journal))
LastCheckpoint == Max(CheckpointsOf(journal))

HasFile == file # <<>>
Snapshot == file[1]
ToReplay ==
    IF ~HasFile THEN journal
    ELSE IF CheckpointsOf(journal) = {} THEN <<>>
    ELSE SubSeq(journal, LastCheckpoint + 1, Len(journal))
Recovered == FoldLeft(Updated, IF HasFile THEN Snapshot.context ELSE Blank, ToReplay)

-----------------------------------------------------------------------------
(* The journal's writes *)

\* The keys with a write that has no entry, or not yet.
Pending(k) == \E i \in DOMAIN pending : pending[i].key = k
Lagging == {k \in Keys : Pending(k)} \union lost

Writes(entry) == journal' = Append(journal, entry)

\* A fault of the disk, a crash, or a request of the operator.
Trouble == troubles < MaxTroubles /\ troubles' = troubles + 1 /\ UNCHANGED writes

\* _interrupted_dead_letters, with the events as the step leaves them.
\* Mutant: the redelivered ones too.
StillDead_All == interrupted
StillDead == {e \in interrupted : place'[e] = "dead"}

\* flush_update_hooks: every write has its entry.
\* Mutant: the checkpoint does not wait for them.
Flushed_Not == TRUE
Flushed == pending = <<>>

\* _journal_checkpoint.  An entry that fails leaves the file ahead of it.
Checkpoints ==
    LET state == [context |-> context, talk |-> talk, interrupted |-> StillDead]
    IN  /\ Flushed
        /\ interrupted' = StillDead
        /\ \/ /\ file' = <<state>>
              /\ Writes(Checkpoint(state))
              /\ since' = [k \in Keys |-> <<context[k]>>]
              /\ lost' = {}
              /\ kept' = kept \union StillDead
              /\ UNCHANGED bounds
           \/ /\ Trouble
              /\ file' = <<state>>
              /\ lost' = IF rewinding THEN Keys ELSE lost
              /\ kept' = kept \union StillDead
              /\ UNCHANGED <<journal, since>>
           \/ /\ Trouble
              /\ lost' = IF rewinding THEN Keys ELSE lost
              /\ UNCHANGED <<journal, file, since, kept>>

\* The update hook of the oldest write that has none.
Entry(write) == Update(write.key, write.value)

FirstAt(s, v) == Min({i \in DOMAIN s : s[i] = v})
From(s, v) == IF v \in Range(s) THEN SubSeq(s, FirstAt(s, v), Len(s)) ELSE s

HookRuns ==
    /\ pending # <<>>
    /\ pending' = Tail(pending)
    /\ Writes(Entry(Head(pending)))
    /\ since' = [since EXCEPT ![Head(pending).key] = From(@, Head(pending).value)]
    /\ UNCHANGED <<proc, context, talk, rewinding, file, lost>>
    /\ UNCHANGED eventVars /\ UNCHANGED bounds

\* A journal failure is logged and never breaks the process.
HookFails ==
    /\ pending # <<>>
    /\ Trouble
    /\ pending' = Tail(pending)
    /\ lost' = lost \union {Head(pending).key}
    /\ UNCHANGED <<proc, context, talk, rewinding, journal, file, since>>
    /\ UNCHANGED eventVars

-----------------------------------------------------------------------------
(* The life of the object *)

Create ==
    /\ proc = "gone"
    /\ proc' = "fresh"
    /\ UNCHANGED <<context, talk, pending, rewinding>>
    /\ UNCHANGED eventVars /\ UNCHANGED diskVars /\ UNCHANGED bounds

\* context.put: the write is made at once, its entry later.
Put(k) ==
    /\ proc # "gone" /\ writes < MaxWrites
    /\ writes' = writes + 1
    /\ context' = [context EXCEPT ![k] = writes + 1]
    /\ pending' = Append(pending, [key |-> k, value |-> writes + 1])
    /\ since' = [since EXCEPT ![k] = Append(@, writes + 1)]
    /\ UNCHANGED <<proc, talk, rewinding, journal, file, lost, troubles>>
    /\ UNCHANGED eventVars

\* _restore_interrupted: the cut-off runs of the checkpoint are dead letters
\* again, and tracked.
Restored == IF HasFile THEN Snapshot.interrupted ELSE {}
Tracked == interrupted \union Restored

\* What recovery says of a key, the live value where it says nothing.  A
\* write made before it is journaled and overwritten.
Recover ==
    LET found(k) == IF Recovered[k] # 0 THEN Recovered[k] ELSE context[k]
        undone == {k \in Keys : found(k) # context[k] /\ Pending(k)}
        unread == HasFile /\ CheckpointsOf(journal) = {}
    IN  /\ proc = "fresh"
        /\ proc' = "idle"
        /\ IF HasFile \/ Recovered # Blank
           THEN /\ context' = [k \in Keys |-> found(k)]
                /\ talk' = IF HasFile THEN Snapshot.talk ELSE talk
                /\ place' = [e \in Events |-> IF e \in Restored THEN "dead" ELSE place[e]]
                /\ interrupted' = Tracked
                /\ Writes(Note("recovered"))
                /\ since' = [k \in Keys |-> IF k \in undone THEN Append(since[k], found(k))
                                         ELSE IF k \in Lagging THEN since[k]
                                         ELSE <<found(k)>>]
                /\ lost' = IF unread THEN Keys ELSE lost \union undone
           ELSE UNCHANGED <<context, talk, place, interrupted, journal, since, lost>>
        /\ UNCHANGED <<pending, rewinding, file, kept, settled>>
        /\ UNCHANGED bounds

\* A start ends; before that it may fail, and leave an idle process.
StartEnds ==
    /\ proc = "idle"
    /\ proc' = "running"
    /\ UNCHANGED <<context, talk, pending, rewinding>>
    /\ UNCHANGED eventVars /\ UNCHANGED diskVars /\ UNCHANGED bounds

\* The runs a stop or a restart cuts off: also one whose answer waits for its
\* checkpoint, and one whose end is checkpointed already.  (A run that stops
\* its own process is not cut off: here it has completed before.)
\* Mutant: only those that ask the model.
CutOff_Running == {e \in Events : place[e] = "running"}
CutOff == UnderWay

\* _record_interrupted_run for each of them.  A worker that waits for the
\* update hooks takes them along when it is cancelled.
Dies(dead) == place' = [e \in Events |-> IF e \in dead THEN "dead" ELSE place[e]]
CutsOff ==
    /\ Dies(CutOff)
    /\ interrupted' = interrupted \union CutOff
    /\ IF CutOff # {} THEN Writes(Note("run_interrupted")) ELSE UNCHANGED journal
    /\ \/ UNCHANGED <<pending, lost>>
       \/ /\ pending # <<>> /\ \E e \in CutOff : place[e] \in {"ending", "after"}
          /\ pending' = <<>>
          /\ lost' = Lagging
    /\ settled' = settled \ CutOff
    /\ UNCHANGED <<context, talk, rewinding, file, since, kept>>

\* _shutdown(final=True): cancel the workers, empty the queue, and checkpoint.
StopBegins ==
    /\ proc = "running" /\ Trouble
    /\ proc' = "stopping"
    /\ CutsOff

StopDrains ==
    /\ proc = "stopping"
    /\ proc' = "drained"
    /\ Dies({e \in Events : place[e] = "queued"})
    /\ UNCHANGED <<context, talk, pending, interrupted, rewinding, kept, settled>>
    /\ UNCHANGED diskVars /\ UNCHANGED bounds

StopEnds ==
    /\ proc = "drained"
    /\ proc' = "idle"
    /\ UNCHANGED <<context, talk, pending, place, rewinding, settled>>
    /\ Checkpoints

\* _shutdown(final=False): no checkpoint, and the queue is kept.
Recycle ==
    /\ proc = "running" /\ Trouble
    /\ proc' = "idle"
    /\ CutsOff

\* The program ends: what is on the disk is all there is.
Crash ==
    /\ proc # "gone" /\ Trouble
    /\ proc' = "gone"
    /\ context' = Blank /\ talk' = {} /\ pending' = <<>> /\ rewinding' = FALSE
    /\ place' = [e \in Events |-> IF place[e] \in {"new", "done"} THEN place[e] ELSE "lost"]
    /\ interrupted' = {}
    /\ UNCHANGED <<journal, file, since, lost, kept, settled>>

-----------------------------------------------------------------------------
(* Events and runs *)

Moves(e, from, to) ==
    /\ place[e] = from
    /\ place' = [place EXCEPT ![e] = to]
    /\ UNCHANGED <<proc, context, pending, interrupted, rewinding>>
    /\ UNCHANGED diskVars

Fire(e) ==
    /\ proc = "running"
    /\ Moves(e, "new", "queued")
    /\ UNCHANGED <<talk, kept, settled>> /\ UNCHANGED bounds

Begin(e) ==
    /\ Moves(e, "queued", "running")
    /\ proc = "running"
    /\ UNCHANGED <<talk, kept, settled>> /\ UNCHANGED bounds

\* The model has answered: the exchange is in the conversation.
RunEnds(e) ==
    /\ Moves(e, "running", "ending")
    /\ talk' = talk \union {e}
    /\ UNCHANGED <<kept, settled>> /\ UNCHANGED bounds

RunFails(e) ==
    /\ Moves(e, "running", "dead")
    /\ UNCHANGED <<talk, kept, settled>> /\ UNCHANGED bounds

CheckpointOf(e, from, to) ==
    /\ place[e] = from
    /\ place' = [place EXCEPT ![e] = to]
    /\ Checkpoints
    /\ settled' = IF file' = file /\ journal' = journal THEN settled ELSE settled \union {e}
    /\ UNCHANGED <<proc, context, talk, pending, rewinding>>

RunCheckpoints(e) == CheckpointOf(e, "ending", "after")

\* A mission that moved in its evaluation is checkpointed again, and nothing
\* is waited for from there to _task_completed.
MissionCheckpoints(e) == CheckpointOf(e, "after", "done")

\* _task_completed: the worker holds the event no more.
Completes(e) ==
    /\ Moves(e, "after", "done")
    /\ UNCHANGED <<talk, kept, settled>> /\ UNCHANGED bounds

\* redeliver_dead_letters and clear_dead_letters.
Redeliver(e) ==
    /\ proc \notin {"gone", "fresh"} /\ Trouble
    /\ Moves(e, "dead", "queued")
    /\ kept' = kept \ {e}
    /\ UNCHANGED <<talk, settled>>

Clear ==
    /\ proc # "gone" /\ Trouble
    /\ \E e \in Events : place[e] = "dead"
    /\ place' = [e \in Events |-> IF place[e] = "dead" THEN "cleared" ELSE place[e]]
    /\ kept' = {}
    /\ UNCHANGED <<proc, context, talk, pending, rewinding, interrupted, settled>>
    /\ UNCHANGED diskVars

-----------------------------------------------------------------------------
(* Rewind *)

Modes == {"both", "conversation_only", "code_only", "summarize"}

\* To just before entry t.  The values of a key and their entries part ways
\* until the next checkpoint.
Rewind(t, mode) ==
    LET before == Reconstruct(SubSeq(journal, 1, t - 1))
    IN  /\ proc \notin {"gone", "fresh"} /\ UnderWay = {} /\ ~rewinding /\ Trouble
        /\ Writes(Note("rewind"))
        /\ context' = IF mode \in {"both", "code_only"} THEN before.context ELSE context
        /\ talk' = CASE mode \in {"both", "conversation_only"} -> before.talk
                      [] mode = "summarize" -> talk \union {"note"}
                      [] OTHER -> talk
        /\ since' = [k \in Keys |-> IF context'[k] = context[k] THEN since[k]
                                 ELSE Append(since[k], context'[k])]
        /\ rewinding' = TRUE
        /\ UNCHANGED <<proc, pending, file, lost>>
        /\ UNCHANGED eventVars

\* The process runs again, and the rewound state is checkpointed.
RewindEnds ==
    /\ rewinding
    /\ rewinding' = FALSE
    /\ UNCHANGED <<proc, context, talk, pending, place, settled>>
    /\ Checkpoints

-----------------------------------------------------------------------------
Init ==
    /\ proc = "gone"
    /\ context = Blank /\ talk = {} /\ pending = <<>> /\ rewinding = FALSE
    /\ place = [e \in Events |-> "new"]
    /\ interrupted = {} /\ kept = {} /\ settled = {}
    /\ journal = <<>> /\ file = <<>> /\ lost = {}
    /\ since = [k \in Keys |-> <<0>>]
    /\ writes = 0 /\ troubles = 0

Object ==
    \/ Create \/ Recover \/ StartEnds \/ StopBegins \/ StopDrains \/ StopEnds
    \/ Recycle \/ Crash
    \/ HookRuns \/ HookFails
    \/ \E k \in Keys : Put(k)

Event == \E e \in Events :
    \/ Fire(e) \/ Begin(e) \/ RunEnds(e) \/ RunFails(e)
    \/ RunCheckpoints(e) \/ MissionCheckpoints(e) \/ Completes(e) \/ Redeliver(e)

Operator ==
    \/ Clear \/ RewindEnds
    \/ \E t \in DOMAIN journal, mode \in Modes : Rewind(t, mode)

Next == Object \/ Event \/ Operator

Spec == Init /\ [][Next]_vars

-----------------------------------------------------------------------------
(* Properties *)

\* Every variable has its type, and only a process that runs has runs: what a
\* stop or a restart finds under way it cuts off.
TypeOK ==
    /\ proc \in Procs
    /\ context \in [Keys -> 0 .. MaxWrites]
    /\ talk \subseteq Events \union {"note"}
    /\ \A i \in DOMAIN pending : pending[i] \in [key : Keys, value : 1 .. writes]
    /\ place \in [Events -> Places]
    /\ interrupted \subseteq Events /\ kept \subseteq Events /\ settled \subseteq Events
    /\ rewinding \in BOOLEAN /\ lost \subseteq Keys
    /\ Len(file) <= 1
    /\ UnderWay # {} => proc = "running"

\* A crash never takes a key back behind its last journaled value, nor to a
\* value it did not have since: recovery (file, then the updates after the
\* last checkpoint entry) finds one of the values the key had from its last
\* entry on.  Not so when the entry of the first checkpoint is missing: then
\* replay finds no entry to start after, and drops every later update.
Recoverable ==
    ~HasFile \/ CheckpointsOf(journal) # {}
        => LET recovered == Recovered
           IN  \A k \in Keys : recovered[k] \in Range(since[k])

\* "The state is rebuilt as it was just before it" (rewind's docstring): what
\* a rewind to the entry written next will restore is what a key has now, for
\* every key whose writes have all reached the journal, through checkpoints,
\* failed writes, crashes and other rewinds.  The journal only grows, so this
\* speaks of every entry of it.  A rewind that is not checkpointed is exempt,
\* and an object that has not recovered.
RewindExact ==
    ~rewinding /\ proc \notin {"gone", "fresh"}
        => LET rebuilt == Reconstruct(journal).context
           IN  \A k \in Keys \ Lagging : rebuilt[k] = context[k]

\* A run that a stop cut off stays a dead letter until someone redelivers or
\* clears it, through any number of crashes once a checkpoint holds it; and a
\* run whose own end was checkpointed is never offered for redelivery again,
\* though it was cut off before, unless a stop cuts it off between that
\* checkpoint and _task_completed: such a run is recorded as interrupted.
InterruptedFate ==
    /\ \A e \in kept : IF proc \in {"gone", "fresh"} THEN HasFile /\ e \in Snapshot.interrupted
                      ELSE place[e] = "dead"
    /\ \A e \in settled : place[e] # "dead" /\ e \notin Restored

\* The two readers of a journal agree: what recovery loads is what a rewind
\* to the end of the journal rebuilds, when the file is the checkpoint of the
\* last checkpoint entry.
EnginesAgree ==
    LET checkpoints == CheckpointsOf(journal)
        all == Reconstruct(journal)
    IN  IF HasFile
        THEN checkpoints # {} /\ journal[LastCheckpoint].state = Snapshot
             => Recovered = all.context /\ Snapshot.talk = all.talk
        ELSE checkpoints = {} => Recovered = all.context

=============================================================================
