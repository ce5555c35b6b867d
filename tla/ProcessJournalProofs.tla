------------------------ MODULE ProcessJournalProofs ------------------------
(***************************************************************************)
(* The fate of the runs a stop cuts off, for any number of keys, events,   *)
(* writes, crashes and failing disks.  What a checkpoint holds of them is  *)
(* not inductive alone: a crash finds kept runs only because the file holds*)
(* them while the process is still up (KeptInFile), and the next           *)
(* checkpoint holds them again only because the process tracks them        *)
(* (KeptTracked).  The values of keys are the matter of JournalValuesProofs.*)
(***************************************************************************)
EXTENDS ProcessJournal, TLAPS

Down == {"gone", "fresh"}

EventTypes ==
    /\ place \in [Events -> Places]
    /\ UnderWay # {} => proc = "running"
    /\ rewinding => proc \notin Down
    /\ rewinding \in BOOLEAN

KeptInFile == kept \subseteq Restored /\ Restored \subseteq Events

KeptTracked == proc \notin Down => \A e \in kept : place[e] = "dead" /\ e \in interrupted

\* Where the end of a run is checkpointed: a crash loses one still held.
Over == {"after", "done", "lost"}

SettledOver ==
    settled \subseteq Events /\ \A e \in settled : place[e] \in Over /\ e \notin Restored

Tracks == interrupted \subseteq Events

IInv == EventTypes /\ KeptInFile /\ KeptTracked /\ SettledOver /\ Tracks

\* What a checkpoint leaves of interrupted runs: the file, or nothing.
LEMMA CheckpointFile ==
    ASSUME Checkpoints
    PROVE  /\ interrupted' = StillDead
           /\ \/ Restored' = StillDead /\ kept' = kept \union StillDead
              \/ file' = file /\ kept' = kept /\ journal' = journal
<1> DEFINE saved == [context |-> context, talk |-> talk, interrupted |-> StillDead]
<1>1. saved.interrupted = StillDead
  OBVIOUS
<1> HIDE DEF saved
<1>2. /\ interrupted' = StillDead
      /\ \/ file' = <<saved>> /\ kept' = kept \union StillDead
         \/ file' = file /\ kept' = kept /\ journal' = journal
  BY DEF Checkpoints, saved
<1>3. ASSUME file' = <<saved>> PROVE Restored' = StillDead
  BY <1>1, <1>3 DEF Restored, HasFile, Snapshot
<1> QED BY <1>2, <1>3

\* A checkpoint of a stop or a rewind, and those at the end of a run.
LEMMA CheckpointKeeps ==
    ASSUME IInv, proc \notin Down, proc' \notin Down, Checkpoints,
           NEW ended \in SUBSET Events, \A e \in ended : place[e] \in {"ending", "after"},
           NEW to \in {"after", "done"},
           place' = [e \in Events |-> IF e \in ended THEN to ELSE place[e]],
           UnderWay # {} => proc' = "running",
           rewinding' \in BOOLEAN,
           settled' = IF file' = file /\ journal' = journal THEN settled ELSE settled \union ended
    PROVE  IInv'
<1>0. EventTypes /\ KeptInFile /\ KeptTracked /\ SettledOver /\ Tracks
  BY DEF IInv
<1>1. /\ interrupted' = StillDead
      /\ \/ Restored' = StillDead /\ kept' = kept \union StillDead
         \/ file' = file /\ kept' = kept /\ journal' = journal
  BY CheckpointFile
<1>2. /\ \A e \in Events : place[e] = "dead" => place'[e] = "dead"
      /\ \A e \in Events : place[e] \in Over => place'[e] \in Over
      /\ \A e \in Events : place'[e] \in InRun => place[e] \in InRun
      /\ \A e \in ended : place'[e] \in Over /\ place'[e] # "dead"
      /\ place' \in [Events -> Places]
  BY <1>0 DEF EventTypes, Places, InRun, Over
<1>3. StillDead \subseteq Events /\ \A e \in StillDead : place'[e] = "dead"
  BY <1>0 DEF StillDead, Tracks
<1>4. EventTypes'
  BY <1>2 DEF EventTypes, UnderWay, InRun
<1>5. Tracks'
  BY <1>1, <1>3 DEF Tracks
<1>6. \A e \in kept : e \in StillDead
  BY <1>0, <1>2 DEF KeptInFile, KeptTracked, StillDead
<1>7. CASE Restored' = StillDead /\ kept' = kept \union StillDead
  <2>1. KeptInFile'
    BY <1>7, <1>3, <1>6 DEF KeptInFile
  <2>2. KeptTracked'
    BY <1>7, <1>1, <1>3, <1>6 DEF KeptTracked
  <2>3. settled' \subseteq settled \union ended
    OBVIOUS
  <2>4. SettledOver'
    BY <1>7, <2>3, <1>0, <1>2, <1>3 DEF SettledOver, Over
  <2> QED BY <1>4, <1>5, <2>1, <2>2, <2>4 DEF IInv
<1>8. CASE file' = file /\ kept' = kept /\ journal' = journal
  <2>1. Restored' = Restored /\ settled' = settled
    BY <1>8 DEF Restored, HasFile, Snapshot
  <2>2. KeptInFile'
    BY <1>8, <2>1, <1>0 DEF KeptInFile
  <2>3. KeptTracked'
    BY <1>8, <1>1, <1>3, <1>6 DEF KeptTracked
  <2>4. SettledOver'
    BY <2>1, <1>0, <1>2 DEF SettledOver, Over
  <2> QED BY <1>4, <1>5, <2>2, <2>3, <2>4 DEF IInv
<1> QED BY <1>1, <1>7, <1>8

\* A step that leaves the file alone: what is kept stays dead and tracked, and
\* what is over stays over.
LEMMA FileKept ==
    ASSUME IInv, file' = file, settled' \subseteq settled, kept' \subseteq kept,
           place' \in [Events -> Places], interrupted' \in SUBSET Events,
           \A e \in settled' : place'[e] \in Over,
           \A e \in kept' : proc' \notin Down => place'[e] = "dead" /\ e \in interrupted',
           \A e \in Events : place'[e] \in InRun => proc' = "running",
           rewinding' \in BOOLEAN, rewinding' => proc' \notin Down
    PROVE  IInv'
<1>0. EventTypes /\ KeptInFile /\ KeptTracked /\ SettledOver /\ Tracks
  BY DEF IInv
<1>1. Restored' = Restored
  BY DEF Restored, HasFile, Snapshot
<1>2. EventTypes'
  BY DEF EventTypes, UnderWay, InRun
<1>3. KeptInFile' /\ KeptTracked' /\ Tracks'
  BY <1>0, <1>1 DEF KeptInFile, KeptTracked, Tracks
<1>4. SettledOver'
  BY <1>0, <1>1 DEF SettledOver, Over
<1> QED BY <1>2, <1>3, <1>4 DEF IInv

-----------------------------------------------------------------------------
(* Steps *)

\* A stop or a restart: what is under way dies, and is tracked from here.
LEMMA CutsOffKeeps ==
    ASSUME IInv, CutsOff, proc = "running", proc' \notin Down
    PROVE  IInv'
<1>0. EventTypes /\ KeptInFile /\ KeptTracked /\ SettledOver /\ Tracks
  BY DEF IInv
<1>1. /\ place' = [e \in Events |-> IF e \in CutOff THEN "dead" ELSE place[e]]
      /\ interrupted' = interrupted \union CutOff
      /\ file' = file /\ settled' = settled \ CutOff /\ kept' = kept /\ rewinding' = rewinding
  BY DEF CutsOff, Dies
<1>2. place' \in [Events -> Places] /\ interrupted' \in SUBSET Events
  BY <1>0, <1>1 DEF EventTypes, Places, Tracks, CutOff, UnderWay, InRun
<1>3. \A e \in settled' : place'[e] \in Over
  BY <1>0, <1>1 DEF SettledOver, CutOff, Over
<1>4. \A e \in kept' : place'[e] = "dead" /\ e \in interrupted'
  BY <1>0, <1>1 DEF KeptInFile, KeptTracked, Down
<1>5. \A e \in Events : place'[e] \notin InRun
  BY <1>1 DEF CutOff, UnderWay, InRun
<1> QED BY <1>0, <1>1, <1>2, <1>3, <1>4, <1>5, FileKept DEF EventTypes

\* A step that moves one event, or none, and never a dead one.
LEMMA MovesKeeps ==
    ASSUME IInv, NEW e \in Events, NEW from \in {"new", "queued", "running", "after"},
           NEW to \in {"queued", "running", "ending", "dead", "done"},
           Moves(e, from, to), kept' = kept, settled' = settled,
           from = "after" => to = "done", to \in InRun => proc = "running"
    PROVE  IInv'
<1>0. EventTypes /\ KeptInFile /\ KeptTracked /\ SettledOver /\ Tracks
  BY DEF IInv
<1>1. /\ place[e] = from /\ place' = [place EXCEPT ![e] = to]
      /\ proc' = proc /\ interrupted' = interrupted /\ rewinding' = rewinding /\ file' = file
  BY DEF Moves, diskVars
<1>2. place' \in [Events -> Places] /\ interrupted' \in SUBSET Events
  BY <1>0, <1>1 DEF EventTypes, Places, Tracks
<1>3. \A d \in settled : place'[d] \in Over
  BY <1>0, <1>1 DEF SettledOver, EventTypes, Over
<1>4. \A d \in kept' : proc' \notin Down => place'[d] = "dead" /\ d \in interrupted'
  BY <1>0, <1>1 DEF KeptInFile, KeptTracked, EventTypes
<1>5. \A d \in Events : place'[d] \in InRun => proc' = "running"
  BY <1>0, <1>1 DEF EventTypes, UnderWay, InRun
<1>6. rewinding' \in BOOLEAN /\ (rewinding' => proc' \notin Down)
  BY <1>0, <1>1 DEF EventTypes
<1> QED BY <1>1, <1>2, <1>3, <1>4, <1>5, <1>6, FileKept

\* A step that touches no event and no checkpoint.
LEMMA QuietKeeps ==
    ASSUME IInv, UNCHANGED eventVars, file' = file, proc \notin Down => proc' \notin Down,
           proc' \in Down \/ proc \notin Down, UnderWay # {} => proc' = "running",
           rewinding' \in BOOLEAN, rewinding' => proc' \notin Down
    PROVE  IInv'
<1>0. EventTypes /\ KeptInFile /\ KeptTracked /\ SettledOver /\ Tracks
  BY DEF IInv
<1>1. place' = place /\ interrupted' = interrupted /\ kept' = kept /\ settled' = settled
  BY DEF eventVars
<1>2. \A e \in kept' : proc' \notin Down => place'[e] = "dead" /\ e \in interrupted'
  BY <1>0, <1>1 DEF KeptTracked
<1>3. /\ place' \in [Events -> Places] /\ interrupted' \in SUBSET Events
      /\ \A e \in settled : place'[e] \in Over
      /\ \A e \in Events : place'[e] \in InRun => proc' = "running"
  BY <1>0, <1>1 DEF EventTypes, Tracks, SettledOver, UnderWay, Over, InRun
<1> QED BY <1>1, <1>2, <1>3, FileKept

\* Recovery puts what the file holds where the process can track it.
LEMMA RecoverKeeps ==
    ASSUME IInv, Recover
    PROVE  IInv'
<1>0. EventTypes /\ KeptInFile /\ KeptTracked /\ SettledOver /\ Tracks
  BY DEF IInv
<1>1. /\ proc = "fresh" /\ proc' = "idle"
      /\ UNCHANGED <<pending, rewinding, file, kept, settled>>
      /\ \/ /\ place' = [e \in Events |-> IF e \in Restored THEN "dead" ELSE place[e]]
            /\ interrupted' = Tracked
         \/ ~HasFile /\ place' = place /\ interrupted' = interrupted
  BY DEF Recover
<1>2. UnderWay = {} /\ rewinding = FALSE /\ proc' \notin Down
  BY <1>0, <1>1 DEF EventTypes, Down
<1>3. CASE /\ place' = [e \in Events |-> IF e \in Restored THEN "dead" ELSE place[e]]
           /\ interrupted' = Tracked
  <2>1. place' \in [Events -> Places] /\ interrupted' \in SUBSET Events
    BY <1>0, <1>3 DEF EventTypes, Places, Tracks, Tracked, KeptInFile
  <2>2. \A e \in settled : place'[e] \in Over
    BY <1>0, <1>3 DEF SettledOver, Over
  <2>3. \A e \in kept : place'[e] = "dead" /\ e \in interrupted'
    BY <1>0, <1>3 DEF KeptInFile, Tracked
  <2>4. \A e \in Events : place'[e] \notin InRun
    BY <1>2, <1>3 DEF UnderWay, InRun
  <2> QED BY <1>1, <1>2, <2>1, <2>2, <2>3, <2>4, FileKept
<1>4. CASE ~HasFile /\ place' = place /\ interrupted' = interrupted
  <2>1. kept = {}
    BY <1>0, <1>4 DEF KeptInFile, Restored
  <2>2. /\ place' \in [Events -> Places] /\ interrupted' \in SUBSET Events
        /\ \A e \in settled : place'[e] \in Over
        /\ \A e \in Events : place'[e] \notin InRun
    BY <1>0, <1>2, <1>4 DEF EventTypes, Tracks, SettledOver, UnderWay, Over, InRun
  <2> QED BY <1>1, <1>2, <2>1, <2>2, FileKept
<1> QED BY <1>1, <1>3, <1>4

\* A crash takes everything but the file.
LEMMA CrashKeeps ==
    ASSUME IInv, Crash
    PROVE  IInv'
<1>0. EventTypes /\ KeptInFile /\ KeptTracked /\ SettledOver /\ Tracks
  BY DEF IInv
<1>1. /\ proc' = "gone" /\ rewinding' = FALSE /\ interrupted' = {}
      /\ place' = [e \in Events |-> IF place[e] \in {"new", "done"} THEN place[e] ELSE "lost"]
      /\ file' = file /\ kept' = kept /\ settled' = settled
  BY DEF Crash
<1>2. place' \in [Events -> Places] /\ \A e \in settled : place'[e] \in Over
  BY <1>0, <1>1 DEF EventTypes, Places, SettledOver, Over
<1>3. \A e \in Events : place'[e] \notin InRun
  BY <1>1 DEF InRun
<1>4. proc' \in Down
  BY <1>1 DEF Down
<1> QED BY <1>1, <1>2, <1>3, <1>4, FileKept

LEMMA RedeliverKeeps ==
    ASSUME IInv, NEW e \in Events, Redeliver(e)
    PROVE  IInv'
<1>0. EventTypes /\ KeptInFile /\ KeptTracked /\ SettledOver /\ Tracks
  BY DEF IInv
<1>1. /\ place[e] = "dead" /\ place' = [place EXCEPT ![e] = "queued"]
      /\ proc' = proc /\ interrupted' = interrupted /\ rewinding' = rewinding /\ file' = file
      /\ kept' = kept \ {e} /\ settled' = settled
  BY DEF Redeliver, Moves, diskVars
<1>2. place' \in [Events -> Places] /\ interrupted' \in SUBSET Events
  BY <1>0, <1>1 DEF EventTypes, Places, Tracks
<1>3. \A d \in settled : place'[d] \in Over
  BY <1>0, <1>1 DEF SettledOver, EventTypes, Over
<1>4. \A d \in kept' : proc' \notin Down => place'[d] = "dead" /\ d \in interrupted'
  BY <1>0, <1>1 DEF KeptInFile, KeptTracked, EventTypes
<1>5. \A d \in Events : place'[d] \in InRun => proc' = "running"
  BY <1>0, <1>1 DEF EventTypes, UnderWay, InRun
<1>6. rewinding' \in BOOLEAN /\ (rewinding' => proc' \notin Down) /\ kept' \subseteq kept
  BY <1>0, <1>1 DEF EventTypes
<1> QED BY <1>1, <1>2, <1>3, <1>4, <1>5, <1>6, FileKept

LEMMA ClearKeeps ==
    ASSUME IInv, Clear
    PROVE  IInv'
<1>0. EventTypes /\ KeptInFile /\ KeptTracked /\ SettledOver /\ Tracks
  BY DEF IInv
<1>1. /\ place' = [e \in Events |-> IF place[e] = "dead" THEN "cleared" ELSE place[e]]
      /\ proc' = proc /\ interrupted' = interrupted /\ rewinding' = rewinding /\ file' = file
      /\ kept' = {} /\ settled' = settled
  BY DEF Clear, diskVars
<1>2. place' \in [Events -> Places] /\ interrupted' \in SUBSET Events
  BY <1>0, <1>1 DEF EventTypes, Places, Tracks
<1>3. \A d \in settled : place'[d] \in Over
  BY <1>0, <1>1 DEF SettledOver, Over
<1>4. \A d \in Events : place'[d] \in InRun => proc' = "running"
  BY <1>0, <1>1 DEF EventTypes, UnderWay, InRun
<1>5. rewinding' \in BOOLEAN /\ (rewinding' => proc' \notin Down)
  BY <1>0, <1>1 DEF EventTypes
<1> QED BY <1>1, <1>2, <1>3, <1>4, <1>5, FileKept

LEMMA ObjectKeeps ==
    ASSUME IInv, Object
    PROVE  IInv'
<1>0. EventTypes /\ KeptInFile /\ KeptTracked /\ SettledOver /\ Tracks
  BY DEF IInv
<1>1. CASE Create
  <2>1. /\ UNCHANGED eventVars /\ file' = file /\ rewinding' = rewinding
        /\ proc = "gone" /\ proc' = "fresh"
    BY <1>1 DEF Create, diskVars
  <2>2. proc \in Down /\ proc' \in Down /\ UnderWay = {} /\ rewinding = FALSE
    BY <2>1, <1>0 DEF Down, EventTypes
  <2> QED BY <2>1, <2>2, QuietKeeps
<1>2. CASE Recover
  BY <1>2, RecoverKeeps
<1>3. CASE StartEnds
  <2>1. /\ UNCHANGED eventVars /\ file' = file /\ rewinding' = rewinding
        /\ proc = "idle" /\ proc' = "running"
    BY <1>3 DEF StartEnds, diskVars
  <2>2. proc \notin Down /\ proc' \notin Down
    BY <2>1 DEF Down
  <2> QED BY <2>1, <2>2, <1>0, QuietKeeps DEF EventTypes
<1>4. CASE StopBegins
  <2>1. proc = "running" /\ proc' = "stopping" /\ CutsOff
    BY <1>4 DEF StopBegins
  <2> QED BY <2>1, CutsOffKeeps DEF Down
<1>9. CASE StopDrains
  <2>1. /\ proc = "stopping" /\ proc' = "drained"
        /\ place' = [e \in Events |-> IF place[e] = "queued" THEN "dead" ELSE place[e]]
        /\ interrupted' = interrupted /\ rewinding' = rewinding
        /\ file' = file /\ kept' = kept /\ settled' = settled
    BY <1>9 DEF StopDrains, Dies, diskVars
  <2>2. proc \notin Down /\ proc' \notin Down /\ UnderWay = {}
    BY <2>1, <1>0 DEF Down, EventTypes
  <2>3. place' \in [Events -> Places] /\ interrupted' \in SUBSET Events
    BY <2>1, <1>0 DEF EventTypes, Places, Tracks
  <2>4. \A e \in settled : place'[e] \in Over
    BY <2>1, <1>0 DEF SettledOver, Over
  <2>5. \A e \in kept : place'[e] = "dead" /\ e \in interrupted'
    BY <2>1, <2>2, <1>0 DEF KeptInFile, KeptTracked
  <2>6. \A e \in Events : place'[e] \notin InRun
    BY <2>1, <2>2 DEF UnderWay, InRun
  <2>7. rewinding' \in BOOLEAN /\ kept' \subseteq kept
    BY <2>1, <1>0 DEF EventTypes
  <2> QED BY <2>1, <2>2, <2>3, <2>4, <2>5, <2>6, <2>7, FileKept
<1>5. CASE StopEnds
  <2>1. /\ proc = "drained" /\ proc' = "idle" /\ Checkpoints
        /\ place' = place /\ rewinding' = rewinding /\ settled' = settled
    BY <1>5 DEF StopEnds
  <2>2. proc \notin Down /\ proc' \notin Down /\ UnderWay = {}
    BY <2>1, <1>0 DEF Down, EventTypes
  <2>3. place' = [e \in Events |-> IF e \in {} THEN "done" ELSE place[e]]
    BY <2>1, <1>0 DEF EventTypes
  <2>4. settled' = IF file' = file /\ journal' = journal THEN settled ELSE settled \union {}
    BY <2>1
  <2>5. {} \in SUBSET Events /\ rewinding' \in BOOLEAN
    BY <2>1, <1>0 DEF EventTypes
  <2> QED BY <2>1, <2>2, <2>3, <2>4, <2>5, CheckpointKeeps
<1>6. CASE Recycle
  <2>1. proc = "running" /\ proc' = "idle" /\ CutsOff
    BY <1>6 DEF Recycle
  <2> QED BY <2>1, CutsOffKeeps DEF Down
<1>7. CASE Crash
  BY <1>7, CrashKeeps
<1>8. CASE HookRuns \/ HookFails \/ \E k \in Keys : Put(k)
  <2>1. UNCHANGED eventVars /\ file' = file /\ rewinding' = rewinding /\ proc' = proc
    BY <1>8 DEF HookRuns, HookFails, Put
  <2> QED BY <2>1, <1>0, QuietKeeps DEF EventTypes
<1> QED BY <1>1, <1>2, <1>3, <1>4, <1>5, <1>6, <1>7, <1>8, <1>9 DEF Object

LEMMA EventKeeps ==
    ASSUME IInv, NEW e \in Events,
           \/ Fire(e) \/ Begin(e) \/ RunEnds(e) \/ RunFails(e)
           \/ RunCheckpoints(e) \/ MissionCheckpoints(e) \/ Completes(e) \/ Redeliver(e)
    PROVE  IInv'
<1>0. EventTypes /\ KeptInFile /\ KeptTracked /\ SettledOver /\ Tracks
  BY DEF IInv
<1>1. CASE Fire(e)
  BY <1>1, MovesKeeps DEF Fire, InRun
<1>2. CASE Begin(e)
  BY <1>2, MovesKeeps DEF Begin
<1>3. CASE RunEnds(e)
  <2>1. Moves(e, "running", "ending") /\ kept' = kept /\ settled' = settled
    BY <1>3 DEF RunEnds
  <2>2. proc = "running"
    BY <2>1, <1>0 DEF Moves, EventTypes, UnderWay, InRun
  <2> QED BY <2>1, <2>2, MovesKeeps
<1>4. CASE RunFails(e)
  BY <1>4, MovesKeeps DEF RunFails, InRun
<1>5. CASE RunCheckpoints(e) \/ MissionCheckpoints(e)
  <2>1. PICK from \in {"ending", "after"} : \E to \in {"after", "done"} : CheckpointOf(e, from, to)
    BY <1>5 DEF RunCheckpoints, MissionCheckpoints
  <2>2. PICK to \in {"after", "done"} : CheckpointOf(e, from, to)
    BY <2>1
  <2>3. /\ place[e] = from /\ place' = [place EXCEPT ![e] = to] /\ Checkpoints
        /\ settled' = IF file' = file /\ journal' = journal THEN settled ELSE settled \union {e}
        /\ proc' = proc /\ rewinding' = rewinding
    BY <2>2 DEF CheckpointOf
  <2>4. proc = "running" /\ proc \notin Down /\ rewinding \in BOOLEAN
    BY <2>3, <1>0 DEF EventTypes, UnderWay, InRun, Down
  <2>5. place' = [d \in Events |-> IF d \in {e} THEN to ELSE place[d]]
    BY <2>3, <1>0 DEF EventTypes
  <2>6. {e} \in SUBSET Events /\ \A d \in {e} : place[d] \in {"ending", "after"}
    BY <2>3
  <2> QED BY <2>3, <2>4, <2>5, <2>6, CheckpointKeeps
<1>6. CASE Redeliver(e)
  BY <1>6, RedeliverKeeps
<1>7. CASE Completes(e)
  <2>1. Moves(e, "after", "done") /\ kept' = kept /\ settled' = settled
    BY <1>7 DEF Completes
  <2> QED BY <2>1, MovesKeeps DEF InRun
<1> QED BY <1>1, <1>2, <1>3, <1>4, <1>5, <1>6, <1>7

LEMMA OperatorKeeps ==
    ASSUME IInv, Operator
    PROVE  IInv'
<1>0. EventTypes /\ KeptInFile /\ KeptTracked /\ SettledOver /\ Tracks
  BY DEF IInv
<1>1. CASE Clear
  BY <1>1, ClearKeeps
<1>2. CASE RewindEnds
  <2>1. /\ rewinding = TRUE /\ rewinding' = FALSE /\ Checkpoints
        /\ proc' = proc /\ place' = place /\ settled' = settled
    BY <1>2, <1>0 DEF RewindEnds, EventTypes
  <2>2. proc \notin Down
    BY <2>1, <1>0 DEF EventTypes
  <2>3. place' = [e \in Events |-> IF e \in {} THEN "done" ELSE place[e]]
    BY <2>1, <1>0 DEF EventTypes
  <2>4. settled' = IF file' = file /\ journal' = journal THEN settled ELSE settled \union {}
    BY <2>1
  <2>5. {} \in SUBSET Events /\ (UnderWay # {} => proc' = "running")
    BY <2>1, <1>0 DEF EventTypes
  <2> QED BY <2>1, <2>2, <2>3, <2>4, <2>5, CheckpointKeeps
<1>3. ASSUME NEW t \in DOMAIN journal, NEW mode \in Modes, Rewind(t, mode)
      PROVE  IInv'
  <2>1. /\ UNCHANGED eventVars /\ file' = file /\ rewinding' = TRUE /\ proc' = proc
        /\ proc \notin {"gone", "fresh"}
    BY <1>3 DEF Rewind
  <2>2. proc \notin Down
    BY <2>1 DEF Down
  <2> QED BY <2>1, <2>2, <1>0, QuietKeeps DEF EventTypes
<1> QED BY <1>1, <1>2, <1>3 DEF Operator

LEMMA InitHolds == Init => IInv
  BY DEF Init, IInv, EventTypes, KeptInFile, KeptTracked, SettledOver, Tracks, Places, UnderWay, InRun, Over,
         Restored, HasFile, Down

-----------------------------------------------------------------------------
\* The invariant of cut-off runs holds in every state.
THEOREM Inductive == Spec => []IInv
<1>1. Init => IInv
  BY InitHolds
<1>2. IInv /\ [Next]_vars => IInv'
  <2>1. SUFFICES ASSUME IInv, [Next]_vars PROVE IInv'
    OBVIOUS
  <2>2. CASE Object
    BY <2>1, <2>2, ObjectKeeps
  <2>3. CASE Event
    BY <2>1, <2>3, EventKeeps DEF Event
  <2>4. CASE Operator
    BY <2>1, <2>4, OperatorKeeps
  <2>5. CASE UNCHANGED vars
    <3>1. UNCHANGED eventVars /\ file' = file /\ rewinding' = rewinding /\ proc' = proc
      BY <2>5 DEF vars, eventVars
    <3>2. EventTypes
      BY <2>1 DEF IInv
    <3> QED BY <2>1, <3>1, <3>2, QuietKeeps DEF EventTypes
  <2> QED BY <2>1, <2>2, <2>3, <2>4, <2>5 DEF Next
<1> QED BY <1>1, <1>2, PTL DEF Spec

\* No crash loses a cut-off run a checkpoint holds; and a run whose end was
\* checkpointed is offered again only if a stop finds the worker still holding
\* its event, between that checkpoint and _task_completed.
THEOREM RunsHaveTheirFate == Spec => []InterruptedFate
<1>1. IInv => InterruptedFate
  <2>1. SUFFICES ASSUME IInv PROVE InterruptedFate
    OBVIOUS
  <2>2. KeptInFile /\ KeptTracked /\ SettledOver
    BY <2>1 DEF IInv
  <2>3. \A e \in kept : IF proc \in {"gone", "fresh"} THEN HasFile /\ e \in Snapshot.interrupted
                        ELSE place[e] = "dead"
    BY <2>2 DEF KeptInFile, KeptTracked, Restored, Down
  <2>4. \A e \in settled : place[e] # "dead" /\ e \notin Restored
    BY <2>2 DEF SettledOver, Over
  <2> QED BY <2>3, <2>4 DEF InterruptedFate
<1> QED BY <1>1, Inductive, PTL
=============================================================================
