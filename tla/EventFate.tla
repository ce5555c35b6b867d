------------------------------ MODULE EventFate ------------------------------
(***************************************************************************)
(* What an agent process promises about the trigger events it receives     *)
(* (AgentProcess.dead_letters, stop() and _worker_loop of                  *)
(* promptise/runtime/process.py): an event is accepted, runs, and ends     *)
(* done, or becomes a dead letter; only a filter or a hook may drop it.    *)
(* A run that stops its own process may be cut off before it has an        *)
(* outcome.                                                                *)
(* Many events may move in one step, each along one edge.                  *)
(***************************************************************************)
CONSTANT Events
VARIABLE fate       \* the fate of each event

Fates == {"new", "accepted", "running", "done", "cut", "dead", "dropped"}

\* A dead letter is accepted again when it is redelivered; a run whose event
\* is retried goes back to accepted; done, cut and dropped are final.
Moves ==
    [new      |-> {"accepted", "dead"},
     accepted |-> {"running", "dead", "dropped"},
     running  |-> {"accepted", "done", "cut", "dead"},
     dead     |-> {"accepted"},
     done     |-> {},
     cut      |-> {},
     dropped  |-> {}]

Init == fate = [e \in Events |-> "new"]

Next ==
    /\ fate' \in [Events -> Fates]
    /\ \A e \in Events : fate'[e] = fate[e] \/ fate'[e] \in Moves[fate[e]]

Spec == Init /\ [][Next]_fate

=============================================================================
