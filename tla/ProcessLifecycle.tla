-------------------------- MODULE ProcessLifecycle --------------------------
(***************************************************************************)
(* The lifecycle state machine of an agent process                         *)
(* (promptise/runtime/lifecycle.py).  ProcessLifecycle.transition takes    *)
(* its own lock, refuses a target that VALID_TRANSITIONS does not list for *)
(* the current state, and otherwise records the new state: AgentProcess    *)
(* makes every change of state through it.                                 *)
(***************************************************************************)

VARIABLE state      \* ProcessLifecycle._state

\* AWAITING is reserved in the source: no code moves a process there, and it
\* is a state like the others here.
ProcessState == {"created", "starting", "running", "suspended",
                 "stopping", "stopped", "failed", "awaiting"}

ValidTransitions ==
    [created   |-> {"starting", "stopped"},
     starting  |-> {"running", "failed", "stopping"},
     running   |-> {"suspended", "stopping", "failed", "awaiting"},
     suspended |-> {"running", "stopping", "failed"},
     awaiting  |-> {"running", "stopping", "failed"},
     stopping  |-> {"stopped", "failed"},
     stopped   |-> {"starting"},
     failed    |-> {"starting", "stopping"}]

CanTransition(from, to) == to \in ValidTransitions[from]

\* transition(target): a target that is not valid raises StateError and
\* changes nothing.
Transition(target) ==
    /\ CanTransition(state, target)
    /\ state' = target

=============================================================================
