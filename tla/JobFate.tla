------------------------------ MODULE JobFate -------------------------------
(***************************************************************************)
(* What the job queue promises a caller that polls the status of its job   *)
(* (JobStatus and MCPQueue of promptise/mcp/server/_queue.py): a pending   *)
(* job may run, a failed run is repeated at most MaxRetries times, and a   *)
(* job reported as failed had all its attempts.  An ended job keeps its    *)
(* status, except that a cancelled one may still be reported as timed out. *)
(***************************************************************************)
EXTENDS Naturals

CONSTANTS Jobs, MaxRetries
VARIABLES
    fate,       \* the status of each job, "none" before its submission
    tries       \* the attempts each job has had

Init == fate = [j \in Jobs |-> "none"] /\ tries = [j \in Jobs |-> 0]

Moves(j, from, to) == fate[j] = from /\ fate' = [fate EXCEPT ![j] = to]

Submit(j) == Moves(j, "none", "pending") /\ UNCHANGED tries

Attempt(j) ==
    /\ Moves(j, "pending", "running")
    /\ tries[j] <= MaxRetries
    /\ tries' = [tries EXCEPT ![j] = @ + 1]

Retry(j) == Moves(j, "running", "pending") /\ tries[j] <= MaxRetries /\ UNCHANGED tries

Fail(j) == Moves(j, "running", "failed") /\ tries[j] = MaxRetries + 1 /\ UNCHANGED tries

End(j) ==
    /\ \/ Moves(j, "running", "completed")
       \/ Moves(j, "running", "timeout")
    /\ UNCHANGED tries

Cancel(j) ==
    /\ \/ Moves(j, "pending", "cancelled")
       \/ Moves(j, "running", "cancelled")
    /\ UNCHANGED tries

\* A worker that had given the run up before the cancellation says so.
LateTimeout(j) == Moves(j, "cancelled", "timeout") /\ UNCHANGED tries

Next == \E j \in Jobs :
    Submit(j) \/ Attempt(j) \/ Retry(j) \/ Fail(j) \/ End(j) \/ Cancel(j) \/ LateTimeout(j)

Spec == Init /\ [][Next]_<<fate, tries>>

=============================================================================
