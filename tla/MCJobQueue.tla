----------------------------- MODULE MCJobQueue -----------------------------
(* Instances of JobQueue for TLC. *)
EXTENDS JobQueue

\* Job 1 is of normal priority, a later one is more urgent.
RankOfJobs == [j \in Jobs |-> IF j = 1 THEN 2 ELSE 0]

=============================================================================
