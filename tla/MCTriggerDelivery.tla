-------------------------- MODULE MCTriggerDelivery --------------------------
(***************************************************************************)
(* TriggerDelivery for TLC.  The workers are interchangeable; the events   *)
(* are not, their numbers are the order they come into being.              *)
(***************************************************************************)
EXTENDS TriggerDelivery, TLC

WorkerSymmetry == Permutations(Workers)

=============================================================================
