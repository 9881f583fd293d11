----------------------------- MODULE MCRequeue -----------------------------
(* The instance of Requeue for TLC; a unit of time is 15 seconds. *)
EXTENDS Requeue, TLC
=============================================================================
