------------------------------ MODULE MCScheduler ------------------------------
(* Three groups whose intervals coincide at some times and not at others. *)
EXTENDS Scheduler

MCInterval == <<2, 3, 2>>
=============================================================================
