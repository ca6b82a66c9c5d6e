---------------------------- MODULE MCScheduler ----------------------------
(* Instances of Scheduler for TLC: monitors and handlers are model values. *)
EXTENDS Scheduler, TLC

=============================================================================
