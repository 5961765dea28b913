---------------------------- MODULE MCScheduler -----------------------------
(* Instances of Scheduler for TLC. *)
EXTENDS Scheduler

Order == <<"hourly", "daily">>

(* Intervals of one and two ticks. *)
Ticks == [f \in Freqs |-> IF f = "hourly" THEN 1 ELSE 2]

=============================================================================
