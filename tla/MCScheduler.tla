----------------------------- MODULE MCScheduler ----------------------------
(***************************************************************************)
(* Instances of Scheduler for TLC: the bridge scheduler and the coin gecko *)
(* scheduler of one server.                                                *)
(***************************************************************************)
EXTENDS SchedulerProperties

CONSTANTS bridge, cgc  \* model values

GeckoFirst == <<cgc, bridge>>

(* The longest a stop can take: each wait looks after its last second.     *)
Longest == Len(Order) * (Timeout + 1) * Second

(* A stop comes to an end, also when a work() never does (waitForStop and  *)
(* its timeout).                                                           *)
StopEnds == server = "stopping" /\ now + Longest <= MaxTime ~> server = "stopped"
=============================================================================
