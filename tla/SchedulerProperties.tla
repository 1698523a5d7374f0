------------------------ MODULE SchedulerProperties -------------------------
(***************************************************************************)
(* What start, stop and the cron ticks promise.                            *)
(***************************************************************************)
EXTENDS Scheduler

TypeOK ==
    /\ state \in [Schedulers -> {"NONE", "RUNNING", "STOPPING", "STOPPED"}]
    /\ task \in [Schedulers -> BOOLEAN]
    /\ isWorking \in [Schedulers -> BOOLEAN]
    /\ running \in [Schedulers -> Nat] /\ hung \in [Schedulers -> Nat]
    /\ launching \in BOOLEAN /\ early \in BOOLEAN
    /\ server \in {"up", "stopping", "closing", "stopped"}
    /\ at \in Nat /\ since \in Nat /\ now \in Nat /\ starts \in Nat
    /\ polled \in BOOLEAN /\ gaveUp \in BOOLEAN

Idle(s) == ~isWorking[s]
Ending == {"stopping", "closing", "stopped"}

(* is_working tells whether work() is going on, and never two calls of     *)
(* work() of one scheduler go on at a time: workTask, start and stop agree *)
(* on it over any number of restarts.                                      *)
OneWorkAtATime == \A s \in Schedulers : running[s] + hung[s] = IF isWorking[s] THEN 1 ELSE 0

(* After a stop whose waits all said true, no work goes on and no cron     *)
(* task is left (stop, waitForStop, workTask), if start() was done before. *)
StoppedIsQuiet ==
    server = "stopped" /\ ~gaveUp /\ ~early => \A s \in Schedulers : Idle(s) /\ running[s] = 0 /\ ~task[s]

(* Once stop() was called no cron tick begins a new work(), although the   *)
(* cron tasks run until the wait for each scheduler is over.               *)
NoWorkBegins == server \in Ending /\ ~early => \A s \in Schedulers : running'[s] <= running[s]
NoWorkBegunAfterStop == [][NoWorkBegins]_vars

(***************************************************************************)
(* The inductive invariant.                                                *)
(***************************************************************************)
(* A stopped scheduler has no work, and a stopping one has; a stop after   *)
(* start() leaves no other state.                                          *)
StateTellsWork ==
    \A s \in Schedulers :
        /\ state[s] = "STOPPED" => Idle(s)
        /\ state[s] = "STOPPING" => ~Idle(s)
        /\ server \in Ending /\ ~early => state[s] \in {"STOPPING", "STOPPED"}
(* The waits that are over ended in STOPPED, unless one of them gave up,   *)
(* and left no cron task.                                                  *)
WaitsAreOver ==
    /\ server = "stopping" => at \in 1..Len(Order)
    /\ server \in {"closing", "stopped"} => at = Len(Order) + 1
    /\ server \in Ending /\ ~early =>
          \A i \in 1..Len(Order) : i < at =>
              ~task[Order[i]] /\ (~gaveUp => state[Order[i]] = "STOPPED")
    /\ launching => \A s \in Schedulers : Idle(s) /\ ~task[s]
    /\ server \in Ending /\ launching => early

IInv == TypeOK /\ OneWorkAtATime /\ StateTellsWork /\ WaitsAreOver
=============================================================================
