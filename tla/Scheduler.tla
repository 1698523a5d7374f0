------------------------------ MODULE Scheduler ------------------------------
(***************************************************************************)
(* The schedulers of one server: start and stop of the server, the cron    *)
(* ticks of each scheduler, and the wait for work in progress.             *)
(*                                                                         *)
(* JavaScript runs one callback at a time, so an action goes from one      *)
(* await to the next.  The steps of work() matter here only by its end,    *)
(* which may be late or, for the coin gecko scheduler, may never come.     *)
(***************************************************************************)
EXTENDS Integers, Sequences

CONSTANTS
    Schedulers,  \* the schedulers of the server
    Order,       \* the order in which the server stops and awaits them
    MayHang,     \* those whose work pings api.coingecko.com
    Timeout,     \* the default timeout of waitForStop, "milli seconds"
    Second,      \* milliseconds in a second
    MaxStarts, MaxTime  \* bounds of the starts and of the clock

ASSUME ServerSetup ==
    /\ Order \in Seq(Schedulers) /\ Len(Order) > 0
    /\ \A s \in Schedulers : \E i \in 1..Len(Order) : Order[i] = s
    /\ MayHang \subseteq Schedulers
ASSUME Times == Timeout \in Nat /\ Second \in Nat \ {0}

VARIABLES
    state,      \* ScheduleState
    task,       \* the cron task exists
    isWorking,  \* is_working
    running,    \* calls of work() that go on
    hung,       \* calls of work() that wait for a ping that is never settled
    launching,  \* start() of the server awaits buildTokenInfo
    server,     \* how far stop() of the server is: "up" before it
    at,         \* the position of the scheduler awaited by stop()
    since,      \* when that wait began, in ms
    polled,     \* the wait has looked at the state at this time
    gaveUp,     \* some waitForStop of this stop resolved to false
    early,      \* this stop was called while start() was awaited
    starts,     \* how often the server was started
    now         \* the clock in ms

sched == <<state, task, isWorking, running, hung>>
wait == <<at, since, polled, gaveUp>>
vars == <<sched, launching, server, wait, early, starts, now>>

Init ==
    /\ state = [s \in Schedulers |-> "NONE"]
    /\ task = [s \in Schedulers |-> FALSE]
    /\ isWorking = [s \in Schedulers |-> FALSE]
    /\ running = [s \in Schedulers |-> 0]
    /\ hung = [s \in Schedulers |-> 0]
    /\ launching = TRUE
    /\ server = "up"
    /\ at = 0 /\ since = 0 /\ polled = FALSE /\ gaveUp = FALSE /\ early = FALSE
    /\ starts = 1
    /\ now = 0

(***************************************************************************)
(* The server.                                                             *)
(***************************************************************************)
(* buildTokenInfo is done: start() of each scheduler.  Nothing calls this  *)
(* off when stop() came first; only the exit of the process does.          *)
Started ==
    /\ launching /\ server # "stopped"
    /\ launching' = FALSE
    /\ state' = [s \in Schedulers |-> "RUNNING"]
    /\ isWorking' = [s \in Schedulers |-> FALSE]
    /\ task' = [s \in Schedulers |-> TRUE]
    /\ UNCHANGED <<running, hung, server, wait, early, starts, now>>

(* stop() of each scheduler, and the first waitForStop begins.             *)
Halted_AtOnce(s) == "STOPPED"
Halted(s) == IF isWorking[s] THEN "STOPPING" ELSE "STOPPED"
Stop ==
    /\ server = "up"
    /\ server' = "stopping"
    /\ early' = launching
    /\ state' = [s \in Schedulers |-> Halted(s)]
    /\ at' = 1 /\ since' = now /\ polled' = FALSE /\ gaveUp' = FALSE
    /\ UNCHANGED <<task, isWorking, running, hung, launching, starts, now>>

(* The wait for the present scheduler is over: its cron task is stopped,   *)
(* and the next wait begins, or the server closes its port.                *)
WaitIsOver ==
    /\ task' = [task EXCEPT ![Order[at]] = FALSE]
    /\ at' = at + 1 /\ since' = now /\ polled' = FALSE
    /\ server' = IF at = Len(Order) THEN "closing" ELSE "stopping"

Seconds(ms) == ms \div Second
TimedOut_Never == FALSE
TimedOut == Seconds(now) - Seconds(since) >= Timeout
Poll ==
    /\ server = "stopping"
    /\ \/ /\ state[Order[at]] = "STOPPED"
          /\ WaitIsOver
          /\ UNCHANGED gaveUp
       \/ /\ state[Order[at]] # "STOPPED" /\ TimedOut
          /\ WaitIsOver
          /\ gaveUp' = TRUE
       \/ /\ state[Order[at]] # "STOPPED" /\ ~TimedOut /\ ~polled
          /\ polled' = TRUE
          /\ UNCHANGED <<task, server, at, since, gaveUp>>
    /\ UNCHANGED <<state, isWorking, running, hung, launching, early, starts, now>>

Closed ==
    /\ server = "closing"
    /\ server' = "stopped"
    /\ UNCHANGED <<sched, launching, wait, early, starts, now>>

(* A caller that awaits start() and stop() may start the server again once *)
(* every wait said true.                                                   *)
Restart ==
    /\ server = "stopped" /\ ~gaveUp /\ ~early
    /\ starts < MaxStarts
    /\ starts' = starts + 1
    /\ server' = "up" /\ launching' = TRUE
    /\ UNCHANGED <<sched, wait, early, now>>

(***************************************************************************)
(* A scheduler.                                                            *)
(***************************************************************************)
(* A cron tick: workTask up to its call of work(). *)
CanWork_Stopped(s) == ~isWorking[s]
CanWork(s) == state[s] # "STOPPED" /\ ~isWorking[s]
CronTick(s) ==
    /\ task[s]
    /\ CanWork(s)
    /\ isWorking' = [isWorking EXCEPT ![s] = TRUE]
    /\ running' = [running EXCEPT ![s] = @ + 1]
    /\ UNCHANGED <<state, task, hung, launching, server, wait, early, starts, now>>

(* work() returns or throws: the rest of workTask. *)
AfterWork_KeepsState(s) == state[s]
AfterWork(s) == IF state[s] = "STOPPING" THEN "STOPPED" ELSE state[s]
WorkEnds(s) ==
    /\ running[s] > 0
    /\ running' = [running EXCEPT ![s] = @ - 1]
    /\ isWorking' = [isWorking EXCEPT ![s] = FALSE]
    /\ state' = [state EXCEPT ![s] = AfterWork(s)]
    /\ UNCHANGED <<task, hung, launching, server, wait, early, starts, now>>

(* The ping gets an answer without gecko_says: its promise is neither      *)
(* resolved nor rejected.                                                  *)
PingIsLost(s) ==
    /\ s \in MayHang
    /\ running[s] > 0
    /\ running' = [running EXCEPT ![s] = @ - 1]
    /\ hung' = [hung EXCEPT ![s] = @ + 1]
    /\ UNCHANGED <<state, task, isWorking, launching, server, wait, early, starts, now>>

(* A wait looks at the state again and again (setTimeout): time does not   *)
(* run past a look that is due.                                            *)
Tick ==
    /\ now < MaxTime
    /\ server = "stopping" => polled
    /\ now' = now + 1
    /\ polled' = FALSE
    /\ UNCHANGED <<sched, launching, server, at, since, gaveUp, early, starts>>

Next ==
    \/ Started \/ Stop \/ Poll \/ Closed \/ Restart
    \/ \E s \in Schedulers : CronTick(s) \/ WorkEnds(s) \/ PingIsLost(s)
    \/ Tick

Spec == Init /\ [][Next]_vars

(* The event loop runs every callback that is due, time passes, and a call *)
(* of work() that is not waiting for a lost ping comes to its end.         *)
FairSpec ==
    /\ Spec
    /\ WF_vars(Started) /\ WF_vars(Poll) /\ WF_vars(Closed) /\ WF_vars(Tick)
    /\ \A s \in Schedulers : WF_vars(WorkEnds(s))
=============================================================================
