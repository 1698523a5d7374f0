-------------------------- MODULE SchedulerProofs ---------------------------
(***************************************************************************)
(* Proofs about the schedulers of a server, for any number of them, any    *)
(* timeout, and any number of restarts.                                    *)
(***************************************************************************)
EXTENDS SchedulerProperties, TLAPS

LEMMA OrderOK ==
    /\ Len(Order) \in Nat /\ Len(Order) > 0
    /\ \A i \in 1..Len(Order) : Order[i] \in Schedulers
  BY ServerSetup

LEMMA InitInv == ASSUME Init PROVE IInv
  <1>1. TypeOK
    BY DEF Init, TypeOK
  <1>2. OneWorkAtATime
    <2> SUFFICES ASSUME NEW s \in Schedulers
                 PROVE  running[s] + hung[s] = IF isWorking[s] THEN 1 ELSE 0
      BY DEF OneWorkAtATime
    <2>1. running[s] = 0 /\ hung[s] = 0
      BY DEF Init
    <2>2. ~isWorking[s]
      BY DEF Init
    <2> QED
      BY <2>1, <2>2
  <1>3. StateTellsWork /\ WaitsAreOver
    BY DEF Init, StateTellsWork, WaitsAreOver, Idle, Ending
  <1> QED
    BY <1>1, <1>2, <1>3 DEF IInv

LEMMA StartedKeeps == ASSUME IInv, Started PROVE IInv'
  <1> USE DEF IInv, Started, wait
  <1>1. TypeOK'
    BY DEF TypeOK
  <1>2. OneWorkAtATime'
    BY DEF TypeOK, OneWorkAtATime, WaitsAreOver, Idle
  <1>3. StateTellsWork' /\ WaitsAreOver'
    BY DEF TypeOK, StateTellsWork, WaitsAreOver, Idle, Ending
  <1> QED
    BY <1>1, <1>2, <1>3

LEMMA StopKeeps == ASSUME IInv, Stop PROVE IInv'
  <1> USE DEF IInv, Stop
  <1>1. TypeOK'
    BY DEF TypeOK, Halted
  <1>2. OneWorkAtATime'
    BY DEF OneWorkAtATime
  <1>3. StateTellsWork'
    BY DEF TypeOK, StateTellsWork, Idle, Ending, Halted
  <1>4. WaitsAreOver'
    <2>1. at' = 1 /\ server' = "stopping" /\ early' = launching /\ UNCHANGED launching
      OBVIOUS
    <2>2. at' \in 1..Len(Order) /\ \A i \in 1..Len(Order) : ~(i < at')
      BY <2>1, OrderOK
    <2>3. launching' => \A s \in Schedulers : Idle(s)' /\ ~task'[s]
      BY DEF WaitsAreOver, Idle
    <2> QED
      BY <2>1, <2>2, <2>3 DEF WaitsAreOver
  <1> QED
    BY <1>1, <1>2, <1>3, <1>4

LEMMA PollKeeps == ASSUME IInv, Poll PROVE IInv'
  <1>0. TypeOK /\ OneWorkAtATime /\ StateTellsWork /\ WaitsAreOver
    BY DEF IInv
  <1>1. /\ server = "stopping" /\ at \in 1..Len(Order)
        /\ UNCHANGED <<state, isWorking, running, hung, launching, early, starts, now>>
    BY <1>0 DEF Poll, WaitsAreOver
  <1>2. OneWorkAtATime'
    BY <1>0, <1>1 DEF OneWorkAtATime
  <1>3. CASE WaitIsOver /\ ((state[Order[at]] = "STOPPED" /\ UNCHANGED gaveUp) \/ gaveUp' = TRUE)
    <2>1. TypeOK'
      <3>1. task' \in [Schedulers -> BOOLEAN]
        BY <1>0, <1>3 DEF TypeOK, WaitIsOver
      <3>2. server' \in {"stopping", "closing"} /\ at' \in Nat /\ since' \in Nat
            /\ polled' \in BOOLEAN
        <4>1. at \in Nat /\ now \in Nat
          BY <1>0 DEF TypeOK
        <4>2. server' \in {"stopping", "closing"} /\ polled' \in BOOLEAN
          BY <1>3 DEF WaitIsOver
        <4>3. at' \in Nat /\ since' \in Nat
          BY <1>3, <4>1 DEF WaitIsOver
        <4> QED
          BY <4>2, <4>3
      <3>3. gaveUp' \in BOOLEAN
        BY <1>0, <1>3 DEF TypeOK
      <3> QED
        BY <1>0, <1>1, <3>1, <3>2, <3>3 DEF TypeOK
    <2>2. StateTellsWork'
      BY <1>0, <1>1, <1>3 DEF StateTellsWork, WaitIsOver, Idle, Ending
    <2>3. server' \in Ending
      BY <1>3 DEF WaitIsOver, Ending
    <2>4. /\ server' = "stopping" => at' \in 1..Len(Order)
          /\ server' \in {"closing", "stopped"} => at' = Len(Order) + 1
      BY <1>0, <1>1, <1>3, OrderOK DEF TypeOK, WaitIsOver
    <2>5. ASSUME NEW i \in 1..Len(Order), i < at', ~early
          PROVE  ~task'[Order[i]] /\ (~gaveUp' => state'[Order[i]] = "STOPPED")
      <3>1. i = at \/ i < at
        <4>1. at' = at + 1
          BY <1>3 DEF WaitIsOver
        <4> QED
          BY <1>1, <2>5, <4>1
      <3>2. Order[i] \in Schedulers /\ Order[at] \in Schedulers
        BY <1>1, OrderOK
      <3>3. i < at => ~task[Order[i]] /\ (~gaveUp => state[Order[i]] = "STOPPED")
        BY <1>0, <1>1, <2>5 DEF WaitsAreOver, Ending
      <3>4. gaveUp => gaveUp'
        BY <1>0, <1>3 DEF TypeOK
      <3>5. task' = [task EXCEPT ![Order[at]] = FALSE]
        BY <1>3 DEF WaitIsOver
      <3> QED
        BY <1>0, <1>1, <1>3, <3>1, <3>2, <3>3, <3>4, <3>5 DEF TypeOK
    <2>6. /\ launching' => \A s \in Schedulers : Idle(s)' /\ ~task'[s]
          /\ server' \in Ending /\ launching' => early'
      BY <1>0, <1>1, <1>3 DEF TypeOK, WaitsAreOver, WaitIsOver, Idle, Ending
    <2> QED
      BY <1>1, <1>2, <2>1, <2>2, <2>3, <2>4, <2>5, <2>6 DEF IInv, WaitsAreOver
  <1>4. CASE polled' = TRUE /\ UNCHANGED <<task, server, at, since, gaveUp>>
    BY <1>0, <1>1, <1>2, <1>4
       DEF IInv, TypeOK, StateTellsWork, WaitsAreOver, Idle, Ending
  <1> QED
    BY <1>3, <1>4 DEF Poll

LEMMA ClosedKeeps == ASSUME IInv, Closed PROVE IInv'
  BY DEF IInv, Closed, sched, wait, TypeOK, OneWorkAtATime, StateTellsWork, WaitsAreOver,
         Idle, Ending

LEMMA RestartKeeps == ASSUME IInv, Restart PROVE IInv'
  <1> USE DEF IInv, Restart, sched, wait
  <1>1. TypeOK' /\ OneWorkAtATime'
    BY DEF TypeOK, OneWorkAtATime
  <1>2. \A s \in Schedulers : state[s] = "STOPPED" /\ ~task[s]
    <2>1. \A i \in 1..Len(Order) : state[Order[i]] = "STOPPED" /\ ~task[Order[i]]
      BY OrderOK DEF TypeOK, WaitsAreOver, Ending
    <2> QED
      BY <2>1, ServerSetup
  <1>3. StateTellsWork' /\ WaitsAreOver'
    BY <1>2 DEF TypeOK, StateTellsWork, WaitsAreOver, Idle, Ending
  <1> QED
    BY <1>1, <1>3

LEMMA CronTickKeeps == ASSUME IInv, NEW s \in Schedulers, CronTick(s) PROVE IInv'
  <1> USE DEF IInv, CronTick, CanWork, wait
  <1>1. TypeOK'
    BY DEF TypeOK
  <1>2. OneWorkAtATime'
    BY DEF TypeOK, OneWorkAtATime
  <1>3. ~launching
    BY DEF WaitsAreOver
  <1>4. StateTellsWork'
    BY DEF TypeOK, StateTellsWork, Idle, Ending
  <1>5. WaitsAreOver'
    BY <1>3 DEF WaitsAreOver, Ending
  <1> QED
    BY <1>1, <1>2, <1>4, <1>5

LEMMA WorkEndsKeeps == ASSUME IInv, NEW s \in Schedulers, WorkEnds(s) PROVE IInv'
  <1> USE DEF IInv, WorkEnds, wait
  <1>1. isWorking[s] /\ running[s] = 1 /\ hung[s] = 0
    <2>1. running[s] \in Nat /\ hung[s] \in Nat /\ running[s] > 0
      BY DEF TypeOK
    <2>2. running[s] + hung[s] = IF isWorking[s] THEN 1 ELSE 0
      BY DEF OneWorkAtATime
    <2> QED
      BY <2>1, <2>2
  <1>2. TypeOK' /\ OneWorkAtATime'
    BY <1>1 DEF TypeOK, OneWorkAtATime, AfterWork
  <1>3. StateTellsWork'
    BY <1>1 DEF TypeOK, StateTellsWork, Idle, Ending, AfterWork
  <1>4. WaitsAreOver'
    BY <1>1, OrderOK DEF TypeOK, StateTellsWork, WaitsAreOver, Idle, Ending, AfterWork
  <1> QED
    BY <1>2, <1>3, <1>4

LEMMA PingIsLostKeeps == ASSUME IInv, NEW s \in Schedulers, PingIsLost(s) PROVE IInv'
  BY DEF IInv, PingIsLost, wait, TypeOK, OneWorkAtATime, StateTellsWork, WaitsAreOver,
         Idle, Ending

LEMMA IdleKeeps == ASSUME IInv, Tick \/ UNCHANGED vars PROVE IInv'
  <1>1. /\ UNCHANGED <<sched, launching, server, at, since, gaveUp, early, starts>>
        /\ now' \in Nat /\ polled' \in BOOLEAN
    <2>1. now \in Nat /\ polled \in BOOLEAN
      BY DEF IInv, TypeOK
    <2>2. CASE Tick
      <3>1. UNCHANGED <<sched, launching, server, at, since, gaveUp, early, starts>>
        BY <2>2 DEF Tick
      <3>2. now' = now + 1 /\ polled' = FALSE
        BY <2>2 DEF Tick
      <3>3. polled' \in BOOLEAN
        BY <3>2
      <3>4. now \in Nat
        BY <2>1
      <3>5. now' \in Nat
        BY <3>2, <3>4
      <3> QED
        BY <3>1, <3>3, <3>5
    <2>3. CASE UNCHANGED vars
      <3>1. UNCHANGED <<sched, launching, server, wait, early, starts, now>>
        BY <2>3 DEF vars
      <3>2. UNCHANGED <<at, since, polled, gaveUp>>
        BY <3>1 DEF wait
      <3> QED
        BY <2>1, <3>1, <3>2
    <2> QED
      BY <2>2, <2>3
  <1>2. TypeOK' /\ OneWorkAtATime'
    BY <1>1 DEF IInv, TypeOK, OneWorkAtATime, sched
  <1>3. StateTellsWork' /\ WaitsAreOver'
    BY <1>1 DEF IInv, StateTellsWork, WaitsAreOver, Idle, Ending, sched
  <1> QED
    BY <1>2, <1>3 DEF IInv

LEMMA StepInv == IInv /\ [Next]_vars => IInv'
  BY StartedKeeps, StopKeeps, PollKeeps, ClosedKeeps, RestartKeeps, CronTickKeeps,
     WorkEndsKeeps, PingIsLostKeeps, IdleKeeps DEF Next

THEOREM Inductive == Spec => []IInv
  BY InitInv, StepInv, PTL DEF Spec

(* Never two calls of work() of one scheduler at a time, and is_working    *)
(* tells whether there is one.                                             *)
THEOREM OneWork == Spec => []OneWorkAtATime
  <1>1. IInv => OneWorkAtATime
    BY DEF IInv
  <1> QED
    BY <1>1, Inductive, PTL

(* A stop whose waits all said true leaves no work and no cron task.       *)
THEOREM Quiet == Spec => []StoppedIsQuiet
  <1>1. IInv => StoppedIsQuiet
    <2> SUFFICES ASSUME IInv, server = "stopped", ~gaveUp, ~early, NEW s \in Schedulers
                 PROVE  Idle(s) /\ running[s] = 0 /\ ~task[s]
      BY DEF StoppedIsQuiet
    <2>1. PICK i \in 1..Len(Order) : Order[i] = s
      BY ServerSetup
    <2>2. state[s] = "STOPPED" /\ ~task[s]
      BY <2>1, OrderOK DEF IInv, WaitsAreOver, Ending
    <2>3. Idle(s)
      BY <2>2 DEF IInv, StateTellsWork
    <2> QED
      BY <2>2, <2>3 DEF IInv, TypeOK, OneWorkAtATime, Idle
  <1> QED
    BY <1>1, Inductive, PTL

(* No cron tick begins work once the server is stopping.                   *)
THEOREM NothingBegins == Spec => NoWorkBegunAfterStop
  <1>1. IInv /\ [Next]_vars => [NoWorkBegins]_vars
    <2> SUFFICES ASSUME IInv, Next, server \in Ending, ~early, NEW s \in Schedulers
                 PROVE  running'[s] <= running[s]
      BY DEF NoWorkBegins
    <2>1. running \in [Schedulers -> Nat]
      BY DEF IInv, TypeOK
    <2>2. ASSUME NEW r \in Schedulers, CronTick(r) PROVE FALSE
      BY <2>2 DEF IInv, StateTellsWork, CronTick, CanWork, Idle
    <2>3. ASSUME NEW r \in Schedulers, WorkEnds(r) \/ PingIsLost(r)
          PROVE  running'[s] <= running[s]
      BY <2>1, <2>3 DEF WorkEnds, PingIsLost
    <2>4. ASSUME Started \/ Stop \/ Poll \/ Closed \/ Restart \/ Tick
          PROVE  running' = running
      BY <2>4 DEF Started, Stop, Poll, Closed, Restart, Tick, sched
    <2> QED
      BY <2>1, <2>2, <2>3, <2>4 DEF Next
  <1> QED
    BY <1>1, Inductive, PTL DEF Spec, NoWorkBegunAfterStop
=============================================================================
