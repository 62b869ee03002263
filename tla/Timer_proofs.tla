------------------------------ MODULE Timer_proofs ------------------------------
(***************************************************************************)
(* Safety of the timers, for any number of timers and processors, any size *)
(* of the wheel and any delays.  The lemmas without a temporal formula are *)
(* also used through the instance of MCFoundations.                        *)
(***************************************************************************)
EXTENDS Timer, FiniteSetTheorems, TLAPS

LEMMA TypeInit == ASSUME TimerAssumption, Init PROVE TypeOK
BY DEF TimerAssumption, Init, TypeOK

LEMMA TypeStep == ASSUME TimerAssumption, TypeOK, [Next]_vars PROVE TypeOK'
<1> USE DEF TypeOK
<1>1. CASE Tick
  BY <1>1 DEF Tick, TimerAssumption
<1>2. ASSUME NEW c \in Cpu, timer_report_periodic_event(c) PROVE TypeOK'
  <2>1. last_time' \in [Cpu -> -1..now']
    BY <1>2 DEF timer_report_periodic_event
  <2>2. UNION {timer_bucket_filter(c, index) : index \in Buckets(c)}
          \subseteq {tm \in Timer : state[tm] = "scheduled"}
    BY DEF timer_bucket_filter
  <2> QED BY <1>2, <2>1, <2>2 DEF timer_report_periodic_event
<1>3. ASSUME NEW tm \in Timer, Join(tm) PROVE TypeOK'
  BY <1>3 DEF Join
<1>4. ASSUME NEW tm \in Timer, timer_run_work(tm) PROVE TypeOK'
  BY <1>4 DEF timer_run_work, Plus
<1>5. ASSUME NEW tm \in Timer, HandlerReturn(tm) PROVE TypeOK'
  BY <1>5 DEF HandlerReturn, Leave, Plus
<1>6. ASSUME NEW tm \in Timer, Complete(tm) PROVE TypeOK'
  BY <1>6 DEF Complete, Plus
<1>7. ASSUME NEW tm \in Timer, NEW c \in Cpu, timer_process(c, tm) PROVE TypeOK'
  BY <1>7 DEF timer_process, Plus
<1>8. ASSUME NEW tm \in Timer, timer_cancel(tm) PROVE TypeOK'
  BY <1>8 DEF timer_cancel
<1>9. ASSUME NEW tm \in Timer, timer_init(tm) PROVE TypeOK'
  BY <1>9 DEF timer_init
<1>10. ASSUME NEW tm \in Timer, NEW d \in Delays, NEW c \in Cpu,
              timer_schedule(tm, c, now + d)
       PROVE  TypeOK'
  BY <1>10 DEF timer_schedule, Add, TimerAssumption
<1>11. ASSUME NEW tm \in Timer, NEW d \in Delays, HandlerSchedule(tm, now + d)
       PROVE  TypeOK'
  BY <1>11 DEF HandlerSchedule, Add, Leave, Plus, TimerAssumption
<1>12. CASE UNCHANGED vars
  BY <1>12 DEF vars
<1> QED BY <1>1, <1>2, <1>3, <1>4, <1>5, <1>6, <1>7, <1>8, <1>9, <1>10, <1>11,
           <1>12 DEF Next, Progress, Process

(* The data of timer.c keep their types: a timer that was ever scheduled   *)
(* is bound to a processor, which timer_cancel() and the handler rely on,  *)
(* and only a worker timer's user sleeps.                                  *)
THEOREM Typing == TimerAssumption => (Spec => []TypeOK)
<1> SUFFICES ASSUME TimerAssumption PROVE Spec => []TypeOK
  OBVIOUS
<1>1. Init => TypeOK
  BY TypeInit
<1>2. TypeOK /\ [Next]_vars => TypeOK'
  BY TypeStep
<1> QED BY <1>1, <1>2, PTL DEF Spec

--------------------------------------------------------------------------------

LEMMA OnTimeInit == ASSUME Init PROVE OnTime
BY DEF Init, OnTime

LEMMA OnTimeStep ==
    ASSUME Delays \subseteq Nat \ {0}, TypeOK, OnTime, [Next]_vars
    PROVE  OnTime'
<1> USE DEF TypeOK, OnTime
<1>1. CASE Tick
  BY <1>1 DEF Tick
(* The bucket of a timer whose time has come is one of those walked.       *)
<1>2. ASSUME NEW c \in Cpu, timer_report_periodic_event(c) PROVE OnTime'
  <2> DEFINE timers == UNION {timer_bucket_filter(c, index) : index \in Buckets(c)}
  <2>1. ASSUME NEW tm \in Timer, tm \in timers
        PROVE  state[tm] = "scheduled" /\ ticks[tm] <= now
    BY <2>1 DEF timer_bucket_filter
  <2>2. ASSUME NEW tm \in Timer, state[tm] = "scheduled", cpu[tm] = c,
               ticks[tm] <= now
        PROVE  tm \in timers
    <3>1. ticks[tm] \in (last_time[c] + 1)..now
      BY <2>2
    <3>2. timer_hash(ticks[tm]) \in Buckets(c)
      BY <3>1 DEF Buckets
    <3>3. tm \in timer_bucket_filter(c, timer_hash(ticks[tm]))
      BY <2>2 DEF timer_bucket_filter
    <3> QED BY <3>2, <3>3
  <2>3. /\ state' = [tm \in Timer |-> IF tm \in timers THEN "running" ELSE state[tm]]
        /\ last_time' = [last_time EXCEPT ![c] = now]
        /\ UNCHANGED <<now, cpu, ticks>>
    BY <1>2 DEF timer_report_periodic_event
  <2> HIDE DEF timers
  <2> QED BY <2>1, <2>2, <2>3
<1>3. ASSUME NEW tm \in Timer, Progress(tm) PROVE OnTime'
  BY <1>3 DEF Progress, Join, timer_run_work, HandlerReturn, Complete
<1>4. ASSUME NEW tm \in Timer, timer_cancel(tm) \/ timer_init(tm) PROVE OnTime'
  BY <1>4 DEF timer_cancel, timer_init
<1>5. ASSUME NEW tm \in Timer, NEW d \in Delays, NEW c \in Cpu,
             timer_schedule(tm, c, now + d)
      PROVE  OnTime'
  BY <1>5 DEF timer_schedule, Add
<1>6. ASSUME NEW tm \in Timer, NEW d \in Delays, HandlerSchedule(tm, now + d)
      PROVE  OnTime'
  BY <1>6 DEF HandlerSchedule, Add
<1>7. ASSUME NEW c \in Cpu, NEW tm \in Timer, timer_process(c, tm) PROVE OnTime'
  BY <1>7 DEF timer_process
<1>8. CASE UNCHANGED vars
  BY <1>8 DEF vars
<1> QED BY <1>1, <1>2, <1>3, <1>4, <1>5, <1>6, <1>7, <1>8 DEF Next, Process

(* The wheel forgets no timer, nor does it run one early, if it is always  *)
(* scheduled for a tick to come: a timer that is scheduled for the current *)
(* one, or for one that has passed, waits until the wheel comes round.     *)
THEOREM WheelOnTime ==
    TimerAssumption /\ Delays \subseteq Nat \ {0} => (Spec => []OnTime)
<1> SUFFICES ASSUME TimerAssumption, Delays \subseteq Nat \ {0}
             PROVE  Spec => []OnTime
  OBVIOUS
<1>1. Init => OnTime
  BY OnTimeInit
<1>2. TypeOK /\ OnTime /\ [Next]_vars => OnTime'
  BY OnTimeStep
<1> QED BY <1>1, <1>2, Typing, PTL DEF Spec

--------------------------------------------------------------------------------

One(condition) == IF condition THEN 1 ELSE 0

(* What expires is on the list of the processor it is bound to, and where  *)
(* an expiration is, is said without counting.                             *)
Placed ==
    \A tm \in Timer \ Detached :
        /\ \A c \in Cpu : tm \in expired[c] => cpu[tm] = c
        /\ calls[tm] + ends[tm] + One(tm \in queued)
               + One(\E c \in Cpu : tm \in expired[c])
           = One(state[tm] = "running")

(* Nobody cancels a detached timer.                                        *)
Canceling ==
    \A tm \in Timer :
        /\ user[tm] /= "idle" => tm \notin Detached
        /\ user[tm] = "canceled" => state[tm] = "ready"

LEMMA Counted ==
    ASSUME TypeOK, Placed, NEW tm \in Timer \ Detached
    PROVE  InFlight(tm) = One(state[tm] = "running")
<1> DEFINE S == {c \in Cpu : tm \in expired[c]}
<1>1. CASE S = {}
  <2>1. Cardinality(S) = 0
    BY <1>1, FS_EmptySet
  <2> QED BY <1>1, <2>1 DEF TypeOK, Placed, InFlight, One
<1>2. CASE S /= {}
  <2>1. S = {cpu[tm]}
    BY <1>2 DEF Placed
  <2>2. Cardinality(S) = 1
    BY <2>1, FS_Singleton
  <2> QED BY <1>2, <2>2 DEF TypeOK, Placed, InFlight, One
<1> QED BY <1>1, <1>2

LEMMA PlacedInit == ASSUME Init PROVE Placed /\ Canceling
BY DEF Init, Placed, Canceling, One

LEMMA PlacedStep ==
    ASSUME Periodic \subseteq Detached, TypeOK, Placed, Canceling, [Next]_vars
    PROVE  Placed' /\ Canceling'
<1> USE DEF TypeOK, Placed, Canceling, One
<1>1. CASE Tick
  BY <1>1 DEF Tick
<1>2. ASSUME NEW c \in Cpu, timer_report_periodic_event(c) PROVE Placed' /\ Canceling'
  <2> DEFINE timers == UNION {timer_bucket_filter(c, index) : index \in Buckets(c)}
  <2>1. \A tm \in timers : tm \in Timer /\ state[tm] = "scheduled" /\ cpu[tm] = c
    BY DEF timer_bucket_filter
  <2>2. /\ expired[c] = {}
        /\ expired' = [expired EXCEPT ![c] = timers]
        /\ state' = [tm \in Timer |-> IF tm \in timers THEN "running" ELSE state[tm]]
        /\ UNCHANGED <<cpu, queued, calls, ends, user>>
    BY <1>2 DEF timer_report_periodic_event
  <2> HIDE DEF timers
  <2>3. Canceling'
    BY <2>1, <2>2
  <2>4. ASSUME NEW tm \in Timer \ Detached, NEW d \in Cpu, tm \in expired'[d]
        PROVE  cpu'[tm] = d
    BY <2>1, <2>2, <2>4
  <2>5. ASSUME NEW tm \in Timer \ Detached, tm \in timers
        PROVE  (\E d \in Cpu : tm \in expired'[d]) /\ ~\E d \in Cpu : tm \in expired[d]
    BY <2>1, <2>2, <2>5
  <2>6. ASSUME NEW tm \in Timer \ Detached, tm \notin timers
        PROVE  (\E d \in Cpu : tm \in expired'[d]) <=> \E d \in Cpu : tm \in expired[d]
    BY <2>1, <2>2, <2>6
  <2> QED BY <2>1, <2>2, <2>3, <2>4, <2>5, <2>6
<1>3. ASSUME NEW tm \in Timer, Join(tm) PROVE Placed' /\ Canceling'
  BY <1>3 DEF Join
<1>4. ASSUME NEW tm \in Timer, timer_run_work(tm) PROVE Placed' /\ Canceling'
  BY <1>4 DEF timer_run_work, Plus
<1>5. ASSUME NEW tm \in Timer, HandlerReturn(tm) PROVE Placed' /\ Canceling'
  BY <1>5 DEF HandlerReturn, Leave, Plus
<1>6. ASSUME NEW tm \in Timer, Complete(tm) PROVE Placed' /\ Canceling'
  <2>1. /\ ends[tm] > 0
        /\ ends' = [ends EXCEPT ![tm] = ends[tm] - 1]
        /\ IF state[tm] = "running" THEN state' = [state EXCEPT ![tm] = "done"]
                                    ELSE state' = state
        /\ UNCHANGED <<cpu, expired, queued, calls, user>>
    BY <1>6 DEF Complete, Plus
  <2>2. Canceling'
    BY <2>1
  <2>3. ASSUME NEW u \in Timer \ Detached, u /= tm
        PROVE  ends'[u] = ends[u] /\ state'[u] = state[u]
    <3> HIDE DEF Placed, Canceling, One
    <3> QED BY <2>1, <2>3
  <2>4. ASSUME tm \notin Detached
        PROVE  /\ state[tm] = "running" /\ state'[tm] = "done"
               /\ calls'[tm] = 0 /\ ends'[tm] = 0 /\ tm \notin queued'
               /\ ~\E c \in Cpu : tm \in expired'[c]
    <3> DEFINE away == \E c \in Cpu : tm \in expired[c]
    <3>1. /\ calls[tm] \in Nat /\ ends[tm] \in Nat
          /\ calls[tm] + ends[tm] + One(tm \in queued) + One(away)
                = One(state[tm] = "running")
          /\ ends[tm] > 0
      BY <2>1, <2>4
    <3>2. /\ away' <=> away
          /\ queued' = queued /\ calls'[tm] = calls[tm] /\ ends'[tm] = ends[tm] - 1
          /\ state[tm] = "running" => state'[tm] = "done"
      BY <2>1
    <3> HIDE DEF away, TypeOK, Placed, Canceling
    <3>3. /\ state[tm] = "running" /\ ~away /\ tm \notin queued
          /\ calls[tm] = 0 /\ ends[tm] = 1
      BY <3>1
    <3>4. state[tm] = "running" /\ state'[tm] = "done"
      BY <3>2, <3>3
    <3>5. calls'[tm] = 0 /\ ends'[tm] = 0
      BY <3>2, <3>3
    <3> QED BY <3>2, <3>3, <3>4, <3>5 DEF away
  <2>5. ASSUME NEW u \in Timer \ Detached
        PROVE  calls'[u] + ends'[u] + One(u \in queued')
                   + One(\E c \in Cpu : u \in expired'[c])
               = One(state'[u] = "running")
    <3>1. CASE u = tm
      <4> HIDE DEF TypeOK, Placed, Canceling
      <4> QED BY <2>4, <3>1
    <3>2. CASE u /= tm
      BY <2>1, <2>3, <3>2
    <3> QED BY <3>1, <3>2
  <2> QED BY <2>1, <2>2, <2>5
<1>7. ASSUME NEW tm \in Timer, NEW c \in Cpu, timer_process(c, tm)
      PROVE  Placed' /\ Canceling'
  <2>1. /\ tm \in expired[c]
        /\ expired' = [expired EXCEPT ![c] = @ \ {tm}]
        /\ IF tm \in Intr THEN calls' = Plus(calls, tm, 1) /\ queued' = queued
                          ELSE queued' = queued \cup {tm} /\ calls' = calls
        /\ UNCHANGED <<cpu, state, ends, user>>
    BY <1>7 DEF timer_process
  <2>2. Canceling'
    BY <2>1
  <2>3. ASSUME NEW u \in Timer \ Detached, NEW d \in Cpu, u \in expired'[d]
        PROVE  cpu'[u] = d
    BY <2>1, <2>3
  <2>4. ASSUME tm \notin Detached
        PROVE  (\E d \in Cpu : tm \in expired[d]) /\ ~\E d \in Cpu : tm \in expired'[d]
    BY <2>1, <2>4
  <2>5. ASSUME NEW u \in Timer \ Detached, u /= tm
        PROVE  (\E d \in Cpu : u \in expired'[d]) <=> \E d \in Cpu : u \in expired[d]
    BY <2>1, <2>5
  <2> QED BY <2>1, <2>2, <2>3, <2>4, <2>5 DEF Plus
<1>8. ASSUME NEW tm \in Timer, timer_cancel(tm) PROVE Placed' /\ Canceling'
  BY <1>8 DEF timer_cancel
<1>9. ASSUME NEW tm \in Timer, timer_init(tm) PROVE Placed' /\ Canceling'
  BY <1>9 DEF timer_init
<1>10. ASSUME NEW tm \in Timer, NEW d \in Delays, NEW c \in Cpu,
              timer_schedule(tm, c, now + d)
       PROVE  Placed' /\ Canceling'
  BY <1>10 DEF timer_schedule, Add
<1>11. ASSUME NEW tm \in Timer, NEW d \in Delays, HandlerSchedule(tm, now + d)
       PROVE  Placed' /\ Canceling'
  BY <1>11 DEF HandlerSchedule, Add, Leave, Plus
<1>12. CASE UNCHANGED vars
  BY <1>12 DEF vars
<1> QED BY <1>1, <1>2, <1>3, <1>4, <1>5, <1>6, <1>7, <1>8, <1>9, <1>10, <1>11,
           <1>12 DEF Next, Progress, Process

LEMMA PlacedOnce == ASSUME TypeOK, Placed PROVE OneExpiration
BY Counted DEF OneExpiration, One

LEMMA CanceledNowhere == ASSUME TypeOK, Placed, Canceling PROVE CancelWaits
BY Counted DEF CancelWaits, Canceling, One

LEMMA ExpirationsPlaced ==
    TimerAssumption /\ Periodic \subseteq Detached
        => (Spec => [](TypeOK /\ Placed /\ Canceling))
<1> SUFFICES ASSUME TimerAssumption, Periodic \subseteq Detached
             PROVE  Spec => [](TypeOK /\ Placed /\ Canceling)
  OBVIOUS
<1>1. Init => Placed /\ Canceling
  BY PlacedInit
<1>2. TypeOK /\ Placed /\ Canceling /\ [Next]_vars => Placed' /\ Canceling'
  BY PlacedStep
<1> QED BY <1>1, <1>2, Typing, PTL DEF Spec

(* An expiration is at one place until timer_run() has accounted for it,   *)
(* and the state of the timer says that there is one.  That needs handlers *)
(* not to reschedule timers that somebody may join, see RunsWhenRunning.   *)
THEOREM Expirations ==
    TimerAssumption /\ Periodic \subseteq Detached => (Spec => []OneExpiration)
<1>1. TypeOK /\ Placed => OneExpiration
  BY PlacedOnce
<1> QED BY <1>1, ExpirationsPlaced, PTL

(* The function of a timer does not run, nor will it, once timer_cancel()  *)
(* has returned.                                                           *)
THEOREM Cancellation ==
    TimerAssumption /\ Periodic \subseteq Detached => (Spec => []CancelWaits)
<1>1. TypeOK /\ Placed /\ Canceling => CancelWaits
  BY CanceledNowhere
<1> QED BY <1>1, ExpirationsPlaced, PTL
================================================================================
