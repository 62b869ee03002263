--------------------------------- MODULE Timer ---------------------------------
(***************************************************************************)
(* kern/timer.c: the timers of the kernel, kept on one timing wheel per    *)
(* processor, which a periodic event turns.  Each timer has one user, the  *)
(* thread that schedules and cancels it; its handler runs from the event's *)
(* interrupt or from a worker thread, and may reschedule it.               *)
(*                                                                         *)
(* The functions that hold the lock of a processor's wheel are one step    *)
(* each: every access to a timer that was scheduled is under that lock.    *)
(* Time is unbounded: the wrap of the 64-bits clock is not modelled.       *)
(***************************************************************************)
EXTENDS Integers, FiniteSets

CONSTANTS
    Timer,
    Intr,           \* the timers with TIMER_INTR
    Detached,       \* the timers with TIMER_DETACHED
    Periodic,       \* the timers rescheduled by their handler
    Cpu,
    Nobody,
    TableSize,      \* TIMER_HTABLE_SIZE
    Delays,         \* the time boundaries, relative to the clock
    MaxTime         \* bound on the clock

(* What the constants have to be.  Delays may be negative, see timer_past. *)
TimerAssumption ==
    /\ Intr \cup Detached \cup Periodic \subseteq Timer
    /\ Nobody \notin Cpu
    /\ TableSize \in Nat \ {0}
    /\ Delays \subseteq Int /\ MaxTime \in Nat

VARIABLES
    now,        \* the global clock
    last_time,  \* per processor, the last tick it has processed
    cpu,        \* per timer, the processor it is bound to, or Nobody
    state,      \* per timer
    ticks,      \* per timer
    canceled,   \* the timers with TIMER_TF_CANCELED
    expired,    \* per processor, the list its event has yet to process
    interrupt,  \* per processor, the timer whose handler it runs, or Nobody
    queued,     \* the timers whose work is queued
    calls,      \* per timer, how many calls of its handler are running
    ends,       \* per timer, how many are left to be accounted for
    user,       \* per timer, where its user is
    asleep      \* the timers whose user sleeps in timer_cancel()

vars == <<now, last_time, cpu, state, ticks, canceled, expired, interrupt,
          queued, calls, ends, user, asleep>>

Init ==
    /\ now = 0
    /\ last_time = [c \in Cpu |-> -1]
    /\ cpu = [tm \in Timer |-> Nobody]
    /\ state = [tm \in Timer |-> "ready"]
    /\ ticks = [tm \in Timer |-> 0]
    /\ canceled = {}
    /\ expired = [c \in Cpu |-> {}]
    /\ interrupt = [c \in Cpu |-> Nobody]
    /\ queued = {}
    /\ calls = [tm \in Timer |-> 0]
    /\ ends = [tm \in Timer |-> 0]
    /\ user = [tm \in Timer |-> "idle"]
    /\ asleep = {}

Plus(f, x, n) == [f EXCEPT ![x] = @ + n]

--------------------------------------------------------------------------------
(* The wheel.                                                              *)

timer_hash(time) == time % TableSize

(* timer_set_time(), timer_cpu_data_add() and timer_set_scheduled().  The  *)
(* check of the time against last_time has no effect: it changes a copy.   *)
Add(tm, c, time) ==
    /\ ticks' = [ticks EXCEPT ![tm] = time]
    /\ cpu' = [cpu EXCEPT ![tm] = c]
    /\ state' = [state EXCEPT ![tm] = "scheduled"]

(* Broken: the timers taken are not removed from the bucket. *)
FilterKeeps(c, index) ==
    {tm \in Timer : /\ state[tm] \in {"scheduled", "running"}
                    /\ cpu[tm] = c
                    /\ timer_hash(ticks[tm]) = index
                    /\ ticks[tm] <= now}

(* The timers in one bucket of a processor's wheel that have occurred. *)
timer_bucket_filter(c, index) ==
    {tm \in Timer : /\ state[tm] = "scheduled"
                    /\ cpu[tm] = c
                    /\ timer_hash(ticks[tm]) = index
                    /\ ticks[tm] <= now}

--------------------------------------------------------------------------------
(* The user of a timer.                                                    *)

(* timer_schedule(), for the first time or after completion. *)
timer_schedule(tm, c, time) ==
    /\ user[tm] = "idle"
    /\ state[tm] \in {"ready", "done"}
    /\ cpu[tm] \in {Nobody, c}
    /\ Add(tm, c, time)
    /\ UNCHANGED <<now, last_time, canceled, expired, interrupt, queued, calls,
                   ends, user, asleep>>

(* Broken: a timer whose handler is on its way counts as canceled. *)
CancelRunning(tm) ==
    /\ tm \notin Detached
    /\ user[tm] = "idle"
    /\ cpu[tm] /= Nobody
    /\ canceled' = canceled \cup {tm}
    /\ state' = [state EXCEPT ![tm] = "ready"]
    /\ user' = [user EXCEPT ![tm] = "canceled"]
    /\ UNCHANGED <<now, last_time, cpu, ticks, expired, interrupt, queued,
                   calls, ends, asleep>>

(* timer_cancel() either takes the timer back from the wheel, or waits for *)
(* its handler: in a loop for an interrupt, asleep for a worker.           *)
timer_cancel(tm) ==
    /\ tm \notin Detached
    /\ user[tm] = "idle"
    /\ cpu[tm] /= Nobody
    /\ canceled' = canceled \cup {tm}
    /\ IF state[tm] \in {"scheduled", "done"}
       THEN /\ state' = [state EXCEPT ![tm] = "ready"]
            /\ user' = [user EXCEPT ![tm] = "canceled"]
            /\ UNCHANGED asleep
       ELSE /\ user' = [user EXCEPT ![tm] = "join"]
            /\ asleep' = IF tm \in Intr THEN asleep ELSE asleep \cup {tm}
            /\ UNCHANGED state
    /\ UNCHANGED <<now, last_time, cpu, ticks, expired, interrupt, queued,
                   calls, ends>>

(* The loop of timer_cancel(), entered again. *)
Join(tm) ==
    /\ user[tm] = "join"
    /\ tm \notin asleep
    /\ IF state[tm] = "done"
       THEN /\ state' = [state EXCEPT ![tm] = "ready"]
            /\ user' = [user EXCEPT ![tm] = "canceled"]
            /\ UNCHANGED asleep
       ELSE /\ asleep' = IF tm \in Intr THEN asleep ELSE asleep \cup {tm}
            /\ UNCHANGED <<state, user>>
    /\ UNCHANGED <<now, last_time, cpu, ticks, canceled, expired, interrupt,
                   queued, calls, ends>>

(* A canceled timer must be initialized again before it is used. *)
timer_init(tm) ==
    /\ user[tm] = "canceled"
    /\ user' = [user EXCEPT ![tm] = "idle"]
    /\ cpu' = [cpu EXCEPT ![tm] = Nobody]
    /\ state' = [state EXCEPT ![tm] = "ready"]
    /\ canceled' = canceled \ {tm}
    /\ UNCHANGED <<now, last_time, ticks, expired, interrupt, queued, calls,
                   ends, asleep>>

--------------------------------------------------------------------------------
(* The periodic event.                                                     *)

Tick ==
    /\ now < MaxTime
    /\ now' = now + 1
    /\ UNCHANGED <<last_time, cpu, state, ticks, canceled, expired, interrupt,
                   queued, calls, ends, user, asleep>>

(* Broken: the walk stops before the current tick. *)
BucketsBefore(c) == {timer_hash(time) : time \in (last_time[c] + 1)..(now - 1)}

(* The buckets an event walks: one for each tick since the last event. *)
Buckets(c) == {timer_hash(time) : time \in (last_time[c] + 1)..now}

(* timer_report_periodic_event(), up to the unlock. *)
timer_report_periodic_event(c) ==
    LET timers == UNION {timer_bucket_filter(c, index) : index \in Buckets(c)}
    IN  /\ expired[c] = {}
        /\ interrupt[c] = Nobody
        /\ last_time[c] /= now
        /\ expired' = [expired EXCEPT ![c] = timers]
        /\ state' = [tm \in Timer |->
                        IF tm \in timers THEN "running" ELSE state[tm]]
        /\ last_time' = [last_time EXCEPT ![c] = now]
        /\ UNCHANGED <<now, cpu, ticks, canceled, interrupt, queued, calls,
                       ends, user, asleep>>

(* One turn of its second loop: the handler is run, or handed to a worker. *)
timer_process(c, tm) ==
    /\ interrupt[c] = Nobody
    /\ tm \in expired[c]
    /\ expired' = [expired EXCEPT ![c] = @ \ {tm}]
    /\ IF tm \in Intr
       THEN /\ interrupt' = [interrupt EXCEPT ![c] = tm]
            /\ calls' = Plus(calls, tm, 1)
            /\ UNCHANGED queued
       ELSE /\ queued' = queued \cup {tm}
            /\ UNCHANGED <<interrupt, calls>>
    /\ UNCHANGED <<now, last_time, cpu, state, ticks, canceled, ends, user,
                   asleep>>

--------------------------------------------------------------------------------
(* timer_run(), which asserts that the timer is running.                   *)

timer_run_work(tm) ==
    /\ tm \in queued
    /\ queued' = queued \ {tm}
    /\ calls' = Plus(calls, tm, 1)
    /\ UNCHANGED <<now, last_time, cpu, state, ticks, canceled, expired,
                   interrupt, ends, user, asleep>>

(* The handler returns; for a detached timer that is the end of it. *)
Leave(tm) ==
    /\ calls' = Plus(calls, tm, -1)
    /\ IF tm \in Detached
       THEN /\ interrupt' = [c \in Cpu |-> IF interrupt[c] = tm THEN Nobody
                                           ELSE interrupt[c]]
            /\ UNCHANGED ends
       ELSE /\ ends' = Plus(ends, tm, 1)
            /\ UNCHANGED interrupt

HandlerReturn(tm) ==
    /\ calls[tm] > 0
    /\ Leave(tm)
    /\ UNCHANGED <<now, last_time, cpu, state, ticks, canceled, expired,
                   queued, user, asleep>>

(* It does so after a call of timer_schedule(), which ignores canceled     *)
(* timers. *)
HandlerSchedule(tm, time) ==
    /\ calls[tm] > 0
    /\ tm \in Periodic
    /\ state[tm] = "running"
    /\ IF tm \in canceled THEN UNCHANGED <<ticks, cpu, state>>
                          ELSE Add(tm, cpu[tm], time)
    /\ Leave(tm)
    /\ UNCHANGED <<now, last_time, canceled, expired, queued, user, asleep>>

(* Broken: the joiner is not woken up. *)
CompleteSilently(tm) ==
    /\ ends[tm] > 0
    /\ ends' = Plus(ends, tm, -1)
    /\ interrupt' = [c \in Cpu |-> IF interrupt[c] = tm THEN Nobody
                                   ELSE interrupt[c]]
    /\ state' = [state EXCEPT ![tm] = "done"]
    /\ UNCHANGED <<now, last_time, cpu, ticks, canceled, expired, queued, calls,
                   user, asleep>>

(* The rest of timer_run(): completion, unless the state says that the     *)
(* timer was rescheduled, and the wake-up of the joiner. *)
Complete(tm) ==
    /\ ends[tm] > 0
    /\ ends' = Plus(ends, tm, -1)
    /\ interrupt' = [c \in Cpu |-> IF interrupt[c] = tm THEN Nobody
                                   ELSE interrupt[c]]
    /\ IF state[tm] = "running"
       THEN /\ state' = [state EXCEPT ![tm] = "done"]
            /\ asleep' = asleep \ {tm}
       ELSE UNCHANGED <<state, asleep>>
    /\ UNCHANGED <<now, last_time, cpu, ticks, canceled, expired, queued, calls,
                   user>>

--------------------------------------------------------------------------------

(* The steps that are taken without anybody asking for them: handlers      *)
(* return, workers run what is queued, a thread that is awake runs, and an *)
(* event goes on to the end of its list. *)
Progress(tm) == Join(tm) \/ timer_run_work(tm) \/ HandlerReturn(tm) \/ Complete(tm)
Process(c) == \E tm \in Timer : timer_process(c, tm)

Next ==
    \/ Tick
    \/ \E c \in Cpu : timer_report_periodic_event(c) \/ Process(c)
    \/ \E tm \in Timer :
        \/ Progress(tm)
        \/ timer_cancel(tm)
        \/ timer_init(tm)
        \/ \E d \in Delays :
            \/ \E c \in Cpu : timer_schedule(tm, c, now + d)
            \/ HandlerSchedule(tm, now + d)

Spec == Init /\ [][Next]_vars

--------------------------------------------------------------------------------

(* The places where an expiration of a timer can be. *)
InFlight(tm) ==
    calls[tm] + ends[tm] + (IF tm \in queued THEN 1 ELSE 0)
        + Cardinality({c \in Cpu : tm \in expired[c]})

TypeOK ==
    /\ now \in 0..MaxTime
    /\ last_time \in [Cpu -> -1..now]
    /\ cpu \in [Timer -> Cpu \cup {Nobody}]
    /\ state \in [Timer -> {"ready", "scheduled", "running", "done"}]
    /\ ticks \in [Timer -> Int]
    /\ expired \in [Cpu -> SUBSET Timer]
    /\ interrupt \in [Cpu -> Intr \cup {Nobody}]
    /\ queued \subseteq Timer \ Intr
    /\ calls \in [Timer -> Nat] /\ ends \in [Timer -> Nat]
    /\ user \in [Timer -> {"idle", "join", "canceled"}]
    /\ canceled = {tm \in Timer : user[tm] /= "idle"}
    /\ asleep \subseteq {tm \in Timer \ Intr : user[tm] = "join"}
    /\ \A tm \in Timer : state[tm] /= "ready" => cpu[tm] /= Nobody

(* The wheel forgets no timer: once a processor has processed a tick, no   *)
(* timer that expires at that tick or before is still on its wheel, though *)
(* events come late and several ticks at once, timers farther away than    *)
(* the wheel is large share its buckets, and handlers reschedule.  Nor     *)
(* does it run one before its time.                                        *)
OnTime ==
    \A tm \in Timer :
        /\ state[tm] = "scheduled" => ticks[tm] > last_time[cpu[tm]]
        /\ state[tm] = "running" => ticks[tm] <= now

(* A timer that expires has its handler called once, and its state says so *)
(* until the call is over: on the event's list, queued, running or about   *)
(* to be accounted for, at one of these places only.  timer_run() asserts  *)
(* as much when it starts, and relies on it when it ends.                  *)
OneExpiration ==
    \A tm \in Timer \ Detached :
        InFlight(tm) = IF state[tm] = "running" THEN 1 ELSE 0

(* kern/timer.h: cancellation waits until the timer function completes.    *)
(* The user may free or reuse the timer when it returns.  That it does     *)
(* return is in Completes of MCFoundations.                                *)
CancelWaits ==
    \A tm \in Timer :
        user[tm] = "canceled" => state[tm] = "ready" /\ InFlight(tm) = 0

(* kern/timer.h: the time of expiration is an absolute time in ticks.  So  *)
(* a processor's event takes every timer whose time has come.              *)
EventTakesAll ==
    [][\A c \in Cpu : timer_report_periodic_event(c) =>
        \A tm \in Timer :
            state[tm] = "scheduled" /\ cpu[tm] = c /\ ticks[tm] <= now
                => state'[tm] = "running"]_vars

(* timer_run() asserts timer_running(timer): a worker that starts to run a *)
(* timer finds it in the state the event left it in.                       *)
RunsWhenRunning ==
    [][\A tm \in Timer : timer_run_work(tm) => state[tm] = "running"]_vars
================================================================================
