-------------------------------- MODULE TimedSleep --------------------------------
(***************************************************************************)
(* kern/thread.c: how a thread sleeps and is woken up, step by step: the   *)
(* timer of a timed sleep is armed before, on the wheel of the processor   *)
(* of the thread, and a wake-up has two critical sections.  The interlock  *)
(* protects the event that threads sleep for.  SleepQueue has what other   *)
(* modules make of it.                                                     *)
(***************************************************************************)
EXTENDS SleepQueue

CONSTANTS
    Thread,
    Nobody,
    Waker,          \* another thread, which signals the event
    IntrDisabled    \* sleepers disable interrupts when they take the interlock

VARIABLES
    interlock,      \* its holder
    pc,             \* where each thread is
    timed,          \* the threads whose sleep has a time boundary
    state,          \* thread->state
    wakeup_error,   \* TRUE for ETIMEDOUT
    queued,         \* the threads that are on a run queue
    waking,         \* why a thread was marked as running, until it is queued
    timer,          \* the timer of each sleep
    signalled       \* the threads the event was signalled to

vars == <<interlock, pc, timed, state, wakeup_error, queued, waking, timer, signalled>>

Init ==
    /\ interlock = Nobody
    /\ pc = [t \in Thread |-> "idle"]
    /\ timed = {}
    /\ state = [t \in Thread |-> "running"]
    /\ wakeup_error = [t \in Thread |-> FALSE]
    /\ queued = Thread
    /\ waking = [t \in Thread |-> "none"]
    /\ timer = [t \in Thread |-> "idle"]
    /\ signalled = {}

Goto(t, from, to) == pc[t] = from /\ pc' = [pc EXCEPT ![t] = to]

--------------------------------------------------------------------------------
(* thread_sleep_common() *)

Call(t) ==
    /\ interlock = Nobody
    /\ Goto(t, "idle", "call")
    /\ interlock' = t
    /\ timed' \in {timed \cup {t}, timed \ {t}}
    /\ signalled' = signalled \ {t}
    /\ UNCHANGED <<state, wakeup_error, queued, waking, timer>>

Arm(t) ==
    /\ t \in timed
    /\ Goto(t, "call", "armed")
    /\ timer' = [timer EXCEPT ![t] = "scheduled"]
    /\ UNCHANGED <<interlock, timed, state, wakeup_error, queued, waking, signalled>>

Sleep(t) ==
    /\ Goto(t, IF t \in timed THEN "armed" ELSE "call", "asleep")
    /\ state' = [state EXCEPT ![t] = "sleeping"]
    /\ queued' = queued \ {t}
    /\ interlock' = Nobody
    /\ UNCHANGED <<timed, wakeup_error, waking, timer, signalled>>

(* Switched to again, it cancels the timer, whose handler it waits for. *)
Cancel(t) ==
    /\ t \in queued /\ timer[t] /= "running"
    /\ Goto(t, "asleep", "relock")
    /\ timer' = [timer EXCEPT ![t] = "idle"]
    /\ UNCHANGED <<interlock, timed, state, wakeup_error, queued, waking, signalled>>

(* The caller, which has the interlock again, finds out what has happened, *)
(* and releases it.                                                        *)
Return(t) ==
    /\ interlock = Nobody
    /\ Goto(t, "relock", "idle")
    /\ UNCHANGED <<interlock, timed, state, wakeup_error, queued, waking, timer, signalled>>

--------------------------------------------------------------------------------
(* thread_wakeup_common() *)

Marks(t, why) ==
    /\ state[t] = "sleeping"
    /\ state' = [state EXCEPT ![t] = "running"]
    /\ waking' = [waking EXCEPT ![t] = why]

Ignores(t) == state[t] = "running" /\ UNCHANGED <<state, waking>>

(* Another thread signals the event, and keeps the interlock meanwhile. *)
thread_wakeup_by_signal(t) ==
    /\ interlock = Nobody
    /\ pc[t] \in {"asleep", "relock"} /\ t \notin signalled
    /\ signalled' = signalled \cup {t}
    /\ \/ Marks(t, "signal") /\ interlock' = Waker
       \/ Ignores(t) /\ UNCHANGED interlock
    /\ UNCHANGED <<pc, timed, wakeup_error, queued, timer>>

(* The time of the sleep is reached, and the timer interrupt comes.  Who   *)
(* is about to sleep is the current thread there, which is left alone.     *)
Expire(t) ==
    /\ timer[t] = "scheduled"
    /\ IntrDisabled => pc[t] /= "armed"
    /\ timer' = [timer EXCEPT ![t] = IF pc[t] = "armed" THEN "done" ELSE "running"]
    /\ UNCHANGED <<interlock, pc, timed, state, wakeup_error, queued, waking, signalled>>

thread_timeout_handler(t) ==
    /\ timer[t] = "running" /\ waking[t] /= "timeout"
    /\ \/ Marks(t, "timeout") /\ UNCHANGED timer
       \/ Ignores(t) /\ timer' = [timer EXCEPT ![t] = "done"]
    /\ UNCHANGED <<interlock, pc, timed, wakeup_error, queued, signalled>>

(* The second critical section, on the run queue that was selected. *)
Place(t) ==
    /\ waking[t] /= "none"
    /\ wakeup_error' = [wakeup_error EXCEPT ![t] = waking[t] = "timeout"]
    /\ queued' = queued \cup {t}
    /\ waking' = [waking EXCEPT ![t] = "none"]
    /\ timer' = [timer EXCEPT ![t] = IF waking[t] = "timeout" THEN "done" ELSE @]
    /\ interlock' = IF waking[t] = "signal" THEN Nobody ELSE interlock
    /\ UNCHANGED <<pc, timed, state, signalled>>

Next ==
    \E t \in Thread :
        \/ Call(t) \/ Arm(t) \/ Sleep(t) \/ Cancel(t) \/ Return(t)
        \/ thread_wakeup_by_signal(t) \/ Expire(t) \/ thread_timeout_handler(t)
        \/ Place(t)

Progress(t) ==
    \/ Arm(t) \/ Sleep(t) \/ Cancel(t)
    \/ Expire(t) \/ thread_timeout_handler(t) \/ Place(t)

Spec == Init /\ [][Next]_vars

(* Time passes, the clock interrupts, wake-ups go on, a thread that is on  *)
(* a run queue runs.                                                       *)
FairSpec == Spec /\ \A t \in Thread : WF_vars(Progress(t))

--------------------------------------------------------------------------------

TypeOK ==
    /\ interlock \in Thread \cup {Waker, Nobody}
    /\ pc \in [Thread -> {"idle", "call", "armed", "asleep", "relock"}]
    /\ timed \subseteq Thread /\ queued \subseteq Thread /\ signalled \subseteq Thread
    /\ state \in [Thread -> {"running", "sleeping"}]
    /\ wakeup_error \in [Thread -> BOOLEAN]
    /\ waking \in [Thread -> {"none", "signal", "timeout"}]
    /\ timer \in [Thread -> {"idle", "scheduled", "running", "done"}]

(* A thread that is on a run queue is running, one that sleeps without a   *)
(* time boundary gets no error, a timer is not scheduled twice, and a      *)
(* sleep ends for a reason.                                                *)
AssertsHold ==
    \A t \in Thread :
        /\ t \in queued => state[t] = "running" /\ waking[t] = "none"
        /\ pc[t] = "call" => timer[t] = "idle"
        /\ pc[t] = "relock" =>
               /\ wakeup_error[t] => t \in timed
               /\ wakeup_error[t] \/ t \in signalled

th == [asleep |-> {t \in Thread : state[t] = "sleeping"},
       timedout |-> {t \in Thread : \/ waking[t] = "timeout"
                                    \/ /\ pc[t] \in {"asleep", "relock"}
                                       /\ t \in queued /\ wakeup_error[t]},
       armed |-> {t \in Thread : /\ pc[t] = "asleep"
                                 /\ \/ timer[t] = "scheduled"
                                    \/ timer[t] = "running" /\ waking[t] /= "timeout"}]

(* It sleeps and wakes up as SleepQueue says, where the timer is armed as  *)
(* the thread goes to sleep and a wake-up is one step.                     *)
SleepInit == th = AllRunning
SleepStep ==
    \/ th' = th
    \/ \E t \in Thread :
          \/ t \notin th.asleep /\ \E b \in BOOLEAN : th' = thread_sleep(th, t, b)
          \/ t \notin th.asleep /\ th' = thread_resume(th, t)
          \/ t \in th.asleep /\ th' = thread_wakeup(th, t)
          \/ t \in th.armed /\ th' = thread_timeout(th, t)

(* A timed sleep is over once its time is reached, whoever else wakes the  *)
(* thread up.                                                              *)
Owed(t) == pc[t] = "asleep" /\ t \in timed
Given(t) == pc[t] = "relock"
================================================================================
