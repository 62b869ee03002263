-------------------------------- MODULE PlainMutex --------------------------------
(***************************************************************************)
(* kern/mutex/mutex_plain.c: a mutex with three states, whose contended    *)
(* paths go through a sleep queue.                                         *)
(*                                                                         *)
(* The state word is changed by single atomic operations, with or without  *)
(* the bucket lock of the sleep queue; everything else is under that lock. *)
(***************************************************************************)
EXTENDS SleepQueue

CONSTANTS Thread, Nobody

ASSUME NobodyAssumption == Nobody \notin Thread

VARIABLES
    state,      \* mutex->state
    bucket,     \* the thread holding the bucket's spin lock, or Nobody
    sq,         \* the sleep queue of the mutex
    th,         \* the threads, see SleepQueue
    pc,         \* where each thread is
    timed       \* the threads whose current call has a time boundary

vars == <<state, bucket, sq, th, pc, timed>>

Labels == {"idle", "lend", "swap", "wait", "asleep", "won", "failed",
           "owner", "unlock"}

Sleepers == {t \in Thread : pc[t] = "asleep"}

(* The places where a thread holds the bucket's spin lock. *)
Inside == {"swap", "wait", "won", "failed"}

(* The waiters, their flags and their timers belong to threads that are in *)
(* sleepq_wait_common(), and the bucket is locked by the one thread that   *)
(* is inside: no path leaves it locked, none goes on without it.           *)
TypeOK ==
    /\ pc \in [Thread -> Labels]
    /\ timed \in SUBSET Thread
    /\ state \in {"unlocked", "locked", "contended"}
    /\ bucket \in Thread \cup {Nobody}
    /\ \A t \in Thread : bucket = t <=> pc[t] \in Inside
    /\ sq \in [fresh : Seq(Sleepers), woken : Seq(Sleepers),
               pending : SUBSET Sleepers]
    /\ th \in [asleep : SUBSET Sleepers, timedout : SUBSET Thread,
               armed : SUBSET Sleepers]

Init ==
    /\ state = "unlocked"
    /\ bucket = Nobody
    /\ sq = EmptyQueue
    /\ th = AllRunning
    /\ pc = [t \in Thread |-> "idle"]
    /\ timed = {}

Goto(t, from, to) == pc[t] = from /\ pc' = [pc EXCEPT ![t] = to]

--------------------------------------------------------------------------------
(* Locking.                                                                *)

(* mutex_trylock(), and the fast path of the other two. *)
LockFast(t) ==
    /\ Goto(t, "idle", "owner")
    /\ state = "unlocked"
    /\ state' = "locked"
    /\ UNCHANGED <<bucket, sq, th, timed>>

(* mutex_lock() or mutex_timedlock() taking the slow path. *)
LockSlow(t) ==
    /\ Goto(t, "idle", "lend")
    /\ state /= "unlocked"
    /\ timed' \in {timed \ {t}, timed \cup {t}}
    /\ UNCHANGED <<state, bucket, sq, th>>

Lend(t) ==
    /\ Goto(t, "lend", "swap")
    /\ bucket = Nobody
    /\ bucket' = t
    /\ UNCHANGED <<state, sq, th, timed>>

(* Broken: whatever is not contended counts as unlocked. *)
SwapTestsContended(t) ==
    /\ Goto(t, "swap", IF state = "contended" THEN "wait" ELSE "won")
    /\ state' = "contended"
    /\ UNCHANGED <<bucket, sq, th, timed>>

(* The thread claims the mutex, and marks it contended while it does. *)
Swap(t) ==
    /\ Goto(t, "swap", IF state = "unlocked" THEN "won" ELSE "wait")
    /\ state' = "contended"
    /\ UNCHANGED <<bucket, sq, th, timed>>

(* sleepq_wait() or sleepq_timedwait(), up to the context switch. *)
Wait(t) ==
    /\ Goto(t, "wait", "asleep")
    /\ sq' = sleepq_add_waiter(sq, t)
    /\ th' = thread_sleep(th, t, t \in timed)
    /\ bucket' = Nobody
    /\ UNCHANGED <<state, timed>>

(* A timed sleep reaches its time boundary. *)
Timeout(t) ==
    /\ t \in th.armed
    /\ th' = thread_timeout(th, t)
    /\ UNCHANGED <<state, bucket, sq, pc, timed>>

(* The sleep is over and the bucket relocked.  The thread sleeps again if  *)
(* nothing happened, else it stops waiting and chains the wake-up.         *)
WakeUp(t) ==
    LET q == sleepq_remove_waiter(sq, t) IN
    /\ pc[t] = "asleep"
    /\ t \notin th.asleep
    /\ bucket = Nobody
    /\ IF WaitOver(sq, th, t)
       THEN /\ pc' = [pc EXCEPT ![t] = IF WaitTimedOut(sq, t) THEN "failed"
                                                              ELSE "swap"]
            /\ sq' = q
            /\ th' = ChainWakeup(q, thread_resume(th, t))
            /\ bucket' = t
       ELSE /\ th' = thread_sleep(thread_resume(th, t), t, t \in timed)
            /\ UNCHANGED <<pc, sq, bucket>>
    /\ UNCHANGED <<state, timed>>

(* Broken: the state is downgraded though others wait. *)
WonAlone(t) ==
    /\ Goto(t, "won", "owner")
    /\ state' = "locked"
    /\ bucket' = Nobody
    /\ UNCHANGED <<sq, th, timed>>

(* The end of a successful slow path, downgrading the state if possible. *)
Won(t) ==
    /\ Goto(t, "won", "owner")
    /\ state' = IF sleepq_empty(sq) THEN "locked" ELSE state
    /\ bucket' = Nobody
    /\ UNCHANGED <<sq, th, timed>>

(* Broken: the state is downgraded by a store, not a compare-and-swap. *)
FailedStores(t) ==
    /\ Goto(t, "failed", "idle")
    /\ state' = IF sleepq_empty(sq) THEN "locked" ELSE state
    /\ bucket' = Nobody
    /\ UNCHANGED <<sq, th, timed>>

(* The end of a timed out one: the downgrade is a compare-and-swap. *)
Failed(t) ==
    /\ Goto(t, "failed", "idle")
    /\ state' = IF sleepq_empty(sq) /\ state = "contended"
                THEN "locked" ELSE state
    /\ bucket' = Nobody
    /\ UNCHANGED <<sq, th, timed>>

--------------------------------------------------------------------------------
(* Unlocking.                                                              *)

UnlockFast(t) ==
    /\ Goto(t, "owner", IF state = "contended" THEN "unlock" ELSE "idle")
    /\ state' = "unlocked"
    /\ UNCHANGED <<bucket, sq, th, timed>>

UnlockSlow(t) ==
    /\ Goto(t, "unlock", "idle")
    /\ bucket = Nobody
    /\ sq' = sleepq_signal(sq)
    /\ th' = sleepq_signal_wakeup(sq, th)
    /\ UNCHANGED <<state, bucket, timed>>

--------------------------------------------------------------------------------

(* The steps a thread takes without being asked to. *)
Progress(t) ==
    \/ Lend(t) \/ Swap(t) \/ Wait(t) \/ WakeUp(t) \/ Won(t) \/ Failed(t)
    \/ UnlockSlow(t)

Next == \E t \in Thread : LockFast(t) \/ LockSlow(t) \/ Timeout(t)
                          \/ UnlockFast(t) \/ Progress(t)

Spec == Init /\ [][Next]_vars

(* Spin locks are queued, so a thread that keeps asking for the bucket     *)
(* gets it; an owner eventually unlocks; time passes.                      *)
Fairness == \A t \in Thread :
    SF_vars(Progress(t)) /\ WF_vars(UnlockFast(t)) /\ WF_vars(Timeout(t))

FairSpec == Spec /\ Fairness

--------------------------------------------------------------------------------

(* The thread that has locked the mutex, as its callers see it. *)
Owns(t) == pc[t] \in {"won", "owner"}

(* Never two owners, and the state word never says free to somebody who    *)
(* has locked the mutex, nor taken when nobody has: the word is what the   *)
(* fast paths trust, and the slow paths change it while they only try.     *)
MutualExclusion ==
    /\ \A t, u \in Thread : Owns(t) /\ Owns(u) => t = u
    /\ (state = "unlocked") <=> (\A t \in Thread : ~Owns(t))

(* The sleep queue of the mutex is sound: every sleeper is on the list    *)
(* once, those a signal picked are those with their flag set, and none of  *)
(* those is still asleep; so no signal is spent twice or on nobody.        *)
QueueOK ==
    /\ IsInjective(sq.fresh) /\ IsInjective(sq.woken)
    /\ ToSet(sq.fresh) \cap ToSet(sq.woken) = {}
    /\ ToSet(sq.fresh) \cup ToSet(sq.woken) = Sleepers
    /\ ToSet(sq.woken) = sq.pending
    /\ sq.pending \cap th.asleep = {}

(* A waiter no signal has reached yet is not forgotten: the mutex is       *)
(* marked contended, so that the owner's unlock will signal the queue, or  *)
(* a thread that will do either is on its way.  It is what the downgrades  *)
(* at the end of the slow paths and the swap of unlock could break.        *)
NoLostWakeup ==
    sq.fresh /= <<>> =>
        \/ state = "contended"
        \/ sq.woken /= <<>>
        \/ \E t \in Thread : pc[t] \in {"swap", "unlock"}

(* mutex_lock() asserts that its slow path brings no error: a call without *)
(* time boundary is not failed by the timer of an earlier timed call.      *)
OnlyTimedCallsFail == \A t \in Thread : pc[t] = "failed" => t \in timed

--------------------------------------------------------------------------------
(* Refinement.                                                             *)

owner == IF \E t \in Thread : Owns(t)
         THEN CHOOSE t \in Thread : Owns(t)
         ELSE Nobody

waiting ==
    {t \in Thread : pc[t] \in {"lend", "swap", "wait", "asleep", "failed"}}

Abs == INSTANCE AbstractMutex WITH patient <- waiting \ timed

(* The mutex is a mutex, as kern/mutex.h tells its callers: each step is   *)
(* one of the abstract lock's, or invisible to them.                       *)
ImplementsMutex == Abs!MSpec

(* A mutex that threads sleep on does not stay free: the wake-up its       *)
(* unlock owes them, or somebody else's lock, comes in the end.            *)
NotLeftFree ==
    (state = "unlocked" /\ waiting /= {}) ~> (state /= "unlocked" \/ waiting = {})
================================================================================
