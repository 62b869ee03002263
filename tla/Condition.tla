--------------------------------- MODULE Condition ---------------------------------
(***************************************************************************)
(* kern/condition.c: a condition variable, together with the mutex it is   *)
(* associated with and the monitor that makes it useful: threads put items *)
(* in and take items out, and wait for the condition that there is one, as *)
(* the two threads of test/test_pmap_update_mp.c do with a page, once.     *)
(*                                                                         *)
(* The mutex is the abstract one, which PlainMutex implements; the sleep   *)
(* queue of the condition variable, in a bucket of its own table, is the   *)
(* one of kern/sleepq.c.                                                   *)
(***************************************************************************)
EXTENDS SleepQueue, FiniteSets

CONSTANTS
    Consumer,       \* the threads that take items, and wait for them
    Producer,       \* the threads that put items in, and signal
    Nobody,
    MaxItems        \* bound on the items, so that the state space is finite

Thread == Consumer \cup Producer

ConditionAssumption == Nobody \notin Thread /\ MaxItems \in Nat \ {0}

VARIABLES
    owner,      \* the owner of the mutex, or Nobody
    bucket,     \* the thread holding the spin lock of the condition's bucket
    sq,         \* the sleep queue of the condition variable
    th,         \* the threads, see SleepQueue
    timed,      \* the threads whose wait has a time boundary
    expired,    \* the threads whose last wait returned ETIMEDOUT
    items,      \* the predicate is items > 0
    pc          \* where each thread is

vars == <<owner, bucket, sq, th, timed, expired, items, pc>>

(* The threads inside mutex_lock(): on entry, or at the end of a wait. *)
Locking == {t \in Thread : pc[t] \in {"take", "put", "relock"}}

Mutex == INSTANCE AbstractMutex WITH waiting <- Locking, patient <- Locking

Init ==
    /\ owner = Nobody
    /\ bucket = Nobody
    /\ sq = EmptyQueue
    /\ th = AllRunning
    /\ timed = {}
    /\ expired = {}
    /\ items = 0
    /\ pc = [t \in Thread |-> "idle"]

Goto(t, from, to) == pc[t] = from /\ pc' = [pc EXCEPT ![t] = to]

--------------------------------------------------------------------------------
(* condition_wait() and condition_timedwait(), called with the mutex.      *)

(* Broken: the sleep queue is lent after the unlock. *)
LendUnlocked(t) ==
    /\ Goto(t, "taker", "lent")
    /\ items = 0 /\ t \notin expired
    /\ timed' \in {timed, timed \cup {t}}
    /\ UNCHANGED <<owner, bucket, sq, th, expired, items>>

(* The sleep queue is lent, and its bucket locked, before the unlock. *)
Lend(t) ==
    /\ Goto(t, "taker", "lent")
    /\ items = 0 /\ t \notin expired
    /\ bucket = Nobody
    /\ bucket' = t
    /\ timed' \in {timed, timed \cup {t}}
    /\ UNCHANGED <<owner, sq, th, expired, items>>

UnlockMutex(t) ==
    /\ Goto(t, "lent", "unlocked")
    /\ Mutex!Release(t)
    /\ UNCHANGED <<bucket, sq, th, timed, expired, items>>

Sleep(t) ==
    /\ Goto(t, "unlocked", "asleep")
    /\ sq' = sleepq_add_waiter(sq, t)
    /\ th' = thread_sleep(th, t, t \in timed)
    /\ bucket' = Nobody
    /\ UNCHANGED <<owner, timed, expired, items>>

Timeout(t) ==
    /\ t \in th.armed
    /\ th' = thread_timeout(th, t)
    /\ UNCHANGED <<owner, bucket, sq, timed, expired, items, pc>>

(* The wait is over; the queue is returned, which unlocks the bucket, and  *)
(* the mutex is asked for again.  Woken up for nothing, it sleeps again.   *)
WakeUp(t) ==
    LET q == sleepq_remove_waiter(sq, t) IN
    /\ pc[t] = "asleep"
    /\ t \notin th.asleep
    /\ bucket = Nobody
    /\ IF WaitOver(sq, th, t)
       THEN /\ pc' = [pc EXCEPT ![t] = "relock"]
            /\ sq' = q
            /\ th' = ChainWakeup(q, thread_resume(th, t))
            /\ expired' = IF WaitTimedOut(sq, t) THEN expired \cup {t} ELSE expired
            /\ timed' = timed \ {t}
            /\ Mutex!Request(t)
       ELSE /\ th' = thread_sleep(thread_resume(th, t), t, t \in timed)
            /\ UNCHANGED <<owner, sq, timed, expired, pc>>
    /\ UNCHANGED <<bucket, items>>

RelockMutex(t) ==
    /\ Goto(t, "relock", "taker")
    /\ Mutex!Acquire(t)
    /\ UNCHANGED <<bucket, sq, th, timed, expired, items>>

(* condition_signal(). *)
Signal(t, from, to) ==
    /\ Goto(t, from, to)
    /\ bucket = Nobody
    /\ sq' = sleepq_signal(sq)
    /\ th' = sleepq_signal_wakeup(sq, th)
    /\ UNCHANGED <<owner, bucket, timed, expired, items>>

--------------------------------------------------------------------------------
(* The monitor.                                                            *)

Enter(t) ==
    /\ \/ t \in Consumer /\ Goto(t, "idle", "take")
       \/ t \in Producer /\ Goto(t, "idle", "put")
    /\ Mutex!Request(t)
    /\ UNCHANGED <<bucket, sq, th, timed, expired, items>>

LockMutex(t) ==
    /\ \/ Goto(t, "take", "taker")
       \/ Goto(t, "put", "putter")
    /\ Mutex!Acquire(t)
    /\ UNCHANGED <<bucket, sq, th, timed, expired, items>>

(* The predicate holds, or a timed wait has failed and it still does not. *)
Take(t) ==
    /\ Goto(t, "taker", "idle")
    /\ items > 0 \/ t \in expired
    /\ items' = IF items > 0 THEN items - 1 ELSE items
    /\ expired' = expired \ {t}
    /\ Mutex!Release(t)
    /\ UNCHANGED <<bucket, sq, th, timed>>

Put(t) ==
    /\ Goto(t, "putter", "signal")
    /\ items' = IF items < MaxItems THEN items + 1 ELSE items
    /\ UNCHANGED <<owner, bucket, sq, th, timed, expired>>

(* The condition is signalled with the mutex locked, or once unlocked. *)
SignalLocked(t) == Signal(t, "signal", "leave")

Leave(t) ==
    /\ \/ Goto(t, "leave", "idle")
       \/ Goto(t, "signal", "late")
    /\ Mutex!Release(t)
    /\ UNCHANGED <<bucket, sq, th, timed, expired, items>>

SignalUnlocked(t) == Signal(t, "late", "idle")

--------------------------------------------------------------------------------

Progress(t) ==
    \/ Lend(t) \/ UnlockMutex(t) \/ Sleep(t) \/ WakeUp(t) \/ RelockMutex(t)
    \/ LockMutex(t) \/ Take(t) \/ Put(t) \/ SignalLocked(t) \/ Leave(t)
    \/ SignalUnlocked(t)

Next == \E t \in Thread : Enter(t) \/ Timeout(t) \/ Progress(t)

Spec == Init /\ [][Next]_vars

--------------------------------------------------------------------------------

TypeOK ==
    /\ pc \in [Thread -> {"idle", "take", "put", "taker", "putter", "lent",
                          "unlocked", "asleep", "relock", "signal", "leave",
                          "late"}]
    /\ owner \in {Nobody} \cup
                 {t \in Thread : pc[t] \in {"taker", "putter", "lent", "signal",
                                            "leave"}}
    /\ bucket \in {Nobody} \cup {t \in Thread : pc[t] \in {"lent", "unlocked"}}
    /\ sq \in [fresh : Seq(Thread), woken : Seq(Thread), pending : SUBSET Thread]
    /\ th \in Threads({t \in Thread : pc[t] = "asleep"})
    /\ timed \subseteq {t \in Thread : pc[t] \in {"lent", "unlocked", "asleep"}}
    /\ expired \subseteq {t \in Thread : pc[t] \in {"relock", "taker"}}
    /\ items \in 0..MaxItems

(* The threads that are going to look at the items again, because a signal *)
(* or their own arrival told them to, and those that have yet to signal.   *)
Looking == {t \in Thread : pc[t] \in {"take", "taker", "relock"}} \ expired
Signalling == {t \in Thread : pc[t] \in {"signal", "late"}}

(* No wake-up is missed: if a thread waits for an item and no signal has   *)
(* picked it, every item there is has its taker, either signalled and on   *)
(* its way or about to be signalled.  The wait unlocks the mutex before it *)
(* sleeps, signals may come with or without the mutex, waits may time out  *)
(* when a signal comes, and other threads may take the item first.         *)
NoMissedWakeup ==
    sq.fresh /= <<>> =>
        items <= Cardinality(sq.pending) + Cardinality(Looking)
                 + Cardinality(Signalling)

(* Hence an item a thread waits for does not lie there for ever, as long   *)
(* as some thread inside the monitor goes on, whichever gets the mutex.    *)
Owed == items > 0 /\ sq.fresh /= <<>>
Given == items = 0 \/ sq.fresh = <<>>

(* The monitor uses the mutex as kern/mutex.h demands: only the owner      *)
(* unlocks it, nobody locks it twice, and a wait gives it up and gets it   *)
(* back in between.                                                        *)
MutexInit == Mutex!MInit
MutexStep == [Mutex!MNext]_(Mutex!mvars)
================================================================================
