------------------------------ MODULE SleepQueueTable ------------------------------
(***************************************************************************)
(* The table of sleep queues of kern/sleepq.c: the hash buckets, the       *)
(* queues threads lend to them and get back, and the waits and signals of  *)
(* several synchronisation objects that share a bucket.                    *)
(*                                                                         *)
(* A queue is named after the thread it was created for, which may well    *)
(* own another one later on: a thread gets back any free queue.            *)
(***************************************************************************)
EXTENDS SleepQueue, FiniteSets

CONSTANTS Thread, Object, Nobody

NobodyAssumption == Nobody \notin Thread \cup Object

VARIABLES
    lock,       \* the thread holding the bucket's spin lock, or Nobody
    bucket,     \* the queues in the bucket
    sync_obj,   \* per queue, the object it is used by, or Nobody
    next_free,  \* per queue, the free list it heads, first to pop first
    queue,      \* per queue, its waiters, see SleepQueue
    priv,       \* per thread, its priv_sleepq, or Nobody
    cur,        \* per thread, the queue its current call works on
    obj,        \* per thread, the object of that call
    timed,      \* the threads whose call has a time boundary
    pc,         \* where each thread is
    th,         \* the threads, see SleepQueue
    owed        \* history: sleepers a broadcast was meant to wake up

vars == <<lock, bucket, sync_obj, next_free, queue, priv, cur, obj, timed, pc,
          th, owed>>

Init ==
    /\ lock = Nobody
    /\ bucket = {}
    /\ sync_obj = [s \in Thread |-> Nobody]
    /\ next_free = [s \in Thread |-> <<>>]
    /\ queue = [s \in Thread |-> EmptyQueue]
    /\ priv = [t \in Thread |-> t]
    /\ cur = [t \in Thread |-> Nobody]
    /\ obj = [t \in Thread |-> Nobody]
    /\ timed = {}
    /\ pc = [t \in Thread |-> "idle"]
    /\ th = AllRunning
    /\ owed = {}

sleepq_bucket_lookup(o) ==
    IF \E s \in bucket : sync_obj[s] = o
    THEN CHOOSE s \in bucket : sync_obj[s] = o
    ELSE Nobody

Goto(t, from, to) == pc[t] = from /\ pc' = [pc EXCEPT ![t] = to]

(* sleepq_lend(): the thread's own queue is used if the object has none,   *)
(* else it joins the free list of the one the object has.                  *)
sleepq_lend(t, o) ==
    LET mine == priv[t]
        prev == sleepq_bucket_lookup(o)
    IN  /\ Goto(t, "idle", "lent")
        /\ lock = Nobody
        /\ lock' = t
        /\ priv' = [priv EXCEPT ![t] = Nobody]
        /\ obj' = [obj EXCEPT ![t] = o]
        /\ timed' \in {timed \ {t}, timed \cup {t}}
        /\ IF prev = Nobody
           THEN /\ sync_obj' = [sync_obj EXCEPT ![mine] = o]
                /\ bucket' = bucket \cup {mine}
                /\ cur' = [cur EXCEPT ![t] = mine]
                /\ UNCHANGED next_free
           ELSE /\ next_free' = [next_free EXCEPT ![prev] = <<mine>> \o @]
                /\ cur' = [cur EXCEPT ![t] = prev]
                /\ UNCHANGED <<sync_obj, bucket>>
        /\ UNCHANGED <<queue, th, owed>>

(* sleepq_wait_common(), up to the context switch. *)
Sleep(t) ==
    /\ Goto(t, "lent", "asleep")
    /\ queue' = [queue EXCEPT ![cur[t]] = sleepq_add_waiter(@, t)]
    /\ th' = thread_sleep(th, t, t \in timed)
    /\ lock' = Nobody
    /\ UNCHANGED <<bucket, sync_obj, next_free, priv, cur, obj, timed, owed>>

Timeout(t) ==
    /\ t \in th.armed
    /\ th' = thread_timeout(th, t)
    /\ owed' = owed \ {t}
    /\ UNCHANGED <<lock, bucket, sync_obj, next_free, queue, priv, cur, obj,
                   timed, pc>>

(* sleepq_wait_common(), after the switch, with the bucket locked again    *)
(* through the queue the call was given before it slept.                   *)
WakeUp(t) ==
    LET q == sleepq_remove_waiter(queue[cur[t]], t) IN
    /\ pc[t] = "asleep"
    /\ t \notin th.asleep
    /\ lock = Nobody
    /\ IF WaitOver(queue[cur[t]], th, t)
       THEN /\ pc' = [pc EXCEPT ![t] = "lent"]
            /\ queue' = [queue EXCEPT ![cur[t]] = q]
            /\ th' = ChainWakeup(q, thread_resume(th, t))
            /\ lock' = t
            /\ owed' = owed \ (Thread \ th'.asleep)
       ELSE /\ th' = thread_sleep(thread_resume(th, t), t, t \in timed)
            /\ UNCHANGED <<pc, queue, lock, owed>>
    /\ UNCHANGED <<bucket, sync_obj, next_free, priv, cur, obj, timed>>

(* Broken: the queue on the free list is taken, and left there. *)
ReturnKeepsFree(t) ==
    LET s == cur[t] IN
    /\ Goto(t, "lent", "idle")
    /\ IF next_free[s] = <<>>
       THEN /\ bucket' = bucket \ {s}
            /\ sync_obj' = [sync_obj EXCEPT ![s] = Nobody]
            /\ priv' = [priv EXCEPT ![t] = s]
       ELSE /\ priv' = [priv EXCEPT ![t] = Head(next_free[s])]
            /\ UNCHANGED <<bucket, sync_obj>>
    /\ lock' = Nobody
    /\ cur' = [cur EXCEPT ![t] = Nobody]
    /\ obj' = [obj EXCEPT ![t] = Nobody]
    /\ timed' = timed \ {t}
    /\ UNCHANGED <<next_free, queue, th, owed>>

(* Broken: a thread that leaves takes the object's queue, used or not. *)
ReturnTakesQueue(t) ==
    /\ Goto(t, "lent", "idle")
    /\ bucket' = bucket \ {cur[t]}
    /\ sync_obj' = [sync_obj EXCEPT ![cur[t]] = Nobody]
    /\ priv' = [priv EXCEPT ![t] = cur[t]]
    /\ lock' = Nobody
    /\ cur' = [cur EXCEPT ![t] = Nobody]
    /\ obj' = [obj EXCEPT ![t] = Nobody]
    /\ timed' = timed \ {t}
    /\ UNCHANGED <<next_free, queue, th, owed>>

(* sleepq_return(): the last user takes the queue itself back. *)
sleepq_return(t) ==
    LET s == cur[t] IN
    /\ Goto(t, "lent", "idle")
    /\ IF next_free[s] = <<>>
       THEN /\ bucket' = bucket \ {s}
            /\ sync_obj' = [sync_obj EXCEPT ![s] = Nobody]
            /\ priv' = [priv EXCEPT ![t] = s]
            /\ UNCHANGED next_free
       ELSE /\ next_free' = [next_free EXCEPT ![s] = Tail(@)]
            /\ priv' = [priv EXCEPT ![t] = Head(next_free[s])]
            /\ UNCHANGED <<bucket, sync_obj>>
    /\ lock' = Nobody
    /\ cur' = [cur EXCEPT ![t] = Nobody]
    /\ obj' = [obj EXCEPT ![t] = Nobody]
    /\ timed' = timed \ {t}
    /\ UNCHANGED <<queue, th, owed>>

(* sleepq_acquire() or sleepq_tryacquire(), sleepq_signal() and            *)
(* sleepq_release(), by a thread or an interrupt handler.                  *)
Signal(o) ==
    LET s == sleepq_bucket_lookup(o) IN
    /\ lock = Nobody
    /\ s /= Nobody
    /\ queue' = [queue EXCEPT ![s] = sleepq_signal(@)]
    /\ th' = sleepq_signal_wakeup(queue[s], th)
    /\ owed' = owed \ (Thread \ th'.asleep)
    /\ UNCHANGED <<lock, bucket, sync_obj, next_free, priv, cur, obj, timed, pc>>

(* The same with sleepq_broadcast(). *)
Broadcast(o) ==
    LET s == sleepq_bucket_lookup(o) IN
    /\ lock = Nobody
    /\ s /= Nobody
    /\ queue' = [queue EXCEPT ![s] = sleepq_broadcast(@)]
    /\ th' = sleepq_signal_wakeup(queue[s], th)
    /\ owed' = (owed \cup ToSet(Waiters(queue[s]))) \cap th'.asleep
    /\ UNCHANGED <<lock, bucket, sync_obj, next_free, priv, cur, obj, timed, pc>>

Next ==
    \/ \E t \in Thread :
        \/ \E o \in Object : sleepq_lend(t, o)
        \/ Sleep(t) \/ Timeout(t) \/ WakeUp(t) \/ sleepq_return(t)
    \/ \E o \in Object : Signal(o) \/ Broadcast(o)

Spec == Init /\ [][Next]_vars

(* Whoever is awake goes on, and gets the bucket in its turn. *)
FairSpec == Spec /\ \A t \in Thread :
    WF_vars(sleepq_return(t)) /\ SF_vars(WakeUp(t)) /\ WF_vars(Timeout(t))

--------------------------------------------------------------------------------

Users(s) == {t \in Thread : cur[t] = s}

TypeOK ==
    /\ pc \in [Thread -> {"idle", "lent", "asleep"}]
    /\ lock \in {Nobody} \cup {t \in Thread : pc[t] = "lent"}
    /\ bucket \subseteq Thread
    /\ sync_obj \in [Thread -> Object \cup {Nobody}]
    /\ next_free \in [Thread -> Seq(Thread)]
    /\ queue \in [Thread -> [fresh : Seq(Thread), woken : Seq(Thread),
                             pending : SUBSET Thread]]
    /\ priv \in [Thread -> Thread \cup {Nobody}]
    /\ cur \in [Thread -> bucket \cup {Nobody}]
    /\ obj \in [Thread -> Object \cup {Nobody}]
    /\ timed \subseteq Thread
    /\ th \in Threads(Thread)
    /\ th.asleep \cup th.armed \subseteq {t \in Thread : pc[t] = "asleep"}
    /\ owed \subseteq th.asleep

(* The state sleepq_assert_init_state() demands. *)
Pristine(s) ==
    /\ s \notin bucket
    /\ sync_obj[s] = Nobody
    /\ sleepq_empty(queue[s])
    /\ next_free[s] = <<>>

(* No queue is lost, duplicated or given back dirty: each one is either    *)
(* the private queue of one thread, or the one an object uses, or on one   *)
(* free list, and only the second kind has anything in it.  Threads get    *)
(* back each other's queues, so that nothing but the count ties them.      *)
QueuesConserved ==
    \A s \in Thread :
        LET places == {"private"} \X {t \in Thread : priv[t] = s}
                      \cup {"free"} \X {p \in bucket : s \in ToSet(next_free[p])}
                      \cup {"used"} \X (bucket \cap {s})
        IN  /\ Cardinality(places) = 1
            /\ s \notin bucket => Pristine(s)
            /\ IsInjective(next_free[s])
            /\ s \in bucket => Cardinality(Users(s)) = 1 + Len(next_free[s])

(* A call uses the same queue before and after its sleep: as long as it    *)
(* has not returned, its object's queue is neither replaced nor handed to  *)
(* another thread, though threads that came earlier have left with theirs. *)
QueueStays ==
    \A t \in Thread : pc[t] /= "idle" =>
        /\ priv[t] = Nobody
        /\ sleepq_bucket_lookup(obj[t]) = cur[t]

(* Every sleeper is on the list of its object's queue, once, and no other; *)
(* a waiter with a pending wake-up has been woken up, and no waiter older  *)
(* than oldest_waiter can be signalled again.                              *)
WaitersSound ==
    \A s \in Thread :
        LET q == queue[s] IN
        /\ IsInjective(Waiters(q))
        /\ ToSet(Waiters(q)) = {t \in Users(s) : pc[t] = "asleep"}
        /\ q.pending \subseteq ToSet(q.woken) \ th.asleep

(* A thread a signal picked leaves its wait, whatever the others do. *)
SignalledReturns ==
    \A t \in Thread :
        (\E s \in Thread : t \in queue[s].pending) ~> (pc[t] = "lent")

(* kern/sleepq.h: broadcasting a sleep queue wakes up all waiting threads. *)
(* Once every thread that is awake has left the module, none of those is   *)
(* still asleep.                                                           *)
BroadcastWakesAll ==
    (\A t \in Thread : pc[t] = "idle" \/ t \in th.asleep) => owed = {}
================================================================================
