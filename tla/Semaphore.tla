--------------------------------- MODULE Semaphore ---------------------------------
(***************************************************************************)
(* kern/semaphore.c: a counting semaphore.  Waiting decrements the value,  *)
(* under the bucket's spin lock of its sleep queue once it had to sleep;   *)
(* posting increments it, and goes through the queue if it was zero.       *)
(*                                                                         *)
(* The loop of semaphore_dec() retries until nothing changed between its   *)
(* load and its compare-and-swap: it is one atomic step.                   *)
(***************************************************************************)
EXTENDS SleepQueue, FiniteSets

CONSTANTS
    Waiter,         \* the threads that wait
    Poster,         \* the threads and interrupt handlers that post
    Nobody,
    InitialValue,   \* as given to semaphore_init()
    MaxValue        \* bound on the value, SEMAPHORE_VALUE_MAX in the code

SemaphoreAssumption ==
    /\ Nobody \notin Waiter \cup Poster
    /\ Waiter \cap Poster = {}
    /\ MaxValue \in Nat /\ InitialValue \in 0..MaxValue

VARIABLES
    value,      \* semaphore->value
    bucket,     \* the thread holding the bucket's spin lock, or Nobody
    sq,         \* the sleep queue of the semaphore
    th,         \* the threads, see SleepQueue
    timed,      \* the waiters whose call has a time boundary
    pc          \* where each thread is

vars == <<value, bucket, sq, th, timed, pc>>

Thread == Waiter \cup Poster

Init ==
    /\ value = InitialValue
    /\ bucket = Nobody
    /\ sq = EmptyQueue
    /\ th = AllRunning
    /\ timed = {}
    /\ pc = [t \in Thread |-> "idle"]

Goto(t, from, to) == pc[t] = from /\ pc' = [pc EXCEPT ![t] = to]

--------------------------------------------------------------------------------
(* Waiting.                                                                *)

(* semaphore_trywait(), and the fast path of the other two. *)
WaitFast(t) ==
    /\ Goto(t, "idle", "got")
    /\ value > 0
    /\ value' = value - 1
    /\ UNCHANGED <<bucket, sq, th, timed>>

WaitSlow(t) ==
    /\ Goto(t, "idle", "lend")
    /\ value = 0
    /\ timed' \in {timed, timed \cup {t}}
    /\ UNCHANGED <<value, bucket, sq, th>>

Lend(t) ==
    /\ Goto(t, "lend", "dec")
    /\ bucket = Nobody
    /\ bucket' = t
    /\ UNCHANGED <<value, sq, th, timed>>

(* One turn of the loop, with the bucket locked. *)
Dec(t) ==
    /\ Goto(t, "dec", IF value = 0 THEN "wait" ELSE "won")
    /\ value' = IF value = 0 THEN 0 ELSE value - 1
    /\ UNCHANGED <<bucket, sq, th, timed>>

Sleep(t) ==
    /\ Goto(t, "wait", "asleep")
    /\ sq' = sleepq_add_waiter(sq, t)
    /\ th' = thread_sleep(th, t, t \in timed)
    /\ bucket' = Nobody
    /\ UNCHANGED <<value, timed>>

Timeout(t) ==
    /\ t \in th.armed
    /\ th' = thread_timeout(th, t)
    /\ UNCHANGED <<value, bucket, sq, timed, pc>>

(* As in PlainMutex; a successful wait is another turn of the loop. *)
WakeUp(t) ==
    LET q == sleepq_remove_waiter(sq, t) IN
    /\ pc[t] = "asleep"
    /\ t \notin th.asleep
    /\ bucket = Nobody
    /\ IF WaitOver(sq, th, t)
       THEN /\ pc' = [pc EXCEPT ![t] = IF WaitTimedOut(sq, t) THEN "failed"
                                                              ELSE "dec"]
            /\ sq' = q
            /\ th' = ChainWakeup(q, thread_resume(th, t))
            /\ bucket' = t
       ELSE /\ th' = thread_sleep(thread_resume(th, t), t, t \in timed)
            /\ UNCHANGED <<pc, sq, bucket>>
    /\ UNCHANGED <<value, timed>>

(* sleepq_return(), at the end of the slow path. *)
WaitReturn(t) ==
    /\ \/ Goto(t, "won", "got")
       \/ Goto(t, "failed", "idle")
    /\ bucket' = Nobody
    /\ timed' = timed \ {t}
    /\ UNCHANGED <<value, sq, th>>

(* The caller is done with what the post told it. *)
Consume(t) ==
    /\ Goto(t, "got", "idle")
    /\ UNCHANGED <<value, bucket, sq, th, timed>>

--------------------------------------------------------------------------------
(* Posting.                                                                *)

Post(t) ==
    /\ Goto(t, "idle", IF value = 0 THEN "signal" ELSE "idle")
    /\ value < MaxValue
    /\ value' = value + 1
    /\ UNCHANGED <<bucket, sq, th, timed>>

PostSlow(t) ==
    /\ Goto(t, "signal", "idle")
    /\ bucket = Nobody
    /\ sq' = sleepq_signal(sq)
    /\ th' = sleepq_signal_wakeup(sq, th)
    /\ UNCHANGED <<value, bucket, timed>>

--------------------------------------------------------------------------------

WaiterProgress(t) ==
    Lend(t) \/ Dec(t) \/ Sleep(t) \/ WakeUp(t) \/ WaitReturn(t) \/ Consume(t)

Next ==
    \/ \E t \in Waiter : WaitFast(t) \/ WaitSlow(t) \/ Timeout(t)
                         \/ WaiterProgress(t)
    \/ \E t \in Poster : Post(t) \/ PostSlow(t)

Spec == Init /\ [][Next]_vars

--------------------------------------------------------------------------------

TypeOK ==
    /\ pc \in [Thread -> {"idle", "lend", "dec", "wait", "asleep", "won",
                          "failed", "got", "signal"}]
    /\ value \in 0..MaxValue
    /\ bucket \in Waiter \cup {Nobody}
    /\ \A t \in Thread :
        bucket = t <=> pc[t] \in {"dec", "wait", "won", "failed"}
    /\ sq \in [fresh : Seq(Waiter), woken : Seq(Waiter), pending : SUBSET Waiter]
    /\ ToSet(Waiters(sq)) = {t \in Thread : pc[t] = "asleep"}
    /\ th \in Threads({t \in Waiter : pc[t] = "asleep"})
    /\ timed \subseteq Waiter

(* semaphore.h: a thread that cannot decrement the value sleeps until the  *)
(* value is incremented.  Hence, once every thread has gone as far as it   *)
(* can, nobody is asleep with a value greater than zero.                   *)
Settled ==
    \A t \in Thread : pc[t] \in {"idle", "got"} \/ t \in th.asleep

NobodyStranded ==
    Settled => value = 0 \/ (\A t \in Waiter : pc[t] /= "asleep")

(* The same while threads run: an incremented value and a waiter no signal *)
(* has picked imply that a signal is on its way, or that a waiter that got *)
(* one has yet to decrement the value.                                     *)
WakeupOnItsWay ==
    value > 0 /\ sq.fresh /= <<>> =>
        \/ sq.woken /= <<>>
        \/ \E t \in Thread : pc[t] \in {"signal", "dec"}

(* A call with a time boundary returns; one without returns if the value   *)
(* is greater than zero.                                                   *)
Owed(t) == pc[t] = "asleep" /\ (t \in timed \/ value > 0)
Given(t) == pc[t] \in {"got", "idle"}
================================================================================
