------------------------------ MODULE AdaptiveMutex ------------------------------
(***************************************************************************)
(* kern/mutex/mutex_adaptive.c: a mutex whose word holds its owner and a   *)
(* contended mark.  A waiter keeps the bucket of the sleep queue locked    *)
(* and spins as long as the owner it has seen is running on a processor,   *)
(* and sleeps otherwise.                                                   *)
(*                                                                         *)
(* Every access to the word is one atomic operation.  A thread is off its  *)
(* processor when it sleeps, or when the scheduler took it off: the latter *)
(* is followed for the threads that hold or unlock the mutex, and spin     *)
(* locks keep it from the threads that hold the bucket.                    *)
(***************************************************************************)
EXTENDS SleepQueue

CONSTANTS Thread, Nobody

VARIABLES
    word,       \* mutex->owner: the owner and the mark
    bucket,     \* the thread holding the bucket's spin lock, or Nobody
    sq,         \* the sleep queue of the mutex
    th,         \* the threads, see SleepQueue
    pc,         \* where each thread is
    seen,       \* the owner each waiter has read
    timed,      \* the threads whose current call has a time boundary
    off         \* the threads the scheduler took off their processor

vars == <<word, bucket, sq, th, pc, seen, timed, off>>

Word(t, c) == [owner |-> t, contended |-> c]
Unlocked == Word(Nobody, FALSE)
Marked == Word(Nobody, TRUE)

(* The places where a thread holds the bucket's spin lock. *)
Inside == {"mark", "swap", "spin", "look", "won", "failed", "clear", "reset"}

(* The places where a thread owns the mutex, and those where it has to     *)
(* find somebody to give it to.                                            *)
Owning == {"owner", "unlock", "retry"}
Passing == {"check", "signal"}

Labels == {"idle", "lend", "asleep"} \cup Inside \cup Owning \cup Passing

Sleepers == {t \in Thread : pc[t] = "asleep"}

TypeOK ==
    /\ pc \in [Thread -> Labels]
    /\ word \in [owner : Thread \cup {Nobody}, contended : BOOLEAN]
    /\ bucket \in Thread \cup {Nobody}
    /\ \A t \in Thread : bucket = t <=> pc[t] \in Inside
    /\ seen \in [Thread -> Thread \cup {Nobody}]
    /\ \A t \in Thread : seen[t] /= Nobody <=> pc[t] \in {"spin", "look", "asleep"}
    /\ timed \subseteq Thread
    /\ off \subseteq {t \in Thread : pc[t] \in Owning \cup Passing}
    /\ sq \in [fresh : Seq(Sleepers), woken : Seq(Sleepers),
               pending : SUBSET Sleepers]
    /\ th \in [asleep : SUBSET Sleepers, timedout : SUBSET Thread,
               armed : SUBSET Sleepers]

Init ==
    /\ word = Unlocked
    /\ bucket = Nobody
    /\ sq = EmptyQueue
    /\ th = AllRunning
    /\ pc = [t \in Thread |-> "idle"]
    /\ seen = [t \in Thread |-> Nobody]
    /\ timed = {}
    /\ off = {}

(* A step of t, which is on its processor. *)
Goto(t, from, to) ==
    /\ pc[t] = from
    /\ t \notin off
    /\ pc' = [pc EXCEPT ![t] = to]

--------------------------------------------------------------------------------
(* Locking.                                                                *)

LockFast(t) ==
    /\ Goto(t, "idle", "owner")
    /\ word = Unlocked
    /\ word' = Word(t, FALSE)
    /\ UNCHANGED <<bucket, sq, th, seen, timed, off>>

LockSlow(t) ==
    /\ Goto(t, "idle", "lend")
    /\ word /= Unlocked
    /\ timed' \in {timed \ {t}, timed \cup {t}}
    /\ UNCHANGED <<word, bucket, sq, th, seen, off>>

Lend(t) ==
    /\ Goto(t, "lend", "mark")
    /\ bucket = Nobody
    /\ bucket' = t
    /\ UNCHANGED <<word, sq, th, seen, timed, off>>

mutex_adaptive_set_contended(t) ==
    /\ Goto(t, "mark", "swap")
    /\ word' = Word(word.owner, TRUE)
    /\ UNCHANGED <<bucket, sq, th, seen, timed, off>>

(* The compare-and-swap of the outer loop. *)
Swap(t) ==
    /\ Goto(t, "swap", IF word = Marked THEN "won" ELSE "spin")
    /\ word' = IF word = Marked THEN Word(t, TRUE) ELSE word
    /\ seen' = [seen EXCEPT ![t] = IF word = Marked THEN Nobody ELSE word.owner]
    /\ UNCHANGED <<bucket, sq, th, timed, off>>

mutex_adaptive_is_owner(t) ==
    LET same == word.owner = seen[t] IN
    /\ Goto(t, "spin", IF same THEN "look" ELSE "swap")
    /\ seen' = IF same THEN seen ELSE [seen EXCEPT ![t] = Nobody]
    /\ UNCHANGED <<word, bucket, sq, th, timed, off>>

(* thread_is_running(), a read of the owner's run queue without its lock;  *)
(* what the scheduler does with a thread that is not followed may be       *)
(* either.                                                                 *)
MaySeeRunning(u) == u \notin off /\ pc[u] /= "asleep"
MaySeeStopped(u) == u \in off \/ pc[u] \in {"idle", "lend", "asleep"}

Spin(t) ==
    /\ \/ Goto(t, "look", "spin") /\ UNCHANGED seen
       \/ /\ t \in timed
          /\ Goto(t, "look", "failed")
          /\ seen' = [seen EXCEPT ![t] = Nobody]
    /\ MaySeeRunning(seen[t])
    /\ UNCHANGED <<word, bucket, sq, th, timed, off>>

(* sleepq_wait() or sleepq_timedwait(), up to the context switch. *)
Sleep(t) ==
    /\ Goto(t, "look", "asleep")
    /\ MaySeeStopped(seen[t])
    /\ sq' = sleepq_add_waiter(sq, t)
    /\ th' = thread_sleep(th, t, t \in timed)
    /\ bucket' = Nobody
    /\ UNCHANGED <<word, seen, timed, off>>

Timeout(t) ==
    /\ t \in th.armed
    /\ th' = thread_timeout(th, t)
    /\ UNCHANGED <<word, bucket, sq, pc, seen, timed, off>>

(* Back from the context switch, the bucket relocked. *)
WakeUp(t) ==
    LET q == sleepq_remove_waiter(sq, t)
        failed == WaitTimedOut(sq, t)
    IN
    /\ t \notin th.asleep
    /\ bucket = Nobody
    /\ IF WaitOver(sq, th, t)
       THEN /\ Goto(t, "asleep", IF failed THEN "failed" ELSE "spin")
            /\ sq' = q
            /\ th' = ChainWakeup(q, thread_resume(th, t))
            /\ bucket' = t
            /\ seen' = IF failed THEN [seen EXCEPT ![t] = Nobody] ELSE seen
       ELSE /\ Goto(t, "asleep", "asleep")
            /\ th' = thread_sleep(thread_resume(th, t), t, t \in timed)
            /\ UNCHANGED <<sq, bucket, seen>>
    /\ UNCHANGED <<word, timed, off>>

(* The end of a successful slow path, downgrading the word if possible. *)
Won(t) ==
    /\ Goto(t, "won", "owner")
    /\ word' = IF sleepq_empty(sq) THEN Word(t, FALSE) ELSE word
    /\ bucket' = Nobody
    /\ UNCHANGED <<sq, th, seen, timed, off>>

--------------------------------------------------------------------------------
(* After a timeout, the last waiter takes the mark off: from the owner, or *)
(* from a free mutex whose owner is still unlocking it.                    *)

Leave(t, from) ==
    /\ Goto(t, from, "idle")
    /\ bucket' = Nobody
    /\ UNCHANGED <<sq, th, seen, timed, off>>

LeaveMarked(t) == Leave(t, "failed") /\ ~sleepq_empty(sq) /\ UNCHANGED word

Failed(t) ==
    /\ sleepq_empty(sq)
    /\ Goto(t, "failed", IF word.owner = Nobody THEN "reset" ELSE "clear")
    /\ UNCHANGED <<word, bucket, sq, th, seen, timed, off>>

(* The compare-and-swap fails when the owner has just unlocked the mutex;  *)
(* nobody else can have changed the word, whose mark keeps fast paths off. *)
Clear(t) ==
    IF word.owner /= Nobody
    THEN Leave(t, "clear") /\ word' = Word(word.owner, FALSE)
    ELSE /\ Goto(t, "clear", "reset")
         /\ UNCHANGED <<word, bucket, sq, th, seen, timed, off>>

Reset(t) == Leave(t, "reset") /\ word' = Unlocked

--------------------------------------------------------------------------------
(* Unlocking.                                                              *)

(* mutex_unlock(), and unlock_fast() again when the mark was taken off. *)
UnlockFast(t) ==
    \E from \in {"owner", "retry"} :
    /\ Goto(t, from, IF word.contended THEN "unlock" ELSE "idle")
    /\ word' = IF word.contended THEN word ELSE Unlocked
    /\ UNCHANGED <<bucket, sq, th, seen, timed, off>>

(* The compare-and-swap that releases the mutex and leaves the mark. *)
UnlockSlow(t) ==
    /\ Goto(t, "unlock", IF word.contended THEN "check" ELSE "retry")
    /\ word' = IF word.contended THEN Marked ELSE word
    /\ UNCHANGED <<bucket, sq, th, seen, timed, off>>

(* Somebody owns the mutex, or it is not contended any more. *)
Check(t) ==
    /\ Goto(t, "check", IF word = Marked THEN "signal" ELSE "idle")
    /\ UNCHANGED <<word, bucket, sq, th, seen, timed, off>>

(* Broken: the unlocker gives up when the bucket is locked. *)
SignalOnce(t) ==
    /\ IF bucket = Nobody /\ ~sleepq_empty(sq)
       THEN /\ Goto(t, "signal", "idle")
            /\ sq' = sleepq_signal(sq)
            /\ th' = sleepq_signal_wakeup(sq, th)
       ELSE Goto(t, "signal", "idle") /\ UNCHANGED <<sq, th>>
    /\ UNCHANGED <<word, bucket, seen, timed, off>>

(* sleepq_tryacquire() fails when the bucket is locked, by a thread that   *)
(* spins for instance, or when there is no sleep queue.                    *)
Signal(t) ==
    /\ IF bucket = Nobody /\ ~sleepq_empty(sq)
       THEN /\ Goto(t, "signal", "idle")
            /\ sq' = sleepq_signal(sq)
            /\ th' = sleepq_signal_wakeup(sq, th)
       ELSE Goto(t, "signal", "check") /\ UNCHANGED <<sq, th>>
    /\ UNCHANGED <<word, bucket, seen, timed, off>>

--------------------------------------------------------------------------------
(* The scheduler takes the thread off its processor, and puts it back. *)
Preempt(t) ==
    /\ pc[t] \in Owning \cup Passing
    /\ t \notin off
    /\ off' = off \cup {t}
    /\ UNCHANGED <<word, bucket, sq, th, pc, seen, timed>>

Dispatch(t) ==
    /\ t \in off
    /\ off' = off \ {t}
    /\ UNCHANGED <<word, bucket, sq, th, pc, seen, timed>>

Next ==
    \E t \in Thread :
    \/ LockFast(t) \/ LockSlow(t) \/ Lend(t) \/ mutex_adaptive_set_contended(t)
    \/ Swap(t) \/ mutex_adaptive_is_owner(t) \/ Spin(t) \/ Sleep(t)
    \/ Timeout(t) \/ WakeUp(t) \/ Won(t)
    \/ LeaveMarked(t) \/ Failed(t) \/ Clear(t) \/ Reset(t)
    \/ UnlockFast(t) \/ UnlockSlow(t) \/ Check(t) \/ Signal(t)
    \/ Preempt(t) \/ Dispatch(t)

Spec == Init /\ [][Next]_vars

--------------------------------------------------------------------------------

(* The assertions of the slow paths: the mark stays on the word while a    *)
(* waiter holds the bucket, whoever unlocks meanwhile, and the word of a   *)
(* mutex being unlocked is its owner's.                                    *)
AssertsHold ==
    /\ \A t \in Thread : pc[t] \in {"swap", "failed", "clear"} => word.contended
    /\ \A t \in Thread : pc[t] = "reset" => word = Marked
    /\ \A t \in Thread : pc[t] \in Owning => word.owner = t

(* A sleeping waiter that no signal has reached is not forgotten: it finds *)
(* the mark on the word, and either an owner that will have to pass the    *)
(* mutex on, a thread that is doing it, a waiter that was picked before    *)
(* it, or one that is looking at the word with the bucket locked.          *)
NoLostWakeup ==
    sq.fresh /= <<>> =>
        /\ word.contended \/ \E t \in Thread : pc[t] = "mark"
        /\ \/ word.owner /= Nobody
           \/ sq.woken /= <<>>
           \/ \E t \in Thread : pc[t] \in Passing
                                \/ pc[t] \in {"mark", "swap", "spin", "look"}

(* What these rest on.  The sleep queue has its sleepers, each once, as in  *)
(* PlainMutex.                                                             *)
QueueOK ==
    /\ IsInjective(sq.fresh) /\ IsInjective(sq.woken)
    /\ ToSet(sq.fresh) \cap ToSet(sq.woken) = {}
    /\ ToSet(sq.fresh) \cup ToSet(sq.woken) = Sleepers
    /\ ToSet(sq.woken) = sq.pending
    /\ sq.pending \cap th.asleep = {}

(* The word names the thread that has locked the mutex, and is marked as   *)
(* long as somebody sleeps or is past the marking of a slow path; nobody   *)
(* comes to sleep where the last waiter takes the mark off.                *)
WordOK ==
    /\ \A t \in Thread : word.owner = t <=> pc[t] \in Owning \cup {"won"}
    /\ ~word.contended => sleepq_empty(sq)
    /\ \A t \in Thread :
           /\ pc[t] \in Inside \ {"mark"} => word.contended
           /\ pc[t] \in {"clear", "reset"} => sleepq_empty(sq)
           /\ pc[t] = "reset" => word.owner = Nobody

(* Where nobody owns the mutex, someone passes it on to those that sleep,  *)
(* or to one that has seen an owner and is about to sleep.                 *)
PassedOn ==
    (sq.fresh /= <<>> \/ \E t \in Thread : pc[t] = "look") =>
        \/ word.owner /= Nobody
        \/ sq.woken /= <<>>
        \/ \E t \in Thread : pc[t] \in Passing \cup {"mark", "swap", "spin"}

(* Only a call with a time boundary has a timer, and fails.                *)
OnlyTimedCallsFail ==
    \A t \in Thread \ timed :
        /\ pc[t] \notin {"failed", "clear", "reset"}
        /\ t \notin th.armed
        /\ pc[t] = "asleep" => t \in th.asleep \cup sq.pending

(* The mutex as its callers see it. *)
owner == IF \E t \in Thread : pc[t] \in Owning \cup {"won"}
         THEN CHOOSE t \in Thread : pc[t] \in Owning \cup {"won"}
         ELSE Nobody

waiting ==
    {t \in Thread : pc[t] \in ({"lend", "asleep"} \cup Inside) \ {"won"}}

Abs == INSTANCE AbstractMutex WITH patient <- waiting \ timed

(* The adaptive mutex is the mutex of kern/mutex.h, with one owner at a    *)
(* time, though waiters read the owner before they decide what to do.      *)
MutexInit == Abs!MInit
MutexStep == [Abs!MNext]_(Abs!mvars)
================================================================================
