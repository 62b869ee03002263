------------------------------ MODULE AbstractMutex ------------------------------
(***************************************************************************)
(* What kern/mutex.h promises, whichever implementation is configured: a   *)
(* lock with one owner, calls that wait for it, timed calls that may give  *)
(* up, and no promise about the order in which waiting threads are served. *)
(***************************************************************************)
CONSTANTS
    Thread,
    Nobody      \* no thread; the modules that use this one assume so

VARIABLES
    owner,      \* the thread that locked the mutex, or Nobody
    waiting,    \* the threads inside mutex_lock() or mutex_timedlock()
    patient     \* those of them whose call has no time boundary

mvars == <<owner, waiting, patient>>

MInit == owner = Nobody /\ waiting = {} /\ patient = {}

(* A call that cannot lock the mutex at once. *)
Request(t) ==
    /\ owner /= t
    /\ t \notin waiting
    /\ waiting' = waiting \cup {t}
    /\ patient' \in {patient, patient \cup {t}}
    /\ UNCHANGED owner

(* A call that returns 0, whether it had to wait or not. *)
Acquire(t) ==
    /\ owner = Nobody
    /\ owner' = t
    /\ waiting' = waiting \ {t}
    /\ patient' = patient \ {t}

(* mutex_timedlock() returning ETIMEDOUT. *)
GiveUp(t) ==
    /\ t \in waiting \ patient
    /\ waiting' = waiting \ {t}
    /\ UNCHANGED <<owner, patient>>

Release(t) ==
    /\ owner = t
    /\ owner' = Nobody
    /\ UNCHANGED <<waiting, patient>>

MNext == \E t \in Thread : Request(t) \/ Acquire(t) \/ GiveUp(t) \/ Release(t)

MSpec == MInit /\ [][MNext]_mvars
================================================================================
