----------------------------- MODULE MCFoundations -----------------------------
(***************************************************************************)
(* The plain mutex and, while its threads are idle, one of the components  *)
(* that theorems are about: the adaptive mutex, the table of sleep queues, *)
(* the timers, the lists that are read while they change, and the shell.   *)
(* As in MCComponents, they take turns at the variables s1 and so on, in   *)
(* the order in which each declares its own.  MCFoundations_proofs has the *)
(* theorems.                                                               *)
(***************************************************************************)
EXTENDS PlainMutex, TLC

CONSTANTS T1, T2, T3, O1, O2, Stale

VARIABLES
    which,          \* the component that moves
    s1, s2, s3, s4, s5, s6, s7, s8, s9, s10, s11, s12, s13

Words1 == {<<2>>}
Words4 == {<<2>>, <<2, 3>>, <<2, 2>>, <<3>>}

Adaptive == INSTANCE AdaptiveMutex WITH
    Thread <- Thread, Nobody <- Nobody, word <- s1, bucket <- s2, sq <- s3,
    th <- s4, pc <- s5, seen <- s6, timed <- s7, off <- s8

Table == INSTANCE SleepQueueTable_proofs WITH
    Thread <- {T1, T2, T3}, Object <- {O1, O2}, Nobody <- Nobody, lock <- s1,
    bucket <- s2, sync_obj <- s3, next_free <- s4, queue <- s5, priv <- s6,
    cur <- s7, obj <- s8, timed <- s9, pc <- s10, th <- s11, owed <- s12

(* An interrupt timer, a worker timer, and a detached one that its handler *)
(* reschedules, on a wheel of two buckets.                                 *)
Timers == INSTANCE Timer_proofs WITH
    Timer <- {T1, T2, T3}, Intr <- {T1}, Detached <- {T3}, Periodic <- {T3},
    Cpu <- {O1}, Nobody <- Nobody, TableSize <- 2, Delays <- {1, 2}, MaxTime <- 3,
    now <- s1, last_time <- s2, cpu <- s3, state <- s4, ticks <- s5,
    canceled <- s6, expired <- s7, interrupt <- s8, queued <- s9, calls <- s10,
    ends <- s11, user <- s12, asleep <- s13

Singly == INSTANCE ReadLists_proofs WITH
    Slist <- {O1, O2}, Hlist <- {}, Shared <- O1, Node <- {T1, T2, T3},
    Null <- Nobody, Stale <- Stale, link <- s1, last <- s2, pprev <- s3,
    members <- s4, reader <- s5, during <- s6

Hashed == INSTANCE ReadLists_proofs WITH
    Slist <- {}, Hlist <- {O1, O2}, Shared <- O1, Node <- {T1, T2, T3},
    Null <- Nobody, Stale <- Stale, link <- s1, last <- s2, pprev <- s3,
    members <- s4, reader <- s5, during <- s6

Editor == INSTANCE Shell WITH
    Char <- {2, 3}, Sep <- 1, Name <- Words4, LineMax <- 4, HistorySize <- 1,
    MaxArgs <- 2, EscMax <- 3, EscChar <- {"[", "D", "3", "~"},
    Keys <- {"bs", "tab"}, MaxPushes <- 0,
    shell_list <- s1, history <- s2, newest <- s3, oldest <- s4, index <- s5,
    cursor <- s6, escape <- s7, screen <- s8, entered <- s9, argv <- s10,
    phase <- s11

History == INSTANCE Shell WITH
    Char <- {2}, Sep <- 1, Name <- Words1, LineMax <- 3, HistorySize <- 3,
    MaxArgs <- 2, EscMax <- 2, EscChar <- {"[", "A", "B", "3"}, Keys <- {},
    MaxPushes <- 4, shell_list <- s1, history <- s2,
    newest <- s3, oldest <- s4, index <- s5, cursor <- s6, escape <- s7,
    screen <- s8, entered <- s9, argv <- s10, phase <- s11

ASSUME TableAssumption == Table!NobodyAssumption
ASSUME TimersAssumption == Timers!TimerAssumption
ASSUME ListsAssumptions == Singly!ListsAssumption /\ Hashed!ListsAssumption

--------------------------------------------------------------------------------

(* The variables that a component with n of them does not use. *)
Unused(n) ==
    /\ IF n < 1 THEN s1 = Nobody ELSE TRUE
    /\ IF n < 2 THEN s2 = Nobody ELSE TRUE
    /\ IF n < 3 THEN s3 = Nobody ELSE TRUE
    /\ IF n < 4 THEN s4 = Nobody ELSE TRUE
    /\ IF n < 5 THEN s5 = Nobody ELSE TRUE
    /\ IF n < 6 THEN s6 = Nobody ELSE TRUE
    /\ IF n < 8 THEN s7 = Nobody /\ s8 = Nobody ELSE TRUE
    /\ IF n < 9 THEN s9 = Nobody ELSE TRUE
    /\ IF n < 11 THEN s10 = Nobody /\ s11 = Nobody ELSE TRUE
    /\ IF n < 12 THEN s12 = Nobody ELSE TRUE
    /\ IF n < 13 THEN s13 = Nobody ELSE TRUE

Rest(n) ==
    /\ UNCHANGED <<vars, which>>
    /\ IF n < 3 THEN UNCHANGED s3 ELSE TRUE
    /\ IF n < 4 THEN UNCHANGED s4 ELSE TRUE
    /\ IF n < 5 THEN UNCHANGED s5 ELSE TRUE
    /\ IF n < 6 THEN UNCHANGED s6 ELSE TRUE
    /\ IF n < 8 THEN UNCHANGED <<s7, s8>> ELSE TRUE
    /\ IF n < 9 THEN UNCHANGED s9 ELSE TRUE
    /\ IF n < 11 THEN UNCHANGED <<s10, s11>> ELSE TRUE
    /\ IF n < 12 THEN UNCHANGED s12 ELSE TRUE
    /\ IF n < 13 THEN UNCHANGED s13 ELSE TRUE

others == <<which, s1, s2, s3, s4, s5, s6, s7, s8, s9, s10, s11, s12, s13>>
all == <<vars, others>>

AllInit ==
    /\ Init
    /\ \/ which = "mutex" /\ Unused(0)
       \/ which = "adaptive" /\ Adaptive!Init /\ Unused(8)
       \/ which = "table" /\ Table!Init /\ Unused(12)
       \/ which = "timers" /\ Timers!Init /\ Unused(13)
       \/ which = "singly" /\ Singly!Init /\ Unused(6)
       \/ which = "hashed" /\ Hashed!Init /\ Unused(6)
       \/ which = "editor" /\ Editor!Init /\ Unused(11)
       \/ which = "history" /\ History!Init /\ Unused(11)

AllNext ==
    \/ which = "mutex" /\ Next /\ UNCHANGED others
    \/ which = "adaptive" /\ Adaptive!Next /\ Rest(8)
    \/ which = "table" /\ Table!Next /\ Rest(12)
    \/ which = "timers" /\ Timers!Next /\ Rest(13)
    \/ which = "singly" /\ Singly!Next /\ Rest(6)
    \/ which = "hashed" /\ Hashed!Next /\ Rest(6)
    \/ which = "editor" /\ Editor!Next /\ Rest(11)
    \/ which = "history" /\ History!Next /\ Rest(11)

(* That of PlainMutex, of SleepQueueTable, of which T1 is watched, and of  *)
(* the timers that can be canceled: a step of one of them, or of an event  *)
(* with expired timers, can be taken until one is.                         *)
AllFairness ==
    /\ Fairness
    /\ SF_all(which = "table" /\ Table!WakeUp(T1) /\ Rest(12))
    /\ \A t \in {T1, T2, T3} :
           /\ WF_all(which = "table" /\ Table!sleepq_return(t) /\ Rest(12))
           /\ WF_all(which = "table" /\ Table!Timeout(t) /\ Rest(12))
    /\ WF_all(which = "timers" /\ Timers!Process(O1) /\ Rest(13))
    /\ \A t \in {T1, T2} : WF_all(which = "timers" /\ Timers!Progress(t) /\ Rest(13))

AllSpec == AllInit /\ [][AllNext]_all /\ AllFairness

(* What the code gets wrong, alone. *)
TableAlone ==
    /\ Init /\ which = "table" /\ Table!Init /\ Unused(12)
    /\ [][Table!Next /\ Rest(12)]_all

--------------------------------------------------------------------------------

FoundationsTypeOK ==
    /\ which = "adaptive" => Adaptive!TypeOK
    /\ which = "table" => Table!TypeOK
    /\ which = "timers" => Timers!TypeOK
    /\ which = "singly" => Singly!TypeOK
    /\ which = "hashed" => Hashed!TypeOK
    /\ which = "editor" => Editor!TypeOK
    /\ which = "history" => History!TypeOK

(* A thread that sleeps for an adaptive mutex is on its sleep queue, once, *)
(* and not forgotten; and the mutex's word is what its assertions say.     *)
AdaptiveSound ==
    which = "adaptive" =>
        Adaptive!QueueOK /\ Adaptive!NoLostWakeup /\ Adaptive!AssertsHold

(* Both mutexes are the lock of kern/mutex.h: they have one owner at a     *)
(* time, who waited for it or found it free, and only timed calls give up. *)
ImplementsMutexes ==
    /\ ImplementsMutex
    /\ which = "adaptive" => Adaptive!MutexInit
    /\ [][which = "adaptive" => Adaptive!MutexStep]_all

(* Each sleep queue is the queue of one thread, of one object, or on one   *)
(* free list, and nobody gets one back that is dirty; see SleepQueueTable. *)
QueuesConserved == which = "table" => Table!QueuesConserved

(* An object keeps its queue while a thread that uses it has not returned. *)
QueueStays == which = "table" => Table!QueueStays

(* Every sleeper is on the list of its object's queue, once.               *)
WaitersSound == which = "table" => Table!WaitersSound

(* No timer is left behind on the wheel, and none runs early.              *)
OnTime == which = "timers" => Timers!OnTime

(* Each expiration is at one place until it was accounted for.             *)
OneExpiration == which = "timers" => Timers!OneExpiration

(* No handler runs once timer_cancel() has returned, nor will one.         *)
CancelWaits == which = "timers" => Timers!CancelWaits

(* The links of a list that is read while it changes are those of its      *)
(* nodes, and the reader misses none that stays, sees none twice, nor one  *)
(* that was never there.                                                   *)
ReadersSound ==
    /\ which = "singly" => Singly!ListsSound /\ Singly!ReaderSound
    /\ which = "hashed" => Hashed!ListsSound /\ Hashed!ReaderSound


(* The history has the last lines, which browsing and editing leave alone. *)
HistorySound == which = "history" => History!HistorySound

(* A mutex that threads sleep on does not stay free, a thread that a       *)
(* signal chose leaves its wait, and timer_cancel() returns: it does not   *)
(* miss the completion that it sleeps for.  Other threads are like T1; T2  *)
(* is the worker timer.                                                    *)
Owed ==
    \/ which = "mutex" /\ state = "unlocked" /\ waiting /= {}
    \/ which = "table" /\ \E s \in {T1, T2, T3} : T1 \in s5[s].pending
    \/ which = "timers" /\ s12[T2] = "join"

Given ==
    \/ which = "mutex" /\ (state /= "unlocked" \/ waiting = {})
    \/ which = "table" /\ s10[T1] = "lent"
    \/ which = "timers" /\ s12[T2] /= "join"

Completes == Owed ~> Given

(* What the code says of the components that are alone, see there.         *)
BroadcastWakesAll == Table!BroadcastWakesAll
================================================================================
