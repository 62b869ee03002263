-------------------------------- MODULE WorkPool --------------------------------
(***************************************************************************)
(* kern/work.c: deferred works, the pool of worker threads of a processor  *)
(* and the global pool that takes what the processor is late with.         *)
(*                                                                         *)
(* A worker only gives its pool up, which is a lock or disabled            *)
(* preemption, to sleep, to create or join a thread, to run a work or to   *)
(* exit: what it does in between is one step.  An idle pool has one        *)
(* manager, which the producers wake up; other workers sleep as available  *)
(* as long as there is a manager.                                          *)
(***************************************************************************)
EXTENDS Naturals, Sequences, FiniteSets, SequencesExt

CONSTANTS
    Work,       \* the work structures
    MaxThreads, \* pool->max_threads, for each pool
    Spare,      \* WORK_THREADS_SPARE
    None        \* no thread, no work

VARIABLES
    pool,       \* the pools, see EmptyPool; "victim" is a local variable of
                \* each worker, the id it creates a thread for or destroys
    pc,         \* where the worker with each id is, per pool; "none" if there is none
    asleep,     \* the workers in state THREAD_SLEEPING, per pool
    todo        \* the work each worker has popped and not called yet

vars == <<pool, pc, asleep, todo>>

Pool == {"cpu", "global"}
Ids(p) == 0..(MaxThreads[p] - 1)
Id == UNION {Ids(p) : p \in Pool}

EmptyPool == [queue0 |-> <<>>, queue1 |-> <<>>, manager |-> None,
              available |-> <<>>, dead |-> <<>>, used |-> {0},
              victim |-> [i \in Id |-> None]]

Labels == {"none", "new", "available", "manager", "create", "run", "join",
           "joined", "exiting", "exited"}

Queued(p) == ToSet(pool[p].queue0) \cup ToSet(pool[p].queue1)
Pending == UNION {Queued(p) : p \in Pool}
           \cup ({todo[p][i] : p \in Pool, i \in Id} \ {None})

TypeOK ==
    /\ pool \in [Pool -> [queue0 : Seq(Work), queue1 : Seq(Work),
                          manager : Id \cup {None}, available : Seq(Id),
                          dead : Seq(Id), used : SUBSET Id,
                          victim : [Id -> Id \cup {None}]]]
    /\ pc \in [Pool -> [Id -> Labels]]
    /\ asleep \in [Pool -> SUBSET Id]
    /\ todo \in [Pool -> [Id -> Work \cup {None}]]
    /\ pool["global"].queue1 = <<>>
    /\ \A p \in Pool, i \in Id :
        /\ pool[p].manager = i <=> pc[p][i] = "manager"
        /\ i \in ToSet(pool[p].available) <=> pc[p][i] = "available"
        /\ i \in asleep[p] => pc[p][i] \in {"manager", "available"}
        /\ pool[p].victim[i] /= None <=> pc[p][i] \in {"create", "join", "joined"}
        /\ todo[p][i] /= None <=> pc[p][i] = "create"

Init ==
    /\ pool = [p \in Pool |-> EmptyPool]
    /\ pc = [p \in Pool |-> [i \in Id |-> IF i = 0 THEN "new" ELSE "none"]]
    /\ asleep = [p \in Pool |-> {}]
    /\ todo = [p \in Pool |-> [i \in Id |-> None]]

--------------------------------------------------------------------------------
(* The operators on one pool, and the thread they wake up.                 *)

nr_works(P) == Len(P.queue0) + Len(P.queue1)
nr_threads(P) == Cardinality(P.used)

work_pool_pop_work(P) == IF P.queue1 /= <<>> THEN Head(P.queue1) ELSE Head(P.queue0)
Popped(P) == IF P.queue1 /= <<>> THEN [P EXCEPT !.queue1 = Tail(@)]
                                 ELSE [P EXCEPT !.queue0 = Tail(@)]

(* bitmap_find_first_zero() on the ids in use. *)
FreeId(P) == CHOOSE i \in Id \ P.used : \A j \in Id \ P.used : i <= j

(* The threads that sleep once the manager of P, if it has works to do, is *)
(* awake.                                                                  *)
work_pool_wakeup_manager(P, sleeping) ==
    IF nr_works(P) /= 0 THEN sleeping \ {P.manager} ELSE sleeping

--------------------------------------------------------------------------------
(* Producers.                                                              *)

(* work_schedule() or, with several works, work_queue_schedule(): the      *)
(* works go to the pool of the processor.                                  *)
Schedule(works) ==
    LET P == [pool["cpu"] EXCEPT !.queue0 = @ \o works] IN
    /\ ToSet(works) \cap Pending = {}
    /\ pool' = [pool EXCEPT !["cpu"] = P]
    /\ asleep' = [asleep EXCEPT !["cpu"] = work_pool_wakeup_manager(P, @)]
    /\ UNCHANGED <<pc, todo>>

(* The periodic event: the queues of the processor's pool are shifted, and *)
(* what has been there for a whole period goes to the global pool.         *)
work_report_periodic_event ==
    LET C == pool["cpu"]
        P == [C EXCEPT !.queue0 = <<>>, !.queue1 = C.queue0]
        G == [pool["global"] EXCEPT !.queue0 = @ \o C.queue1]
    IN
    /\ pool' = [pool EXCEPT !["cpu"] = P, !["global"] = G]
    /\ asleep' = [asleep EXCEPT !["global"] =
                    IF C.queue1 = <<>> THEN @
                    ELSE work_pool_wakeup_manager(G, @)]
    /\ UNCHANGED <<pc, todo>>

--------------------------------------------------------------------------------
(* work_process(), from a place where the worker i has acquired its pool,  *)
(* whose state has become P, to the next place where it gives it up.       *)

At(p, i, label, P) ==
    /\ pool' = [pool EXCEPT ![p] = P]
    /\ pc' = [pc EXCEPT ![p][i] = label]

Sleeps(p, i, label, P) ==
    /\ At(p, i, label, P)
    /\ asleep' = [asleep EXCEPT ![p] = @ \cup {i}]
    /\ UNCHANGED todo

(* It pops a work and, if others are left, wakes up an available worker or *)
(* else creates one, before it calls the work.                             *)
ProcessWork(p, i, P) ==
    LET Q == Popped(P) IN
    IF nr_works(Q) /= 0 /\ Q.available = <<>> /\ nr_threads(Q) < MaxThreads[p]
    THEN /\ At(p, i, "create", [Q EXCEPT !.used = @ \cup {FreeId(Q)},
                                          !.victim[i] = FreeId(Q)])
         /\ todo' = [todo EXCEPT ![p][i] = work_pool_pop_work(P)]
         /\ UNCHANGED asleep
    ELSE /\ At(p, i, "run", Q)
         /\ asleep' = [asleep EXCEPT ![p] =
                         IF nr_works(Q) /= 0 /\ Q.available /= <<>>
                         THEN @ \ {Head(Q.available)} ELSE @]
         /\ UNCHANGED todo

(* Without works, it exits or becomes the manager. *)
Idle(p, i, P) ==
    IF nr_threads(P) > Spare
    THEN /\ At(p, i, "exiting", [P EXCEPT !.dead = Append(@, i)])
         /\ UNCHANGED <<asleep, todo>>
    ELSE Sleeps(p, i, "manager", [P EXCEPT !.manager = i])

(* Without a manager, it first destroys a worker that exited, if any. *)
Unmanaged(p, i, P) ==
    IF P.dead /= <<>>
    THEN /\ At(p, i, "join", [P EXCEPT !.dead = Tail(@), !.victim[i] = Head(P.dead)])
         /\ UNCHANGED <<asleep, todo>>
    ELSE IF nr_works(P) = 0 THEN Idle(p, i, P) ELSE ProcessWork(p, i, P)

work_process(p, i, P) ==
    IF P.manager /= None
    THEN Sleeps(p, i, "available", [P EXCEPT !.available = Append(@, i)])
    ELSE Unmanaged(p, i, P)

Start(p, i) == pc[p][i] = "new" /\ work_process(p, i, pool[p])

(* A work that was called returns. *)
WorkReturns(p, i) == pc[p][i] = "run" /\ work_process(p, i, pool[p])

WakeAvailable(p, i) ==
    /\ pc[p][i] = "available"
    /\ i \notin asleep[p]
    /\ IF pool[p].manager /= None
       THEN Sleeps(p, i, "available", pool[p])
       ELSE Unmanaged(p, i, [pool[p] EXCEPT
                !.available = SelectSeq(@, LAMBDA j : j /= i)])

(* The works may be gone when the manager runs: it sleeps again. *)
WakeManager(p, i) ==
    /\ pc[p][i] = "manager"
    /\ i \notin asleep[p]
    /\ IF nr_works(pool[p]) = 0
       THEN Sleeps(p, i, "manager", pool[p])
       ELSE ProcessWork(p, i, [pool[p] EXCEPT !.manager = None])

(* work_thread_create() has succeeded or failed, and the work is called. *)
Created(p, i) ==
    LET P == [pool[p] EXCEPT !.victim[i] = None] IN
    /\ pc[p][i] = "create"
    /\ \/ /\ pool' = [pool EXCEPT ![p] = P]
          /\ pc' = [pc EXCEPT ![p][i] = "run", ![p][pool[p].victim[i]] = "new"]
       \/ At(p, i, "run", [P EXCEPT !.used = @ \ {pool[p].victim[i]}])
    /\ todo' = [todo EXCEPT ![p][i] = None]
    /\ UNCHANGED asleep

Exit(p, i) ==
    /\ pc[p][i] = "exiting"
    /\ pc' = [pc EXCEPT ![p][i] = "exited"]
    /\ UNCHANGED <<pool, asleep, todo>>

(* thread_join() returns, and the worker is freed. *)
work_thread_destroy(p, i) ==
    /\ pc[p][i] = "join"
    /\ pc[p][pool[p].victim[i]] = "exited"
    /\ pc' = [pc EXCEPT ![p][i] = "joined", ![p][pool[p].victim[i]] = "none"]
    /\ UNCHANGED <<pool, asleep, todo>>

(* Its id is freed last, under the lock again, before the loop goes on. *)
Joined(p, i) ==
    /\ pc[p][i] = "joined"
    /\ work_process(p, i, [pool[p] EXCEPT !.used = @ \ {pool[p].victim[i]},
                                          !.victim[i] = None])

Progress(p, i) ==
    \/ Start(p, i) \/ WakeAvailable(p, i) \/ WakeManager(p, i)
    \/ WorkReturns(p, i) \/ Created(p, i) \/ Exit(p, i)
    \/ work_thread_destroy(p, i) \/ Joined(p, i)

Next ==
    \/ \E w \in Work : Schedule(<<w>>)
    \/ \E v, w \in Work : v /= w /\ Schedule(<<v, w>>)
    \/ work_report_periodic_event
    \/ \E p \in Pool : \E i \in Ids(p) : Progress(p, i)

Spec == Init /\ [][Next]_vars

--------------------------------------------------------------------------------

(* An id is allocated when it belongs to nobody, not even to a worker that *)
(* is being destroyed: the resources of a pool stay within its bound.      *)
AssertsHold ==
    \A p \in Pool, i \in Id :
        /\ pc[p][i] = "create" => pc[p][pool[p].victim[i]] = "none"
        /\ pc[p][i] \notin {"none"} => i \in pool[p].used

(* A work that was scheduled is called, though producers wake up nobody    *)
(* but a manager, which may be gone, and workers exit meanwhile.           *)
Owed(w) == w \in Pending
Given(w) == w \notin Pending
================================================================================
