------------------------------- MODULE ThreadExit -------------------------------
(* The end of a thread (src/kern/thread.c): it drops its own reference and *)
(* dies with preemption disabled; whoever drops the last reference lets    *)
(* the joiner through, which polls until the thread is off its processor   *)
(* and destroys it.  A detached thread is joined by a worker thread.       *)
EXTENDS Naturals, FiniteSets

CONSTANTS
    Holder,         \* threads that take references, found through the task
    SameCPU,        \* the joiner runs on the processor of the thread, above it
    Detached,       \* THREAD_DETACHED
    LateLookup,     \* task_lookup_thread() may find a thread that terminated
    None

ExitAssumption == {SameCPU, Detached, LateLookup} \subseteq BOOLEAN

VARIABLES
    nr_refs,        \* references of the thread
    state,          \* "running" or "dead"
    preempt,        \* preemption is enabled in the thread
    on_cpu,         \* the thread is the current one of its processor
    terminating,    \* the last reference is gone
    join_lock,      \* its owner, None when unlocked
    join_waiter,    \* the joiner has left its address
    asleep,         \* the joiner sleeps
    pc,             \* where the thread ("self"), the joiner ("joiner") and
                    \* the holders are
    destroyed

evars == <<nr_refs, state, preempt, on_cpu, terminating, join_lock, join_waiter,
           asleep, pc, destroyed>>

Actor == {"self", "joiner"} \cup Holder

Init ==
    /\ nr_refs = 1 /\ state = "running" /\ preempt = TRUE /\ on_cpu = TRUE
    /\ terminating = FALSE /\ join_lock = None /\ join_waiter = FALSE
    /\ asleep = FALSE /\ destroyed = FALSE
    /\ pc = [a \in Actor |-> "idle"]

Goto(a, p) == pc' = [pc EXCEPT ![a] = p]

(* On one processor the joiner, of a higher priority, runs whenever it is  *)
(* awake and the thread can be preempted, and the thread the rest of time. *)
(* A spin lock disables preemption.                                        *)
Preemptible == preempt /\ join_lock # "self"

JoinerAwake == pc["joiner"] \notin {"idle", "done"} /\ ~asleep

JoinerRuns == ~(SameCPU /\ on_cpu /\ ~Preemptible) /\ ~asleep

SelfRuns == on_cpu /\ ~(SameCPU /\ Preemptible /\ JoinerAwake)

Runs(a) ==
    CASE a = "joiner" -> JoinerRuns
      [] a = "self" -> SelfRuns
      [] OTHER -> TRUE

--------------------------------------------------------------------------------
(* thread_exit(): a detached thread has itself joined by a worker thread.  *)
thread_exit ==
    /\ pc["self"] = "idle" /\ SelfRuns
    /\ Goto("self", "exit")
    /\ UNCHANGED <<nr_refs, state, preempt, on_cpu, terminating, join_lock,
                   join_waiter, asleep, destroyed>>

(* Broken: the thread can be preempted until the scheduler is called. *)
StaysPreemptible ==
    /\ pc["self"] = "exit" /\ SelfRuns
    /\ Goto("self", "unref")
    /\ UNCHANGED <<nr_refs, state, preempt, on_cpu, terminating, join_lock,
                   join_waiter, asleep, destroyed>>

thread_preempt_disable ==
    /\ pc["self"] = "exit" /\ SelfRuns
    /\ preempt' = FALSE
    /\ Goto("self", "unref")
    /\ UNCHANGED <<nr_refs, state, on_cpu, terminating, join_lock, join_waiter,
                   asleep, destroyed>>

(* With thread_ref(): a holder finds the thread in its task,    *)
(* where it stays until thread_destroy().                                  *)
task_lookup_thread(h) ==
    /\ pc[h] = "idle" /\ ~destroyed
    /\ nr_refs > 0 \/ LateLookup
    /\ nr_refs' = nr_refs + 1
    /\ Goto(h, "unref")
    /\ UNCHANGED <<state, preempt, on_cpu, terminating, join_lock, join_waiter,
                   asleep, destroyed>>

(* Where an actor goes on after thread_unref(). *)
After(a) == IF a = "self" THEN "die" ELSE "done"

thread_unref(a) ==
    /\ pc[a] = "unref" /\ Runs(a)
    /\ nr_refs' = nr_refs - 1
    /\ Goto(a, IF nr_refs = 1 THEN "terminate" ELSE After(a))
    /\ UNCHANGED <<state, preempt, on_cpu, terminating, join_lock, join_waiter,
                   asleep, destroyed>>

(* thread_terminate() with its lock, then the unlocking that ends it. *)
thread_terminate(a) ==
    /\ pc[a] = "terminate" /\ Runs(a) /\ join_lock = None
    /\ join_lock' = a
    /\ terminating' = TRUE
    /\ asleep' = (asleep /\ ~join_waiter)
    /\ Goto(a, "unlock")
    /\ UNCHANGED <<nr_refs, state, preempt, on_cpu, join_waiter, destroyed>>

Unlock(a) ==
    /\ pc[a] = "unlock" /\ Runs(a)
    /\ join_lock' = None
    /\ Goto(a, After(a))
    /\ UNCHANGED <<nr_refs, state, preempt, on_cpu, terminating, join_waiter,
                   asleep, destroyed>>

(* thread_exit(), its run queue locked, until the thread is switched out:  *)
(* the next thread unlocks the run queue.                                  *)
Die ==
    /\ pc["self"] = "die" /\ SelfRuns
    /\ state' = "dead"
    /\ Goto("self", "switch")
    /\ UNCHANGED <<nr_refs, preempt, on_cpu, terminating, join_lock, join_waiter,
                   asleep, destroyed>>

Switch ==
    /\ pc["self"] = "switch"
    /\ on_cpu' = FALSE
    /\ Goto("self", "done")
    /\ UNCHANGED <<nr_refs, state, preempt, terminating, join_lock, join_waiter,
                   asleep, destroyed>>

--------------------------------------------------------------------------------
(* thread_join_common(), from the start or from its wake-up: it sleeps     *)
(* until the thread is terminating.                                        *)
thread_join ==
    /\ pc["joiner"] = "idle"
    /\ Detached => pc["self"] # "idle"
    /\ Goto("joiner", "lock")
    /\ UNCHANGED <<nr_refs, state, preempt, on_cpu, terminating, join_lock,
                   join_waiter, asleep, destroyed>>

thread_join_common ==
    /\ pc["joiner"] = "lock" /\ JoinerRuns /\ join_lock = None
    /\ join_waiter' = TRUE
    /\ asleep' = ~terminating
    /\ Goto("joiner", IF terminating THEN "poll" ELSE "lock")
    /\ UNCHANGED <<nr_refs, state, preempt, on_cpu, terminating, join_lock,
                   destroyed>>

(* The state is read with the run queue of the thread locked, which it is  *)
(* from the time the thread dies until it is switched out.                 *)
Poll ==
    /\ pc["joiner"] = "poll" /\ JoinerRuns
    /\ pc["self"] # "switch"
    /\ Goto("joiner", IF state = "dead" THEN "destroy" ELSE "poll")
    /\ UNCHANGED <<nr_refs, state, preempt, on_cpu, terminating, join_lock,
                   join_waiter, asleep, destroyed>>

thread_destroy ==
    /\ pc["joiner"] = "destroy" /\ JoinerRuns
    /\ destroyed' = TRUE
    /\ Goto("joiner", "done")
    /\ UNCHANGED <<nr_refs, state, preempt, on_cpu, terminating, join_lock,
                   join_waiter, asleep>>

(* thread_init(), for another thread in the same memory. *)
thread_create ==
    /\ destroyed /\ \A a \in Actor : pc[a] \in {"idle", "done"}
    /\ nr_refs' = 1 /\ state' = "running" /\ preempt' = TRUE /\ on_cpu' = TRUE
    /\ terminating' = FALSE /\ join_lock' = None /\ join_waiter' = FALSE
    /\ asleep' = FALSE /\ destroyed' = FALSE
    /\ pc' = [a \in Actor |-> "idle"]

Finish(a) == thread_unref(a) \/ thread_terminate(a) \/ Unlock(a)

SelfDies == thread_preempt_disable \/ Finish("self") \/ Die \/ Switch

JoinerMoves == thread_join_common \/ Poll \/ thread_destroy

Next ==
    \/ thread_exit \/ thread_join \/ thread_create
    \/ SelfDies \/ JoinerMoves
    \/ \E h \in Holder : task_lookup_thread(h) \/ Finish(h)

Spec == Init /\ [][Next]_evars

--------------------------------------------------------------------------------
TypeOK ==
    /\ nr_refs \in 0..(1 + Cardinality(Holder))
    /\ state \in {"running", "dead"}
    /\ {preempt, on_cpu, terminating, join_waiter, asleep, destroyed}
           \subseteq BOOLEAN
    /\ join_lock \in Actor \cup {None}
    /\ pc \in [Actor -> {"idle", "exit", "unref", "terminate", "unlock", "die",
                         "switch", "lock", "poll", "destroy", "done"}]

(* A thread is destroyed when it is dead and its stack left, and nobody has *)
(* its join lock to take or to release, nor a reference to it. *)
NobodyLeft ==
    destroyed => /\ state = "dead" /\ ~on_cpu /\ join_lock = None
                 /\ \A a \in Actor \ {"joiner"} : pc[a] \in {"idle", "done"}

(* The joiner of a thread that exits returns, even when it has a higher    *)
(* priority on the same processor, on which it polls.                      *)
Owed == pc["self"] # "idle" /\ pc["joiner"] # "idle"
Given == destroyed
================================================================================
