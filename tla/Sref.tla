---------------------------------- MODULE Sref ----------------------------------
(***************************************************************************)
(* kern/sref.c: a scalable reference counter with a weak reference.        *)
(* References are counted in per-processor deltas, flushed by the manager  *)
(* thread of the processor once per epoch; a counter seen at 0 is reviewed *)
(* two epochs later, and its no-reference function called if it has stayed *)
(* there.                                                                  *)
(*                                                                         *)
(* The deltas of a processor are used with interrupts disabled, the        *)
(* counter and the review queues under their locks, so each use is a step. *)
(* A processor unregisters from its idle loop, as kern/sref.h has it, where *)
(* its manager sleeps.                                                     *)
(***************************************************************************)
EXTENDS Integers

CONSTANTS
    CPU,
    NoDelta,    \* an invalid delta
    InterruptTakes, \* whether interrupt handlers take references, too: those
                    \* of this kernel (rcu.c) only drop them then
    LeavesDelta,    \* whether a processor may unregister with the delta of an
                    \* interrupt handler in its cache, marked clean after it
    MaxRefs,    \* bound on the references held at a time
    MaxDelta    \* bound on the size of a delta

VARIABLES
    refs,       \* the references held, wherever they are counted
    value,      \* counter->value
    flags,      \* counter->flags, a set
    weak,       \* weakref->addr: "alive", "dying" or "null"
    place,      \* the review queue of the counter: "none", "current",
                \* "previous", or the manager that is to review it
    delta,      \* the delta of the counter in the cache of each processor
    dirty,      \* the processors whose cache is dirty
    registered, \* sref_data.registered_cpus
    pending,    \* sref_data.pending_flushes
    manager,    \* where the manager thread of each processor is
    noref       \* the no-reference function was called

vars == <<refs, value, flags, weak, place, delta, dirty, registered, pending,
          manager, noref>>
counter == <<value, flags, weak, place>>
epoch == <<registered, pending>>

Labels == {"sleep", "flush", "flushed", "acked", "review"}

TypeOK ==
    /\ refs \in 0..MaxRefs
    /\ value \in Int
    /\ flags \subseteq {"queued", "dirty"}
    /\ weak \in {"alive", "dying", "null"}
    /\ place \in {"none", "current", "previous"} \cup CPU
    /\ delta \in [CPU -> {NoDelta} \cup (-MaxDelta..MaxDelta)]
    /\ dirty \subseteq registered
    /\ pending \subseteq registered /\ registered \subseteq CPU
    /\ manager \in [CPU -> Labels]
    /\ noref \in BOOLEAN
    /\ "queued" \in flags <=> place /= "none"
    /\ "dirty" \in flags => "queued" \in flags

(* One processor has registered and holds the first reference. *)
Init ==
    /\ refs = 1
    /\ value = 1
    /\ flags = {}
    /\ weak = "alive"
    /\ place = "none"
    /\ delta = [c \in CPU |-> NoDelta]
    /\ dirty = {}
    /\ \E c \in CPU : registered = {c} /\ pending = {c}
    /\ manager = [c \in CPU |-> "sleep"]
    /\ noref = FALSE

--------------------------------------------------------------------------------
(* The counter.                                                            *)

sref_counter_schedule_review ==
    /\ place' = "current"
    /\ weak' = IF weak = "alive" THEN "dying" ELSE weak

sref_counter_add(d) ==
    /\ value' = value + d
    /\ IF value' /= 0 THEN UNCHANGED <<flags, weak, place>>
       ELSE IF "queued" \in flags
       THEN flags' = flags \cup {"dirty"} /\ UNCHANGED <<weak, place>>
       ELSE flags' = {"queued"} /\ sref_counter_schedule_review

--------------------------------------------------------------------------------
(* The delta cache of a processor, used by threads and interrupt handlers. *)

Add(c, d) ==
    /\ c \in registered
    /\ delta' = [delta EXCEPT ![c] = IF @ = NoDelta THEN d ELSE @ + d]
    /\ delta'[c] \in -MaxDelta..MaxDelta
    /\ dirty' = dirty \cup {c}
    /\ refs' = refs + d
    /\ UNCHANGED <<epoch, manager, noref>>

(* From the last delta it flushes to the end of its acknowledgment, the     *)
(* manager lets interrupt handlers run but no thread.                      *)
Preemptible(c) == manager[c] \notin {"flushed", "acked"}

(* Only who has a reference takes or drops one. *)
sref_counter_inc(c) ==
    /\ Preemptible(c) \/ InterruptTakes
    /\ refs \in 1..(MaxRefs - 1)
    /\ Add(c, 1)
    /\ UNCHANGED counter

sref_counter_dec(c) ==
    /\ refs > 0
    /\ Add(c, -1)
    /\ UNCHANGED counter

sref_weakref_get(c) ==
    /\ Preemptible(c) \/ InterruptTakes
    /\ weak /= "null"
    /\ refs < MaxRefs
    /\ Add(c, 1)
    /\ weak' = "alive"
    /\ UNCHANGED <<value, flags, place>>

(* The entry of the delta is needed for another counter. *)
Evict(c) ==
    /\ delta[c] /= NoDelta
    /\ sref_counter_add(delta[c])
    /\ delta' = [delta EXCEPT ![c] = NoDelta]
    /\ UNCHANGED <<refs, dirty, epoch, manager, noref>>

--------------------------------------------------------------------------------
(* The manager threads.                                                    *)

sref_register(c) ==
    /\ c \notin registered
    /\ registered' = registered \cup {c}
    /\ pending' = IF registered = {} THEN {c} ELSE pending
    /\ UNCHANGED <<refs, counter, delta, dirty, manager, noref>>

(* The last processor leaves nothing to review behind. *)
MayLeave(c) ==
    \/ c \notin pending
    \/ registered = {c} /\ place \notin {"current", "previous"}

sref_unregister(c) ==
    /\ manager[c] = "sleep" /\ c \in registered \ dirty
    /\ delta[c] = NoDelta \/ LeavesDelta
    /\ IF MayLeave(c)
       THEN /\ registered' = registered \ {c}
            /\ pending' = pending \ {c}
            /\ UNCHANGED dirty
       ELSE dirty' = dirty \cup {c} /\ UNCHANGED epoch
    /\ UNCHANGED <<refs, counter, delta, manager, noref>>

sref_report_periodic_event(c) ==
    /\ c \in registered \ dirty
    /\ dirty' = dirty \cup {c}
    /\ UNCHANGED <<refs, counter, delta, epoch, manager, noref>>

Goto(c, from, to) == manager[c] = from /\ manager' = [manager EXCEPT ![c] = to]

WakeUp(c) ==
    /\ c \in dirty
    /\ Goto(c, "sleep", "flush")
    /\ UNCHANGED <<refs, counter, delta, dirty, epoch, noref>>

(* sref_cache_flush() takes deltas until none is valid. *)
FlushDelta(c) ==
    /\ manager[c] = "flush"
    /\ Evict(c)

FlushEnds(c) ==
    /\ delta[c] = NoDelta
    /\ Goto(c, "flush", "flushed")
    /\ UNCHANGED <<refs, counter, delta, dirty, epoch, noref>>

(* The last flush of an epoch gives the previous queue to its manager; a   *)
(* single processor has both queues reviewed.                              *)
sref_end_epoch(c) ==
    /\ pending = {c}
    /\ pending' = registered
    /\ place' = IF \/ place = "previous"
                   \/ place = "current" /\ registered = {c}
                THEN c
                ELSE IF place = "current" THEN "previous" ELSE place
    /\ UNCHANGED <<value, flags, weak>>

AckFlush(c) ==
    /\ Goto(c, "flushed", "acked")
    /\ \/ sref_end_epoch(c)
       \/ pending /= {c} /\ pending' = pending \ {c} /\ UNCHANGED counter
    /\ UNCHANGED <<refs, delta, dirty, registered, noref>>

(* Interrupts may have been served since the last delta was taken. *)
sref_cache_clear_dirty(c) ==
    /\ Goto(c, "acked", "review")
    /\ dirty' = dirty \ {c}
    /\ UNCHANGED <<refs, counter, delta, epoch, noref>>

(* The counter stays at 0 but was elsewhere meanwhile, or its weak         *)
(* reference was used: it is reviewed again.                               *)
Requeue == "dirty" \in flags \/ weak = "alive"

sref_review(c) ==
    /\ manager[c] = "review"
    /\ place = c
    /\ IF value /= 0
       THEN /\ flags' = {}
            /\ place' = "none"
            /\ weak' = IF weak = "dying" THEN "alive" ELSE weak
            /\ UNCHANGED noref
       ELSE IF Requeue
       THEN /\ flags' = {"queued"}
            /\ sref_counter_schedule_review
            /\ UNCHANGED noref
       ELSE /\ flags' = {}
            /\ place' = "none"
            /\ weak' = "null"
            /\ noref' = TRUE
    /\ UNCHANGED <<refs, value, delta, dirty, epoch, manager>>

ReviewEnds(c) ==
    /\ place /= c
    /\ Goto(c, "review", "sleep")
    /\ UNCHANGED <<refs, counter, delta, dirty, epoch, noref>>

Progress(c) ==
    \/ WakeUp(c) \/ FlushDelta(c) \/ FlushEnds(c) \/ AckFlush(c)
    \/ sref_cache_clear_dirty(c) \/ sref_review(c) \/ ReviewEnds(c)

Next ==
    \E c \in CPU :
    \/ sref_counter_inc(c) \/ sref_counter_dec(c) \/ sref_weakref_get(c)
    \/ Evict(c) \/ sref_register(c) \/ sref_unregister(c)
    \/ sref_report_periodic_event(c)
    \/ Progress(c)

Spec == Init /\ [][Next]_vars

--------------------------------------------------------------------------------

(* The no-reference function is called when it is certain that the true    *)
(* number of references is 0, though no processor ever sees that number,   *)
(* and that no processor has anything left to add to the counter.          *)
NorefCertain == noref => refs = 0 /\ \A c \in CPU : delta[c] = NoDelta

(* It is called in the end, unless a reference is taken again. *)
Owed == refs = 0
Given == noref \/ refs > 0
================================================================================
