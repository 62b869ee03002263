----------------------------------- MODULE Rcu -----------------------------------
(***************************************************************************)
(* kern/rcu.c: read-side critical sections, deferred works and the grace   *)
(* period state machine that calls them back.  A window has two slots, so  *)
(* window identifiers are kept modulo 2; readers are only linked to a      *)
(* window when they are switched out, or when their processor flips its    *)
(* reader window.                                                          *)
(*                                                                         *)
(* What runs with interrupts disabled on a processor is local to it, so a  *)
(* periodic event is followed from one access to the global data to the    *)
(* next.  The references of a window are in a scalable counter, see Sref,  *)
(* whose no-reference function is not called before each processor has had *)
(* a periodic event of its own.                                            *)
(***************************************************************************)
EXTENDS Naturals, FiniteSets

CONSTANTS
    CPU,
    Thread,
    Work,
    Nothing     \* no thread

VARIABLES
    gp_state,   \* rcu_data.gp_state
    nr_acks,    \* rcu_data.nr_acks
    wid,        \* rcu_data.wid
    active,     \* the windows in progress
    refs,       \* the references of each window
    reported,   \* while a window waits for its readers, the processors that
                \* had a periodic event since one of them left
    timer,      \* the timer of rcu_data_check_windows() is scheduled
    cpu,        \* the data of each processor, and its step in the event
    current,    \* the thread each processor runs
    reader,     \* the RCU data of each thread
    deferred,   \* the works queued on each processor, for each window
    old         \* history: the readers that a deferred work has to wait for

vars == <<gp_state, nr_acks, wid, active, refs, reported, timer, cpu, current,
          reader, deferred, old>>
global == <<gp_state, nr_acks, wid, active, timer>>

Window == {0, 1}
Other(w) == 1 - w

States == {"WORK_WINDOW_FLIP", "READER_WINDOW_FLIP", "WORK_FLUSH"}

TypeOK ==
    /\ gp_state \in States
    /\ nr_acks \in 0..Cardinality(CPU)
    /\ wid \in Window
    /\ active \subseteq Window
    /\ refs \in [Window -> 0..(Cardinality(Thread) + 1)]
    /\ reported \subseteq CPU
    /\ timer \in BOOLEAN
    /\ cpu \in [CPU -> [gp_state : States, work_wid : Window, reader_wid : Window,
                        step : {"run", "ack"} \X (0..2)]]
    /\ current \in [CPU -> Thread \cup {Nothing}]
    /\ reader \in [Thread -> [in_cs : BOOLEAN, linked : BOOLEAN, wid : Window]]
    /\ deferred \in [CPU -> [Window -> SUBSET Work]]
    /\ old \in [Work -> SUBSET Thread]
    /\ \A c, d \in CPU : current[c] = current[d] /\ current[c] /= Nothing => c = d

Init ==
    /\ gp_state = "WORK_FLUSH"
    /\ nr_acks = 0
    /\ wid = 0
    /\ active = {0}
    /\ refs = [w \in Window |-> IF w = 0 THEN 1 ELSE 0]
    /\ reported = {}
    /\ timer = TRUE
    /\ cpu = [c \in CPU |-> [gp_state |-> "WORK_FLUSH", work_wid |-> 0,
                             reader_wid |-> 0, step |-> <<"run", 0>>]]
    /\ current = [c \in CPU |-> Nothing]
    /\ reader = [t \in Thread |-> [in_cs |-> FALSE, linked |-> FALSE, wid |-> 0]]
    /\ deferred = [c \in CPU |-> [w \in Window |-> {}]]
    /\ old = [x \in Work |-> {}]

(* Every processor has flipped its windows, the readers are left. *)
Draining == gp_state = "READER_WINDOW_FLIP" /\ nr_acks = 0

Running(c) == cpu[c].step = <<"run", 0>>

--------------------------------------------------------------------------------
(* Readers.                                                                *)

rcu_read_enter(c) ==
    LET t == current[c] IN
    /\ Running(c) /\ t /= Nothing
    /\ ~reader[t].in_cs /\ ~reader[t].linked
    /\ reader' = [reader EXCEPT ![t].in_cs = TRUE]
    /\ UNCHANGED <<global, refs, reported, cpu, current, deferred, old>>

(* rcu_reader_dec(), until the level is 0. *)
rcu_read_leave(c) ==
    LET t == current[c] IN
    /\ Running(c) /\ t /= Nothing
    /\ reader[t].in_cs
    /\ reader' = [reader EXCEPT ![t].in_cs = FALSE]
    /\ old' = [x \in Work |-> old[x] \ {t}]
    /\ UNCHANGED <<global, refs, reported, cpu, current, deferred>>

(* The reader was linked to a window, whose reference it drops. *)
rcu_reader_leave(c) ==
    LET t == current[c] IN
    /\ Running(c) /\ t /= Nothing
    /\ ~reader[t].in_cs /\ reader[t].linked
    /\ refs' = [refs EXCEPT ![reader[t].wid] = @ - 1]
    /\ reader' = [reader EXCEPT ![t].linked = FALSE, ![t].wid = 0]
    /\ reported' = IF reader[t].wid = wid THEN reported ELSE {}
    /\ UNCHANGED <<global, cpu, current, deferred, old>>

(* A reader is linked once, to the reader window of its processor. *)
rcu_reader_account(t, c) ==
    IF t /= Nothing /\ reader[t].in_cs /\ ~reader[t].linked
    THEN /\ reader' = [reader EXCEPT ![t].linked = TRUE,
                                     ![t].wid = cpu[c].reader_wid]
         /\ refs' = [refs EXCEPT ![cpu[c].reader_wid] = @ + 1]
    ELSE UNCHANGED <<reader, refs>>

(* The thread is switched out of the processor for another one. *)
rcu_report_context_switch(c, t) ==
    /\ Running(c)
    /\ t /= current[c]
    /\ t = Nothing \/ \A d \in CPU : current[d] /= t
    /\ rcu_reader_account(current[c], c)
    /\ current' = [current EXCEPT ![c] = t]
    /\ UNCHANGED <<global, reported, cpu, deferred, old>>

(* The object of the work was removed: readers that are in a critical      *)
(* section may hold a reference to it, later ones do not.                  *)
rcu_defer(c, x) ==
    LET t == current[c] IN
    /\ Running(c) /\ t /= Nothing
    /\ ~reader[t].in_cs
    /\ \A d \in CPU, w \in Window : x \notin deferred[d][w]
    /\ deferred' = [deferred EXCEPT ![c][cpu[c].work_wid] = @ \cup {x}]
    /\ old' = [old EXCEPT ![x] = {u \in Thread : reader[u].in_cs}]
    /\ UNCHANGED <<global, refs, reported, cpu, current, reader>>

--------------------------------------------------------------------------------
(* Grace periods.                                                          *)

rcu_data_update_gp_state(s) == gp_state' = s /\ nr_acks' = Cardinality(CPU)

(* The timer: the windows are flipped if the previous one has ended.  The   *)
(* timer was scheduled for 10 ms later at least, which is longer than a    *)
(* processor stays in one periodic event.                                  *)
rcu_data_check_windows ==
    /\ timer
    /\ \A c \in CPU : Running(c)
    /\ Other(wid) \notin active
    /\ timer' = FALSE
    /\ active' = active \cup {Other(wid)}
    /\ wid' = Other(wid)
    /\ refs' = [refs EXCEPT ![Other(wid)] = 1]
    /\ rcu_data_update_gp_state("WORK_WINDOW_FLIP")
    /\ UNCHANGED <<reported, cpu, current, reader, deferred, old>>

(* No thread is linked to the window any more, and sref is certain of it:  *)
(* the counter of the window was given up by the processors and dropped.   *)
rcu_window_flush ==
    /\ Draining
    /\ refs[Other(wid)] = 0
    /\ reported = CPU
    /\ rcu_data_update_gp_state("WORK_FLUSH")
    /\ reported' = {}
    /\ UNCHANGED <<wid, active, refs, timer, cpu, current, reader, deferred, old>>

(* Broken: the current thread is not accounted for. *)
FlipsAlone(c) ==
    /\ cpu' = [cpu EXCEPT ![c].reader_wid = Other(@), ![c].step = <<"ack", @[2]>>]
    /\ UNCHANGED <<reader, refs, deferred>>

rcu_cpu_data_flip_reader_wid(c) ==
    /\ rcu_reader_account(current[c], c)
    /\ cpu' = [cpu EXCEPT ![c].reader_wid = Other(@), ![c].step = <<"ack", @[2]>>]
    /\ UNCHANGED deferred

rcu_cpu_data_flip_work_wid(c) ==
    /\ cpu' = [cpu EXCEPT ![c].work_wid = Other(@), ![c].step = <<"ack", @[2]>>]
    /\ UNCHANGED <<reader, refs, deferred>>

(* The works are given to the work module, which calls them. *)
rcu_cpu_data_flush(c) ==
    /\ deferred' = [deferred EXCEPT ![c][Other(cpu[c].work_wid)] = {}]
    /\ cpu' = [cpu EXCEPT ![c].step = <<"ack", @[2]>>]
    /\ UNCHANGED <<reader, refs>>

(* The periodic event of a processor, one turn of its loop: the state of   *)
(* the grace period has changed.                                           *)
rcu_cpu_data_check_gp_state(c) ==
    /\ cpu[c].step[1] = "run"
    /\ cpu[c].gp_state /= gp_state
    /\ \/ gp_state = "WORK_WINDOW_FLIP" /\ rcu_cpu_data_flip_work_wid(c)
       \/ gp_state = "READER_WINDOW_FLIP" /\ rcu_cpu_data_flip_reader_wid(c)
       \/ gp_state = "WORK_FLUSH" /\ rcu_cpu_data_flush(c)
    /\ UNCHANGED <<global, reported, current, old>>

(* The loop ends when there is no change left, and the rest of the event   *)
(* has sref look after its counters.                                       *)
EventEnds(c) ==
    /\ cpu[c].step[1] = "run"
    /\ cpu[c].gp_state = gp_state
    /\ cpu' = [cpu EXCEPT ![c].step = <<"run", 0>>]
    /\ reported' = IF Draining THEN reported \cup {c} ELSE reported
    /\ UNCHANGED <<global, refs, current, reader, deferred, old>>

(* The last acknowledgment starts the next state, drops the reference that *)
(* keeps the window open, or ends it.                                      *)
LastAck ==
    \/ /\ gp_state = "WORK_WINDOW_FLIP"
       /\ rcu_data_update_gp_state("READER_WINDOW_FLIP")
       /\ UNCHANGED <<wid, active, refs, reported, timer>>
    \/ /\ gp_state = "READER_WINDOW_FLIP"
       /\ refs' = [refs EXCEPT ![Other(wid)] = @ - 1]
       /\ nr_acks' = 0
       /\ reported' = {}
       /\ UNCHANGED <<gp_state, wid, active, timer>>
    \/ /\ gp_state = "WORK_FLUSH"
       /\ active' = active \ {Other(wid)}
       /\ timer' = TRUE
       /\ nr_acks' = 0
       /\ UNCHANGED <<gp_state, wid, refs, reported>>

rcu_data_ack_cpu(c) ==
    /\ cpu[c].step[1] = "ack"
    /\ cpu' = [cpu EXCEPT ![c].gp_state = gp_state,
                          ![c].step = <<"run", cpu[c].step[2] + 1>>]
    /\ IF nr_acks = 1 THEN LastAck
       ELSE /\ nr_acks' = nr_acks - 1
            /\ UNCHANGED <<gp_state, wid, active, timer, refs, reported>>
    /\ UNCHANGED <<current, reader, deferred, old>>

Event(c) == rcu_cpu_data_check_gp_state(c) \/ EventEnds(c) \/ rcu_data_ack_cpu(c)

Next ==
    \/ rcu_data_check_windows \/ rcu_window_flush
    \/ \E c \in CPU :
       \/ Event(c)
       \/ rcu_read_enter(c) \/ rcu_read_leave(c) \/ rcu_reader_leave(c)
       \/ \E t \in Thread \cup {Nothing} : rcu_report_context_switch(c, t)
       \/ \E x \in Work : rcu_defer(c, x)

(* A reader that runs ends its read-side critical section.                 *)
Leaves(c, t) == current[c] = t /\ (rcu_read_leave(c) \/ rcu_reader_leave(c))

Spec == Init /\ [][Next]_vars

--------------------------------------------------------------------------------

(* The assertions of the state machine: a flush finds both windows of its  *)
(* processor flipped, the acknowledgments are not given twice, and an      *)
(* event sees at most two changes.                                         *)
AssertsHold ==
    \A c \in CPU :
        /\ cpu[c].gp_state /= gp_state /\ gp_state = "WORK_FLUSH"
           => cpu[c].work_wid = cpu[c].reader_wid
        /\ cpu[c].step[1] = "ack" => nr_acks > 0
        /\ cpu[c].step[2] = 2 => cpu[c].gp_state = gp_state

(* A work is given to the work module when no reader that might have seen  *)
(* the object it reclaims is left, wherever those readers were preempted,  *)
(* moved or resumed while the windows were flipped.                        *)
GracePeriods ==
    \A c \in CPU, x \in Work :
        /\ x \in deferred[c][Other(cpu[c].work_wid)]
        /\ gp_state = "WORK_FLUSH" /\ cpu[c].gp_state /= gp_state
        => old[x] = {}

(* Deferred works are called in the end. *)
Owed(x) == \E c \in CPU, w \in Window : x \in deferred[c][w]
Given(x) == ~Owed(x)
================================================================================
