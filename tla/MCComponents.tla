------------------------------ MODULE MCComponents ------------------------------
(***************************************************************************)
(* The components that share no state with each other, in one run: the    *)
(* initial state picks one, and only that one moves.  They take turns at   *)
(* the same variables, s1 the first that the module declares and so on.    *)
(* Some are there twice or more, for instances that together reach all     *)
(* they do: Rdxtree with readers and with allocated keys, VmKmem with      *)
(* readers and with lists that fail half way, ThreadExit on one processor  *)
(* and on two, Scheduler with one class, with two, with weights that       *)
(* change and with two processors.  Open, Unread, Past, Again and Reserved *)
(* are what the code gets wrong: only the runs that show it have them.     *)
(***************************************************************************)
EXTENDS Integers, Sequences, FiniteSets, TLC

CONSTANTS T1, T2, T3, C1, C2, O1, O2, Nil

VARIABLES
    which,          \* the component that moves
    s1, s2, s3, s4, s5, s6, s7, s8, s9, s10, s11, s12, s13

RecordBytes == [record : 0..3, at : 1..6, kind : {"mark", "level", "char", "null"}]

Fs(p) == [policy |-> "fs", prio |-> p]
Fifo(p) == [policy |-> "fifo", prio |-> p]
RoundRobin(p) == [policy |-> "rr", prio |-> p]

FairShare == (T1 :> Fs(0)) @@ (T2 :> Fs(1)) @@ (T3 :> Fs(0))
FairShare2 == (T1 :> Fs(0)) @@ (T2 :> Fs(1))
FairAndReal == (T1 :> Fs(0)) @@ (T2 :> RoundRobin(0))

Fixed == [t \in {T1, T2, T3} |-> {}]
ToRealTime == (T1 :> {Fs(0), Fifo(1)}) @@ (T2 :> {})
ToHeavier == (T1 :> {Fs(0), Fs(1)}) @@ (T2 :> {})

(* Nodes of a tree, two of which have the same key. *)
OneTwin == [n \in 1..10 |-> IF n = 10 THEN 5 ELSE n]

(* An entry of a map that the boot loader gives. *)
Entry(base, length, type) == [base |-> base, length |-> length, type |-> type]

(* Maps that are not sorted, with memory in two zones, and entries that    *)
(* overlap in each of the ways there are, though not more than two.        *)
Maps == {<<Entry(10, 2, 2), Entry(8, 9, 1), Entry(0, 4, 1), Entry(2, 4, 2)>>,
         <<Entry(0, 7, 1), Entry(19, 1, 1), Entry(7, 1, 2), Entry(8, 8, 1),
           Entry(16, 0, 1)>>,
         <<Entry(6, 6, 2), Entry(4, 4, 2), Entry(0, 4, 1), Entry(10, 7, 1)>>,
         <<Entry(0, 8, 1), Entry(0, 8, 2), Entry(8, 12, 1)>>,
         <<Entry(0, 4, 1), Entry(0, 7, 2), Entry(8, 12, 1)>>,
         <<Entry(4, 4, 1), Entry(2, 8, 2), Entry(12, 8, 1)>>}

(* Memory with a reserved part in the middle. *)
Holes == {<<Entry(0, 7, 1), Entry(2, 2, 2)>>}
Modules == {<<8, 9>>, <<8, 11>>, <<9, 10>>, <<11, 12>>, <<14, 16>>}

Naps == INSTANCE TimedSleep WITH
    Thread <- {T1, T2}, Nobody <- Nil, Waker <- T3, IntrDisabled <- TRUE,
    interlock <- s1, pc <- s2, timed <- s3, state <- s4, wakeup_error <- s5,
    queued <- s6, waking <- s7, timer <- s8, signalled <- s9

(* A thread that sleeps with interrupts enabled, as thread_delay() and     *)
(* turnstile_timedwait() do.                                               *)
Open == INSTANCE TimedSleep WITH
    Thread <- {T1}, Nobody <- Nil, Waker <- T3, IntrDisabled <- FALSE,
    interlock <- s1, pc <- s2, timed <- s3, state <- s4, wakeup_error <- s5,
    queued <- s6, waking <- s7, timer <- s8, signalled <- s9

Monitor == INSTANCE Condition WITH
    Consumer <- {T1, T2, T3}, Producer <- {O1}, Nobody <- Nil, MaxItems <- 2,
    owner <- s1, bucket <- s2, sq <- s3, th <- s4, timed <- s5, expired <- s6,
    items <- s7, pc <- s8

Sema == INSTANCE Semaphore WITH
    Waiter <- {T1}, Poster <- {T2, T3, O1}, Nobody <- Nil, InitialValue <- 0,
    MaxValue <- 3, value <- s1, bucket <- s2, sq <- s3, th <- s4, timed <- s5,
    pc <- s6

Spin == INSTANCE SpinLock WITH
    Context <- {T1, T2, T3}, None <- Nil, LockOrder <- <<O1, O2>>, bit <- s1,
    last <- s2, next <- s3, locked <- s4, pc <- s5, held <- s6, wanted <- s7,
    prev <- s8, line <- s9

Pools == INSTANCE WorkPool WITH
    Work <- {O1, O2}, MaxThreads <- [cpu |-> 2, global |-> 3], Spare <- 2,
    None <- Nil, pool <- s1, pc <- s2, asleep <- s3, todo <- s4

Refs == INSTANCE Sref WITH
    CPU <- {C1, C2}, NoDelta <- Nil, InterruptTakes <- FALSE,
    LeavesDelta <- FALSE, MaxRefs <- 2, MaxDelta <- 1, refs <- s1, value <- s2, flags <- s3, weak <- s4,
    place <- s5, delta <- s6, dirty <- s7, registered <- s8, pending <- s9,
    manager <- s10, noref <- s11

Windows == INSTANCE Rcu WITH
    CPU <- {C1, C2}, Thread <- {T1, T2}, Work <- {O1}, Nothing <- Nil,
    gp_state <- s1, nr_acks <- s2, wid <- s3, active <- s4, refs <- s5,
    reported <- s6, timer <- s7, cpu <- s8, current <- s9, reader <- s10,
    deferred <- s11, old <- s12

Grace == INSTANCE Rcu WITH
    CPU <- {C1, C2}, Thread <- {T1}, Work <- {O1}, Nothing <- Nil,
    gp_state <- s1, nr_acks <- s2, wid <- s3, active <- s4, refs <- s5,
    reported <- s6, timer <- s7, cpu <- s8, current <- s9, reader <- s10,
    deferred <- s11, old <- s12

Areas == INSTANCE VmMap WITH
    Object <- {O1}, Flags <- {O2}, NullObject <- Nil, None <- Nil, Start <- 2,
    End <- 6, Align <- {1, 2}, NoFindCache <- 99, entries <- s1, size <- s2,
    lookup_cache <- s3, find_cache <- s4, find_cache_threshold <- s5

Readers == INSTANCE Rdxtree WITH
    Node <- {T1, T2, T3}, Key <- {0, 3}, Value <- {O1}, Reader <- {C1},
    Size <- 2, MaxHeight <- 2, KeyAlloc <- FALSE, None <- Nil, tree <- s1,
    seen <- s2, stores <- s3, deferred <- s4, map <- s5, target <- s6,
    reader <- s7

Keys == INSTANCE Rdxtree WITH
    Node <- {T1, T2, T3}, Key <- {0, 2}, Value <- {O1, O2}, Reader <- {},
    Size <- 2, MaxHeight <- 2, KeyAlloc <- TRUE, None <- Nil, tree <- s1,
    seen <- s2, stores <- s3, deferred <- s4, map <- s5, target <- s6,
    reader <- s7

Trees == INSTANCE Rbtree WITH
    Node <- 1..10, KeyOf <- OneTwin, Null <- Nil, tree <- s1, members <- s2

Board == INSTANCE Bulletin WITH
    Sub <- {T1, T2, T3}, Publisher <- {C1}, ListHead <- Nil, next <- s1, prev <- s2,
    pc <- s3, at <- s4, wait <- s5, told <- s6, due <- s7

Graph == INSTANCE InitGraph WITH
    Op <- {1, 2, 3}, deps <- s1, required <- s2, nr_parents <- s3, state <- s4,
    error <- s5, stack <- s6, pending_ops <- s7, phase <- s8, called <- s9

Vector == INSTANCE Intr WITH
    Handler <- {T1, T2, T3}, controller <- s1, handlers <- s2, ctl <- s3,
    enabled <- s4, in_service <- s5, driver <- s6, pc <- s7, todo <- s8,
    memory <- s9

Zones == INSTANCE VmPage WITH
    CPU <- {C1, C2}, Zone <- {1, 2}, Start <- <<1, 4>>, End <- <<4, 7>>,
    Heap <- 2..6, MaxOrder <- 2, PoolSize <- 3, Unlisted <- Nil, zone <- s1,
    pool <- s2, type <- s3, held <- s4

Cache == INSTANCE Kmem WITH
    Thread <- {T1, T2}, CPU <- {C1, C2}, Slab <- {O1, O2}, BufsPerSlab <- 2,
    PoolSize <- 1, None <- Nil, partial_slabs <- s1, free_slabs <- s2,
    first_free <- s3, nr_objs <- s4, nr_bufs <- s5, nr_free_slabs <- s6,
    pool <- s7, held <- s8, pc <- s9, at <- s10, obj <- s11, arrays <- s12

Pmap == INSTANCE PmapUpdate WITH
    Sender <- {T1, T2}, NrCpus <- 2, None <- Nil, array <- s1, request <- s2,
    queue <- s3, syncer <- s4, cpumap <- s5, done <- s6, pc <- s7, at <- s8,
    next <- s9, error <- s10, asleep <- s11

Lookup == INSTANCE VmKmem WITH
    Thread <- {T1, T2}, Reader <- {T3}, CPU <- {C1, C2}, Page <- {O1, O2},
    Last <- 2, MaxSize <- 2, MaxOps <- 2, MaxPages <- 9, None <- Nil,
    space <- s1, allocated <- s2, nr_refs <- s3, pages <- s4, table <- s5,
    ops <- s6, pc <- s7, range <- s8, start <- s9, page <- s10, seen <- s11,
    skipped <- s12

Kernel == INSTANCE VmKmem WITH
    Thread <- {T1, T2}, Reader <- {}, CPU <- {C1}, Page <- {O1, O2}, Last <- 3,
    MaxSize <- 3, MaxOps <- 2, MaxPages <- 1, None <- Nil, space <- s1,
    allocated <- s2, nr_refs <- s3, pages <- s4, table <- s5, ops <- s6,
    pc <- s7, range <- s8, start <- s9, page <- s10, seen <- s11, skipped <- s12

Buffer == INSTANCE Cbuf WITH
    Byte <- {O1, O2}, Capacity <- 4, IndexRange <- 16, InitIndex <- 14,
    Sizes <- {1, 2, 5}, None <- Nil, cbuf <- s1, queue <- s2

Records == INSTANCE Log WITH
    Byte <- RecordBytes, Capacity <- 8, IndexRange <- 32, InitIndex <- 26,
    Sizes <- {1}, None <- Nil, LastRecord <- 3, Length <- {0, 2}, MsgSize <- 4,
    Shell <- TRUE, cbuf <- s1, queue <- s2, logged <- s3, log_index <- s4,
    log_nr_overruns <- s5, pc <- s6, ctx <- s7, record <- s8, nr_overruns <- s9,
    shell_started <- s10, printed <- s11, moved <- s12, blind <- s13

(* The same without the shell. *)
Unread == INSTANCE Log WITH
    Byte <- RecordBytes, Capacity <- 8, IndexRange <- 32, InitIndex <- 26,
    Sizes <- {1}, None <- Nil, LastRecord <- 3, Length <- {0, 2}, MsgSize <- 4,
    Shell <- FALSE, cbuf <- s1, queue <- s2, logged <- s3, log_index <- s4,
    log_nr_overruns <- s5, pc <- s6, ctx <- s7, record <- s8, nr_overruns <- s9,
    shell_started <- s10, printed <- s11, moved <- s12, blind <- s13

Input == INSTANCE Console WITH
    Byte <- {O1, O2}, Capacity <- 4, IndexRange <- 16, InitIndex <- 14,
    Sizes <- {1, 3}, None <- Nil, Thread <- {T1, T2}, Control <- {O2},
    Nobody <- Nil, cbuf <- s1, queue <- s2, waiter <- s3, pc <- s4, blind <- s5

Calls == INSTANCE Xcall WITH
    Sender <- {T1, T2, T3}, CPU <- {C1, C2}, None <- Nil, lock <- s1,
    recv_call <- s2, interrupt <- s3, pc <- s4, target <- s5, handler <- s6,
    call <- s7, calls <- s8

Exit == INSTANCE ThreadExit WITH
    Holder <- {T1, T2}, SameCPU <- TRUE, Detached <- TRUE, LateLookup <- FALSE,
    None <- Nil, nr_refs <- s1, state <- s2, preempt <- s3, on_cpu <- s4,
    terminating <- s5, join_lock <- s6, join_waiter <- s7, asleep <- s8,
    pc <- s9, destroyed <- s10

Join == INSTANCE ThreadExit WITH
    Holder <- {T1, T2}, SameCPU <- FALSE, Detached <- FALSE,
    LateLookup <- FALSE, None <- Nil, nr_refs <- s1, state <- s2, preempt <- s3,
    on_cpu <- s4, terminating <- s5, join_lock <- s6, join_waiter <- s7,
    asleep <- s8, pc <- s9, destroyed <- s10

Shared == INSTANCE Scheduler WITH
    CPU <- {1}, RtPrio <- {0}, FsPrio <- {0, 1}, SliceBase <- 2,
    RoundRange <- 4, MaxMigrations <- 16, None <- Nil, Thread <- {T1, T2, T3},
    Sleeper <- {}, Initial <- FairShare, Settings <- Fixed, InitRound <- 3,
    LastRound <- 9, Late <- 0, runq <- s1, thread <- s2, highest_round <- s3,
    step <- s4, sound <- s5, lowered <- s6

Classes == INSTANCE Scheduler WITH
    CPU <- {1}, RtPrio <- {0, 1}, FsPrio <- {0}, SliceBase <- 2,
    RoundRange <- 4, MaxMigrations <- 16, None <- Nil, Thread <- {T1, T2},
    Sleeper <- {T1, T2}, Initial <- FairAndReal, Settings <- ToRealTime,
    InitRound <- 3, LastRound <- 9, Late <- 0, runq <- s1, thread <- s2,
    highest_round <- s3, step <- s4, sound <- s5, lowered <- s6

Weights == INSTANCE Scheduler WITH
    CPU <- {1}, RtPrio <- {0}, FsPrio <- {0, 1}, SliceBase <- 2,
    RoundRange <- 4, MaxMigrations <- 16, None <- Nil, Thread <- {T1, T2},
    Sleeper <- {T1}, Initial <- FairShare2, Settings <- ToHeavier,
    InitRound <- 3, LastRound <- 9, Late <- 1, runq <- s1, thread <- s2,
    highest_round <- s3, step <- s4, sound <- s5, lowered <- s6

Balance == INSTANCE Scheduler WITH
    CPU <- {1, 2}, RtPrio <- {0}, FsPrio <- {0, 1}, SliceBase <- 2,
    RoundRange <- 4, MaxMigrations <- 16, None <- Nil, Thread <- {T1, T2},
    Sleeper <- {}, Initial <- FairShare2, Settings <- Fixed, InitRound <- 3,
    LastRound <- 1, Late <- 0, runq <- s1, thread <- s2, highest_round <- s3,
    step <- s4, sound <- s5, lowered <- s6

Doubly == INSTANCE Lists WITH
    Heads <- {O1, O2}, Node <- {T1, T2, T3}, Null <- Nil, Stale <- C1,
    list <- s1, members <- s2

Sorted == INSTANCE Plist WITH
    Node <- {T1, T2, T3}, Prio <- {1, 2}, Plist <- O1, Null <- Nil,
    plist <- s1, priority <- s2, members <- s3

Boot == INSTANCE Biosmem WITH
    Map <- Maps, BootRange <- Modules, PageSize <- 2, Base <- 2, HeapBase <- 8,
    MemUpper <- 16, Limit <- <<12, 20>>, MaxMapSize <- 5, MaxBootData <- 3,
    TableSize <- 1, given <- s1, map <- s2, at <- s3, boot_data <- s4,
    zones <- s5, heap <- s6, allocated <- s7, managed <- s8, phase <- s9

Reserved == INSTANCE Biosmem WITH
    Map <- Holes, BootRange <- {}, PageSize <- 2, Base <- 2, HeapBase <- 8,
    MemUpper <- 16, Limit <- <<12, 20>>, MaxMapSize <- 5, MaxBootData <- 3,
    TableSize <- 1, given <- s1, map <- s2, at <- s3, boot_data <- s4,
    zones <- s5, heap <- s6, allocated <- s7, managed <- s8, phase <- s9

Past == INSTANCE Timer WITH
    Timer <- {T1}, Intr <- {T1}, Detached <- {}, Periodic <- {}, Cpu <- {O1},
    Nobody <- Nil, TableSize <- 4, Delays <- {-1, 1}, MaxTime <- 3,
    now <- s1, last_time <- s2, cpu <- s3, state <- s4, ticks <- s5,
    canceled <- s6, expired <- s7, interrupt <- s8, queued <- s9, calls <- s10,
    ends <- s11, user <- s12, asleep <- s13

Again == INSTANCE Timer WITH
    Timer <- {T1}, Intr <- {}, Detached <- {}, Periodic <- {T1}, Cpu <- {O1},
    Nobody <- Nil, TableSize <- 4, Delays <- {1, 3}, MaxTime <- 3,
    now <- s1, last_time <- s2, cpu <- s3, state <- s4, ticks <- s5,
    canceled <- s6, expired <- s7, interrupt <- s8, queued <- s9, calls <- s10,
    ends <- s11, user <- s12, asleep <- s13

ASSUME Areas!MapAssumption /\ Sema!SemaphoreAssumption /\ Monitor!ConditionAssumption
ASSUME Exit!ExitAssumption /\ Join!ExitAssumption

--------------------------------------------------------------------------------

(* The variables that a component with n of them does not use. *)
Unused(n) ==
    /\ IF n < 3 THEN s3 = Nil ELSE TRUE
    /\ IF n < 4 THEN s4 = Nil ELSE TRUE
    /\ IF n < 5 THEN s5 = Nil ELSE TRUE
    /\ IF n < 6 THEN s6 = Nil ELSE TRUE
    /\ IF n < 7 THEN s7 = Nil ELSE TRUE
    /\ IF n < 8 THEN s8 = Nil ELSE TRUE
    /\ IF n < 9 THEN s9 = Nil ELSE TRUE
    /\ IF n < 10 THEN s10 = Nil ELSE TRUE
    /\ IF n < 11 THEN s11 = Nil ELSE TRUE
    /\ IF n < 12 THEN s12 = Nil ELSE TRUE
    /\ IF n < 13 THEN s13 = Nil ELSE TRUE

Rest(n) ==
    /\ UNCHANGED which
    /\ IF n < 3 THEN UNCHANGED s3 ELSE TRUE
    /\ IF n < 4 THEN UNCHANGED s4 ELSE TRUE
    /\ IF n < 5 THEN UNCHANGED s5 ELSE TRUE
    /\ IF n < 6 THEN UNCHANGED s6 ELSE TRUE
    /\ IF n < 7 THEN UNCHANGED s7 ELSE TRUE
    /\ IF n < 8 THEN UNCHANGED s8 ELSE TRUE
    /\ IF n < 9 THEN UNCHANGED s9 ELSE TRUE
    /\ IF n < 10 THEN UNCHANGED s10 ELSE TRUE
    /\ IF n < 11 THEN UNCHANGED s11 ELSE TRUE
    /\ IF n < 12 THEN UNCHANGED s12 ELSE TRUE
    /\ IF n < 13 THEN UNCHANGED s13 ELSE TRUE

(* Sref starts with one processor registered, either one as they are alike. *)
Init ==
    \/ which = "sleep" /\ Naps!Init /\ Unused(9)
    \/ which = "condition" /\ Monitor!Init /\ Unused(8)
    \/ which = "semaphore" /\ Sema!Init /\ Unused(6)
    \/ which = "spin" /\ Spin!Init /\ Unused(9)
    \/ which = "pools" /\ Pools!Init /\ Unused(4)
    \/ which = "refs" /\ s8 = {C1} /\ Refs!Init /\ Unused(11)
    \/ which = "windows" /\ Windows!Init /\ Unused(12)
    \/ which = "grace" /\ Grace!Init /\ Unused(12)
    \/ which = "map" /\ Areas!Init /\ Unused(5)
    \/ which = "readers" /\ Readers!Init /\ Unused(7)
    \/ which = "keys" /\ Keys!Init /\ Unused(7)
    \/ which = "trees" /\ Trees!Init /\ Unused(2)
    \/ which = "board" /\ Board!Init /\ Unused(7)
    \/ which = "graph" /\ Graph!Init /\ Unused(9)
    \/ which = "vector" /\ Vector!Init /\ Unused(9)
    \/ which = "zones" /\ Zones!Init /\ Unused(4)
    \/ which = "cache" /\ Cache!Init /\ Unused(12)
    \/ which = "pmap" /\ Pmap!Init /\ Unused(11)
    \/ which = "lookup" /\ Lookup!Init /\ Unused(12)
    \/ which = "kernel" /\ Kernel!Init /\ Unused(12)
    \/ which = "buffer" /\ Buffer!CInit /\ Unused(2)
    \/ which = "log" /\ Records!Init /\ Unused(13)
    \/ which = "console" /\ Input!Init /\ Unused(5)
    \/ which = "calls" /\ Calls!Init /\ Unused(8)
    \/ which = "exit" /\ Exit!Init /\ Unused(10)
    \/ which = "join" /\ Join!Init /\ Unused(10)
    \/ which = "shared" /\ Shared!Init /\ Unused(6)
    \/ which = "classes" /\ Classes!Init /\ Unused(6)
    \/ which = "weights" /\ Weights!Init /\ Unused(6)
    \/ which = "balance" /\ Balance!Init /\ Unused(6)
    \/ which = "doubly" /\ Doubly!Init /\ Unused(2)
    \/ which = "sorted" /\ Sorted!Init /\ Unused(3)
    \/ which = "boot" /\ Boot!Init /\ Unused(9)

Next ==
    \/ which = "sleep" /\ Naps!Next /\ Rest(9)
    \/ which = "condition" /\ Monitor!Next /\ Rest(8)
    \/ which = "semaphore" /\ Sema!Next /\ Rest(6)
    \/ which = "spin" /\ Spin!Next /\ Rest(9)
    \/ which = "pools" /\ Pools!Next /\ Rest(4)
    \/ which = "refs" /\ Refs!Next /\ Rest(11)
    \/ which = "windows" /\ Windows!Next /\ Rest(12)
    \/ which = "grace" /\ Grace!Next /\ Rest(12)
    \/ which = "map" /\ Areas!Next /\ Rest(5)
    \/ which = "readers" /\ Readers!Next /\ Rest(7)
    \/ which = "keys" /\ Keys!Next /\ Rest(7)
    \/ which = "trees" /\ Trees!Next /\ Rest(2)
    \/ which = "board" /\ Board!Next /\ Rest(7)
    \/ which = "graph" /\ Graph!Next /\ Rest(9)
    \/ which = "vector" /\ Vector!Next /\ Rest(9)
    \/ which = "zones" /\ Zones!Next /\ Rest(4)
    \/ which = "cache" /\ Cache!Next /\ Rest(12)
    \/ which = "pmap" /\ Pmap!Next /\ Rest(11)
    \/ which = "lookup" /\ Lookup!Next /\ Rest(12)
    \/ which = "kernel" /\ Kernel!Next /\ Rest(12)
    \/ which = "buffer" /\ Buffer!CNext /\ Rest(2)
    \/ which = "log" /\ Records!Next /\ Rest(13)
    \/ which = "console" /\ Input!Next /\ Rest(5)
    \/ which = "calls" /\ Calls!Next /\ Rest(8)
    \/ which = "exit" /\ Exit!Next /\ Rest(10)
    \/ which = "join" /\ Join!Next /\ Rest(10)
    \/ which = "shared" /\ Shared!Next /\ Rest(6)
    \/ which = "classes" /\ Classes!Next /\ Rest(6)
    \/ which = "weights" /\ Weights!Next /\ Rest(6)
    \/ which = "balance" /\ Balance!Next /\ Rest(6)
    \/ which = "doubly" /\ Doubly!Next /\ Rest(2)
    \/ which = "sorted" /\ Sorted!Next /\ Rest(3)
    \/ which = "boot" /\ Boot!Next /\ Rest(9)

vars == <<which, s1, s2, s3, s4, s5, s6, s7, s8, s9, s10, s11, s12, s13>>

--------------------------------------------------------------------------------

(* Steps that others may disable again and again.  Spin locks are queued:  *)
(* a sender of cross-calls gets the lock of the processor, a waiter and    *)
(* the posters of a semaphore that of its sleep queue.  The holder of      *)
(* a lock releases it, also if it takes others meanwhile.  A thread that   *)
(* is preempted gets a processor again, and leaves its read-side critical  *)
(* section in the end.  As one component moves, the conditions of several  *)
(* are one.                                                                *)
Leaves ==
    \/ which = "semaphore" /\ Sema!WaiterProgress(T1) /\ Rest(6)
    \/ which = "calls" /\ Calls!Send(T1) /\ Rest(8)
    \/ which = "spin" /\ (\E c \in {T1, T2, T3} : Spin!spinlock_unlock(c, O1)) /\ Rest(9)
    \/ which = "grace" /\ (\E c \in {C1, C2} : Grace!Leaves(c, T1)) /\ Rest(12)

Resumes ==
    \/ which = "semaphore" /\ (\E p \in {T2, T3, O1} : Sema!PostSlow(p)) /\ Rest(6)
    \/ which = "grace" /\ (\E c \in {C1, C2} : Grace!rcu_report_context_switch(c, T1))
                       /\ Rest(12)

(* Otherwise weak fairness: what runs goes on, events and ticks come,      *)
(* functions that are called return, locks are unlocked.                   *)
Fairness ==
    /\ \A p \in Pools!Pool : \A i \in Pools!Ids(p) :
           WF_vars(which = "pools" /\ Pools!Progress(p, i) /\ Rest(4))
    /\ \A c \in {C1, C2} :
           /\ WF_vars(which = "refs" /\ Refs!Progress(c) /\ Rest(11))
           /\ WF_vars(which = "refs" /\ Refs!sref_report_periodic_event(c) /\ Rest(11))
           /\ WF_vars(which = "grace" /\ Grace!Event(c) /\ Rest(12))
           /\ WF_vars(which = "calls" /\ Calls!Handle(c) /\ Rest(8))
    /\ WF_vars(which = "grace" /\ Grace!rcu_data_check_windows /\ Rest(12))
    /\ WF_vars(which = "grace" /\ Grace!rcu_window_flush /\ Rest(12))
    /\ \A c \in Pmap!CPU : WF_vars(which = "pmap" /\ Pmap!pmap_sync(c) /\ Rest(11))
    /\ \A s \in {T1, T2} :
           WF_vars(which = "pmap" /\ Rest(11)
                   /\ (Pmap!QueueRequest(s) \/ Pmap!Wait(s)
                       \/ Pmap!pmap_update_request_array_release(s)))
    /\ \A c \in {T1, T2, T3} :
           /\ WF_vars(which = "spin" /\ Spin!Progress(c) /\ Rest(9))
           /\ WF_vars(which = "spin" /\ Spin!spinlock_unlock(c, O2) /\ Rest(9))
    /\ \A s \in {T2, T3} : WF_vars(which = "calls" /\ Calls!Send(s) /\ Rest(8))
    /\ WF_vars(which = "sleep" /\ Naps!Progress(T1) /\ Rest(9))
    /\ WF_vars(which = "condition" /\ Rest(8)
               /\ \E t \in Monitor!Thread : Monitor!Progress(t))
    /\ WF_vars(which = "semaphore" /\ Sema!Timeout(T1) /\ Rest(6))
    /\ WF_vars(which = "log" /\ Records!Progress /\ Rest(13))
    /\ WF_vars(which = "exit" /\ Exit!SelfDies /\ Rest(10))
    /\ WF_vars(which = "exit" /\ Exit!JoinerMoves /\ Rest(10))
    /\ WF_vars(which = "join" /\ Join!SelfDies /\ Rest(10))
    /\ WF_vars(which = "join" /\ Join!JoinerMoves /\ Rest(10))
    /\ \A h \in {T1, T2} :
           /\ WF_vars(which = "exit" /\ Exit!Finish(h) /\ Rest(10))
           /\ WF_vars(which = "join" /\ Join!Finish(h) /\ Rest(10))
    /\ WF_vars(which = "shared" /\ Shared!Balance(1) /\ Rest(6))
    /\ WF_vars(which = "shared" /\ Shared!Yields(1) /\ Rest(6))
    /\ WF_vars(which = "shared" /\ Shared!Ticks(1) /\ Rest(6))
    /\ SF_vars(Leaves) /\ SF_vars(Resumes)

Safe == Init /\ [][Next]_vars
Spec == Safe /\ Fairness

(* What the code gets wrong, each one alone. *)
OpenAlone ==
    /\ which = "open" /\ Open!Init /\ Unused(9)
    /\ [][Open!Next /\ Rest(9)]_vars
    /\ WF_vars(Open!Progress(T1) /\ Rest(9))

UnreadAlone ==
    /\ which = "unread" /\ Unread!Init /\ Unused(13)
    /\ [][Unread!Next /\ Rest(13)]_vars

PastAlone ==
    /\ which = "past" /\ Past!Init /\ Unused(13)
    /\ [][Past!Next /\ Rest(13)]_vars

AgainAlone ==
    /\ which = "again" /\ Again!Init /\ Unused(13)
    /\ [][Again!Next /\ Rest(13)]_vars

ReservedAlone ==
    /\ which = "reserved" /\ Reserved!Init /\ Unused(9)
    /\ [][Reserved!Next /\ Rest(9)]_vars

--------------------------------------------------------------------------------

TypeOK ==
    /\ which = "sleep" => Naps!TypeOK
    /\ which = "condition" => Monitor!TypeOK
    /\ which = "semaphore" => Sema!TypeOK
    /\ which = "spin" => Spin!TypeOK
    /\ which = "pools" => Pools!TypeOK
    /\ which = "refs" => Refs!TypeOK
    /\ which = "windows" => Windows!TypeOK
    /\ which = "grace" => Grace!TypeOK
    /\ which = "map" => Areas!TypeOK
    /\ which = "readers" => Readers!TypeOK
    /\ which = "keys" => Keys!TypeOK
    /\ which = "trees" => Trees!TypeOK
    /\ which = "board" => Board!TypeOK
    /\ which = "graph" => Graph!TypeOK
    /\ which = "vector" => Vector!TypeOK
    /\ which = "zones" => Zones!TypeOK
    /\ which = "cache" => Cache!TypeOK
    /\ which = "pmap" => Pmap!TypeOK
    /\ which = "lookup" => Lookup!TypeOK
    /\ which = "kernel" => Kernel!TypeOK
    /\ which = "buffer" => Buffer!CTypeOK
    /\ which = "log" => Records!TypeOK
    /\ which = "console" => Input!TypeOK
    /\ which = "calls" => Calls!TypeOK
    /\ which = "exit" => Exit!TypeOK
    /\ which = "join" => Join!TypeOK
    /\ which = "shared" => Shared!TypeOK
    /\ which = "classes" => Classes!TypeOK
    /\ which = "weights" => Weights!TypeOK
    /\ which = "balance" => Balance!TypeOK
    /\ which = "doubly" => Doubly!TypeOK
    /\ which = "sorted" => Sorted!TypeOK
    /\ which = "boot" => Boot!TypeOK

(* The assertions of the code, and what it relies on when it makes them:   *)
(* the queue of a spin lock, the resources of a pool, the states of a      *)
(* grace period, the order of the blocks and of the slabs, the lists that  *)
(* processors read during an update of the page tables.  An update that    *)
(* succeeds was applied by all of them, the free area cache of a map hides *)
(* no area, a red-black tree is balanced.                                  *)
AssertsHold ==
    /\ which = "spin" => Spin!AssertsHold
    /\ which = "sleep" => Naps!AssertsHold
    /\ which = "pools" => Pools!AssertsHold
    /\ which = "windows" => Windows!AssertsHold
    /\ which = "grace" => Grace!AssertsHold
    /\ which = "map" => Areas!AssertsHold /\ Areas!FindsRoom
    /\ which = "readers" => Readers!AssertsHold
    /\ which = "keys" => Keys!AssertsHold /\ Keys!BitsSound
    /\ which = "trees" => Trees!AssertsHold /\ Trees!Balanced
    /\ which = "graph" => Graph!AssertsHold
    /\ which = "vector" => Vector!AssertsHold
    /\ which = "zones" => Zones!AssertsHold
    /\ which = "cache" => Cache!AssertsHold
    /\ which = "pmap" => Pmap!AssertsHold /\ Pmap!UpdatesApplied

(* A spin lock has one holder and serves those that wait in the order in   *)
(* which they queued; waits on a condition variable use the mutex as they  *)
(* should; sleep and wake-up, in several critical sections and with a      *)
(* timer armed in advance, are those of SleepQueue.                        *)
ImplementsPrimitives ==
    /\ which = "condition" => Monitor!MutexInit
    /\ which = "sleep" => Naps!SleepInit
    /\ which = "spin" => Spin!LocksInit
    /\ [][/\ which = "condition" => Monitor!MutexStep
          /\ which = "sleep" => Naps!SleepStep
          /\ which = "spin" => Spin!LocksStep]_vars

(* A post to a semaphore finds the thread that sleeps for it, and if       *)
(* threads wait for a condition, someone is on its way for each item they  *)
(* wait for.                                                               *)
NoLostWakeup ==
    /\ which = "condition" => Monitor!NoMissedWakeup
    /\ which = "semaphore" => Sema!WakeupOnItsWay

(* A VM map is an address space, whose mappings do not change each other:  *)
(* merging, splitting, the caches and the search are invisible.            *)
ImplementsAddressSpace ==
    /\ which = "map" => Areas!SpaceInit
    /\ [][which = "map" => Areas!SpaceStep]_vars

(* Memory is never given to two users, nor taken from one who still has    *)
(* it: no block, buffer or page is in two places, nothing is reclaimed     *)
(* while a reader, a reference, a mapping or another processor is left to  *)
(* it, no thread destroyed while its stack or its join lock is used, and   *)
(* no cross-call, on the stack of its sender, used after it returned; no   *)
(* function is called after bulletin_unsubscribe(), nor an interrupt       *)
(* handler after intr_unregister().                                        *)
MemorySound ==
    /\ which = "refs" => Refs!NorefCertain
    /\ which = "windows" => Windows!GracePeriods
    /\ which = "grace" => Grace!GracePeriods
    /\ which = "zones" => Zones!NoOverlap
    /\ which = "cache" => Cache!NoOverlap
    /\ which = "lookup" => Lookup!RefsSound /\ Lookup!NoStaleMapping
    /\ which = "kernel" => Kernel!RefsSound /\ Kernel!NoStaleMapping
    /\ which = "exit" => Exit!NobodyLeft
    /\ which = "join" => Join!NobodyLeft
    /\ which = "calls" => Calls!CallsDone
    /\ which = "board" => Board!NobodyNotified
    /\ which = "vector" => Vector!HandlersLive

(* A circular buffer holds what was put into it last, in order, over the   *)
(* end of its array and of its indexes; the log thread prints whole        *)
(* records in their order and counts those it misses; the one thread that  *)
(* sleeps for the console has nothing to read; a lookup in a radix tree    *)
(* finds what the key had at some time meanwhile, whatever is inserted or  *)
(* removed, and iteration finds everything in order, as it does in a       *)
(* red-black tree; a publication reaches all that are subscribed meanwhile;*)
(* an init operation runs after those it depends on, if they succeeded.    *)
DataSound ==
    /\ which = "readers" => Readers!MapSound /\ Readers!LookupsSound
    /\ which = "keys" => Keys!MapSound
    /\ which = "trees" => Trees!TreeSound
    /\ which = "board" => Board!AllNotified
    /\ which = "graph" => Graph!OrderSound
    /\ which = "buffer" => Buffer!BufferSound
    /\ which = "log" => Records!BufferSound /\ Records!AssertsHold
                        /\ Records!LossReported
    /\ which = "console" => Input!BufferSound /\ Input!WaiterSound

(* The links of a list, and those of what it was split into or joined     *)
(* with, are those of its nodes, forward and backward; a list that is      *)
(* sorted by priority stays so, and removal finds each node in both of its *)
(* lists.                                                                  *)
ListsSound ==
    /\ which = "doubly" => Doubly!ListsSound
    /\ which = "sorted" => Sorted!PlistSound

(* Where entries of the memory map overlap the most restrictive one wins,  *)
(* and the array has room for the pieces; each page that is available then *)
(* goes to the page allocator, once, unless boot data or the boot          *)
(* allocator has it.                                                       *)
BootMemorySound == which = "boot" => Boot!MapResolved /\ Boot!PagesSound

(* The queues of each processor, the weights and works of the fair-share   *)
(* groups, who is to yield to whom and who waits for the balancer.         *)
SchedulerSound ==
    /\ which = "shared" => Shared!SchedulerSound
    /\ which = "classes" => Classes!SchedulerSound
    /\ which = "weights" => Weights!SchedulerSound
    /\ which = "balance" => Balance!SchedulerSound

(* What the components owe in the end: a timed sleep is over, an item that *)
(* a monitor has for a waiter is taken, a wait on a semaphore that has been *)
(* posted, or whose time is over, returns, a work that is scheduled is called, *)
(* a counter without references tells so, a work deferred to the end of a  *)
(* grace period is called, an update of the page tables and a cross-call   *)
(* return, a spin lock is acquired, the log is drained, the joiner of a    *)
(* thread that exits returns, and a fair-share thread that is ready runs.  *)
(* Other users, save for weights in the scheduler, are like T1.            *)
Owed ==
    \/ which = "sleep" /\ Naps!Owed(T1)
    \/ which = "condition" /\ Monitor!Owed
    \/ which = "semaphore" /\ Sema!Owed(T1)
    \/ which = "pools" /\ Pools!Owed(O1)
    \/ which = "refs" /\ Refs!Owed
    \/ which = "grace" /\ Grace!Owed(O1)
    \/ which = "pmap" /\ Pmap!Owed(T1)
    \/ which = "calls" /\ Calls!Owed(T1)
    \/ which = "spin" /\ Spin!Owed(T1)
    \/ which = "log" /\ Records!Owed
    \/ which = "exit" /\ Exit!Owed
    \/ which = "join" /\ Join!Owed
    \/ which = "shared" /\ Shared!Owed(T1)

Given ==
    \/ which = "sleep" /\ Naps!Given(T1)
    \/ which = "condition" /\ Monitor!Given
    \/ which = "semaphore" /\ Sema!Given(T1)
    \/ which = "pools" /\ Pools!Given(O1)
    \/ which = "refs" /\ Refs!Given
    \/ which = "grace" /\ Grace!Given(O1)
    \/ which = "pmap" /\ Pmap!Given(T1)
    \/ which = "calls" /\ Calls!Given(T1)
    \/ which = "spin" /\ Spin!Given(T1)
    \/ which = "log" /\ Records!Given
    \/ which = "exit" /\ Exit!Given
    \/ which = "join" /\ Join!Given
    \/ which = "shared" /\ Shared!Given(T1)

Completes == Owed ~> Given

(* A thread that sleeps for a bounded time is awake again once it is over, *)
(* if it does so with interrupts enabled.                                  *)
TimedSleepEnds == Open!Owed(T1) ~> Open!Given(T1)

(* The assertions of log_char2level() and of log_record_consume() hold: the *)
(* log thread does not panic, whatever is logged while it prints.          *)
NoPanic == s6["log_run"] /= "panic"

(* What the code says of the other components that are alone, see there.   *)
EventTakesAll == Past!EventTakesAll
RunsWhenRunning == Again!RunsWhenRunning
MapResolved == Reserved!MapResolved
================================================================================
