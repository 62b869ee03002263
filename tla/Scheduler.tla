------------------------------- MODULE Scheduler -------------------------------
(***************************************************************************)
(* kern/thread.c: the scheduler.  A step is what runs with run queues      *)
(* locked.  A wake-up takes two, since the run queue of the thread is      *)
(* unlocked before the one it goes to is selected, and a balancer thread   *)
(* one per pair of run queues it locks; a processor goes on meanwhile.     *)
(* Scans for a run queue, which lock one or two at a time, are one step.   *)
(* A mask of preemption is a delay before thread_yield().                  *)
(***************************************************************************)
EXTENDS SequencesExt, Integers, FiniteSets

CONSTANTS
    CPU,            \* processors, numbers
    RtPrio, FsPrio, \* priorities of each class, numbers from 0
    SliceBase,      \* THREAD_FS_ROUND_SLICE_BASE
    RoundRange,     \* rounds wrap around, 2^64 in the code
    MaxMigrations,  \* THREAD_MAX_MIGRATIONS
    None,
    Thread,         \* besides the balancer and the idle threads
    Sleeper,        \* threads that sleep
    Initial,        \* their policies and priorities
    Settings,       \* what each may be set to
    InitRound,      \* THREAD_FS_INITIAL_ROUND
    LastRound,      \* bound: no tick once the highest round is this one
    Late            \* bound: ticks that a thread that is to yield may run past
                    \* its round

--------------------------------------------------------------------------------
(* The run queues.  Each processor has one, with a list per real-time      *)
(* priority and two fair-share queues, active and expired.  In a           *)
(* fair-share queue the threads of a priority form a group, whose weight   *)
(* and work are the sums of theirs, and the groups are sorted by weight.   *)
(* The operators take and return the state of all run queues and threads,  *)
(*   s = [runq, thread, highest, ok],                                      *)
(* where highest is thread_fs_highest_round and ok turns FALSE when an     *)
(* assertion of the code fails.  Weights and works of whole queues are     *)
(* sums over their groups, the bitmap of the real-time lists tells which   *)
(* ones are empty.                                                         *)

balancer(c) == <<"balancer", c>>
idler(c) == <<"idler", c>>

(* The classes by order of priority. *)
thread_policy_to_class(policy) ==
    CASE policy \in {"fifo", "rr"} -> 0
      [] policy = "fs" -> 1
      [] policy = "idle" -> 2

get_global_priority(data) ==
    IF data.policy \in {"fifo", "rr"} THEN 2 + data.prio
    ELSE IF data.policy = "fs" THEN 1 ELSE 0

Class(s, t) == thread_policy_to_class(s.thread[t].real.policy)

Prio(s, t) == s.thread[t].real.prio

EmptyFsRunq ==
    [groups |-> <<>>, members |-> [p \in FsPrio |-> <<>>],
     weight |-> [p \in FsPrio |-> 0], work |-> [p \in FsPrio |-> 0],
     threads |-> <<>>, current |-> None, after |-> None]

(* thread_runq_init(), then thread_setup_runq(): the idle thread runs. *)
EmptyRunq(c) ==
    [nr |-> 0, current |-> idler(c), rt |-> [p \in RtPrio |-> <<>>],
     round |-> 0, fs |-> [active |-> EmptyFsRunq, expired |-> EmptyFsRunq]]

(* One step after another: F of the state x, worked out once. *)
Then(s, F(_)) == CHOOSE r \in {F(x) : x \in {s}} : TRUE

Sum(f) == FoldFunction(LAMBDA x, y : x + y, 0, f)

fs_weight(q) == Sum(q.fs.active.weight) + Sum(q.fs.expired.weight)

(* (long)(a - b) > 0 *)
Later(a, b) == ((a - b) % RoundRange) \in 1..((RoundRange \div 2) - 1)

Check(s, b) == [s EXCEPT !.ok = @ /\ b]

Flag(s, t) == [s EXCEPT !.thread[t].yield = TRUE]

FlagIf(s, b, t) == IF b THEN Flag(s, t) ELSE s

--------------------------------------------------------------------------------
(* Real-time class. *)
thread_sched_rt_add(s, c, t) ==
    LET current == s.runq[c].current
    IN FlagIf([s EXCEPT !.runq[c].rt[Prio(s, t)] = Append(@, t)],
              Class(s, current) = 0 /\ Prio(s, t) > Prio(s, current), current)

thread_sched_rt_remove(s, c, t) ==
    [s EXCEPT !.runq[c].rt[Prio(s, t)] = Remove(@, t)]

(* What every class does in thread_runq_add(), after its own part. *)
Added(s, c, t) ==
    LET current == s.runq[c].current
    IN FlagIf([s EXCEPT !.runq[c].nr = @ + 1,
                        !.thread[t].runq = c, !.thread[t].in_runq = TRUE],
              Class(s, t) < Class(s, current), current)

thread_runq_wakeup_balancer(s, c) ==
    LET b == balancer(c)
    IN IF s.thread[b].state = "running" THEN s
       ELSE Then([s EXCEPT !.thread[b].state = "running"], LAMBDA s1 :
            Then(thread_sched_rt_add(s1, c, b), LAMBDA s2 : Added(s2, c, b)))

--------------------------------------------------------------------------------
(* Fair-share class. *)
thread_sched_fs_prio2weight(p) == (p + 1) * SliceBase

thread_sched_fs_enqueue_scale(work, old, new) == (work * new) \div old

(* The list of groups with p after those ahead. *)
Place(groups, p, ahead) ==
    InsertAt(Remove(groups, p), Cardinality((ToSet(groups) \cap ahead) \ {p}) + 1, p)

(* Work is scaled by the weight for a thread of another round. *)
EnqueueWork(q, p, d, round) ==
    IF d.round = round THEN d.work
    ELSE IF Sum(q.weight) = 0 THEN 0
    ELSE IF q.weight[p] = 0
         THEN thread_sched_fs_enqueue_scale(Sum(q.work), Sum(q.weight), d.weight)
    ELSE thread_sched_fs_enqueue_scale(q.work[p], q.weight[p],
                                       q.weight[p] + d.weight) - q.work[p]

thread_sched_fs_enqueue(s, c, i, round, t) ==
    LET q == s.runq[c].fs[i]
        d == s.thread[t]
        p == Prio(s, t)
        w == q.weight[p] + d.weight
        work == EnqueueWork(q, p, d, round)
    IN Check([s EXCEPT
           !.runq[c].fs[i].groups = Place(@, p, {g \in FsPrio : q.weight[g] >= w}),
           !.runq[c].fs[i].weight[p] = w,
           !.runq[c].fs[i].work[p] = @ + work,
           !.runq[c].fs[i].members[p] = <<t>> \o @,
           !.runq[c].fs[i].threads = Append(@, t),
           !.thread[t].round = round,
           !.thread[t].work = work,
           !.thread[t].fs_runq = <<c, i>>],
       d.fs_runq = None /\ d.work <= d.weight)

thread_sched_fs_restart(s, c) ==
    LET current == s.runq[c].current
    IN FlagIf([s EXCEPT !.runq[c].fs.active.current =
                            Head(s.runq[c].fs.active.groups),
                        !.runq[c].fs.active.after = None],
              Class(s, current) = 1, current)

thread_sched_fs_add(s, c, t) ==
    Then(IF fs_weight(s.runq[c]) = 0
         THEN [s EXCEPT !.runq[c].round = s.highest] ELSE s, LAMBDA s1 :
    Then(thread_sched_fs_enqueue(s1, c, "active", s1.runq[c].round, t), LAMBDA s2 :
    thread_sched_fs_restart(s2, c)))

(* The group after p in the list, None at its end: a group that leaves the *)
(* list keeps its link, which "after" stands for.                          *)
Following(groups, p) ==
    LET after == {i \in DOMAIN groups : i > 1 /\ groups[i - 1] = p}
    IN IF after = {} THEN None ELSE groups[CHOOSE i \in after : TRUE]

thread_sched_fs_dequeue(s, t) ==
    LET c == s.thread[t].fs_runq[1]
        i == s.thread[t].fs_runq[2]
        q == s.runq[c].fs[i]
        p == Prio(s, t)
        w == q.weight[p] - s.thread[t].weight
    IN [s EXCEPT
           !.thread[t].fs_runq = None,
           !.runq[c].fs[i].threads = Remove(@, t),
           !.runq[c].fs[i].members[p] = Remove(@, t),
           !.runq[c].fs[i].work[p] = @ - s.thread[t].work,
           !.runq[c].fs[i].weight[p] = w,
           !.runq[c].fs[i].groups = IF w = 0 THEN Remove(@, p)
                                    ELSE Place(@, p, {g \in FsPrio : q.weight[g] > w}),
           !.runq[c].fs[i].after = IF w = 0 /\ q.current = p
                                   THEN Following(q.groups, p) ELSE @]

thread_sched_fs_remove(s, c, t) ==
    Then(thread_sched_fs_dequeue(s, t), LAMBDA s1 :
         IF s.thread[t].fs_runq = <<c, "expired">> THEN s1
         ELSE IF s1.runq[c].fs.active.threads = <<>>
         THEN thread_runq_wakeup_balancer(s1, c) ELSE thread_sched_fs_restart(s1, c))

Deactivated(s, c, t) ==
    LET round == (s.runq[c].round + 1) % RoundRange
    IN Then(Check(thread_sched_fs_dequeue(s, t),
                  /\ s.thread[t].fs_runq = <<c, "active">>
                  /\ s.thread[t].round = s.runq[c].round), LAMBDA s1 :
       Then([s1 EXCEPT !.thread[t].round = (@ + 1) % RoundRange,
                       !.thread[t].work = @ - s.thread[t].weight], LAMBDA s2 :
       thread_sched_fs_enqueue(s2, c, "expired", round, t)))

(* Broken: the balancer is not told that the round is over. *)
NobodyTold(s, c, t) == Deactivated(s, c, t)

thread_sched_fs_deactivate(s, c, t) ==
    Then(Deactivated(s, c, t), LAMBDA s1 :
         IF s1.runq[c].fs.active.threads = <<>>
         THEN thread_runq_wakeup_balancer(s1, c) ELSE s1)

thread_sched_fs_put_prev(s, c, t) ==
    Then([s EXCEPT !.runq[c].fs.active.members[Prio(s, t)] = Append(@, t)],
         LAMBDA s1 : IF s.thread[t].work >= s.thread[t].weight
                     THEN thread_sched_fs_deactivate(s1, c, t) ELSE s1)

thread_sched_fs_ratio_exceeded(q, g, next) ==
    (q.work[g] + 1) * q.weight[next] > (q.work[next] + 1) * q.weight[g]

(* The current group while its share is not exceeded by the next one's. *)
NextGroup(q) ==
    LET next == IF Contains(q.groups, q.current) THEN Following(q.groups, q.current)
                ELSE q.after
    IN IF next /= None /\ thread_sched_fs_ratio_exceeded(q, q.current, next)
       THEN next ELSE Head(q.groups)

thread_sched_fs_get_next(s, c) ==
    Then(NextGroup(s.runq[c].fs.active), LAMBDA g :
         Check([s EXCEPT !.runq[c].fs.active.current = g,
                         !.runq[c].fs.active.after = None,
                         !.runq[c].fs.active.members[g] = Tail(@),
                         !.runq[c].current = Head(s.runq[c].fs.active.members[g])],
               s.runq[c].fs.active.members[g] /= <<>>))

thread_sched_fs_tick(s, c, t) ==
    Flag([s EXCEPT !.runq[c].fs.active.work[Prio(s, t)] = @ + 1,
                   !.thread[t].work = @ + 1], t)

(* The queues swap their names, here; which group of the expired one was   *)
(* current no longer matters.                                              *)
Swap(s, c) ==
    LET Other(i) == IF i = "active" THEN "expired" ELSE "active"
        Renamed(d) == IF d.fs_runq /= None /\ d.fs_runq[1] = c
                      THEN [d EXCEPT !.fs_runq[2] = Other(@)] ELSE d
    IN [s EXCEPT !.thread = [t \in DOMAIN @ |-> Renamed(@[t])],
                 !.runq[c].fs = [active |-> @.expired,
                                 expired |-> [@.active EXCEPT !.current = None,
                                                              !.after = None]]]

thread_sched_fs_start_next_round(s, c) ==
    LET round == (s.runq[c].round + 1) % RoundRange
        Begun(s1) == [s1 EXCEPT !.runq[c].round = round,
                                !.highest = IF Later(round, @) THEN round ELSE @]
    IN IF s.runq[c].fs.expired.threads = <<>> THEN Swap(s, c)
       ELSE Then(Begun(Swap(s, c)), LAMBDA s1 : thread_sched_fs_restart(s1, c))

--------------------------------------------------------------------------------
(* The operations of a run queue, whatever the class of the thread. *)
thread_runq_add(s, c, t) ==
    Then(Check(s, ~s.thread[t].in_runq), LAMBDA s1 :
    Then(IF Class(s, t) = 0 THEN thread_sched_rt_add(s1, c, t)
         ELSE thread_sched_fs_add(s1, c, t), LAMBDA s2 : Added(s2, c, t)))

thread_runq_remove(s, c, t) ==
    Then(Check([s EXCEPT !.runq[c].nr = @ - 1], s.thread[t].in_runq), LAMBDA s1 :
         [(IF Class(s, t) = 0 THEN thread_sched_rt_remove(s1, c, t)
           ELSE thread_sched_fs_remove(s1, c, t)) EXCEPT !.thread[t].in_runq = FALSE])

thread_runq_put_prev(s, c, t) ==
    CASE Class(s, t) = 0 -> thread_sched_rt_add(s, c, t)
      [] Class(s, t) = 1 -> thread_sched_fs_put_prev(s, c, t)
      [] Class(s, t) = 2 -> s

RtReady(q) == {p \in RtPrio : q.rt[p] /= <<>>}

thread_sched_rt_get_next(s, c) ==
    LET p == Max(RtReady(s.runq[c]))
    IN [s EXCEPT !.runq[c].rt[p] = Tail(@),
                 !.runq[c].current = Head(s.runq[c].rt[p])]

thread_runq_get_next(s, c) ==
    LET q == s.runq[c]
    IN IF RtReady(q) /= {} THEN thread_sched_rt_get_next(s, c)
       ELSE IF q.fs.active.threads /= <<>> THEN thread_sched_fs_get_next(s, c)
       ELSE [s EXCEPT !.runq[c].current = idler(c)]

(* rt_set_next and fs_set_next take the thread off its list of ready ones. *)
thread_runq_set_next(s, c, t) ==
    IF Class(s, t) = 0 THEN thread_sched_rt_remove(s, c, t)
    ELSE [s EXCEPT !.runq[c].fs.active.members[Prio(s, t)] = Remove(@, t)]

thread_runq_schedule(s, c) ==
    LET prev == s.runq[c].current
        leaves == s.thread[prev].state /= "running"
    IN Then([s EXCEPT !.thread[prev].yield = FALSE], LAMBDA s1 :
       Then(thread_runq_put_prev(s1, c, prev), LAMBDA s2 :
       Then(IF leaves THEN thread_runq_remove(s2, c, prev) ELSE s2, LAMBDA s3 :
       Then(IF leaves /\ s3.runq[c].nr = 0 /\ prev /= balancer(c)
            THEN thread_runq_wakeup_balancer(s3, c) ELSE s3, LAMBDA s4 :
       Then(thread_runq_get_next(s4, c), LAMBDA s5 :
       Check(s5, s5.runq[c].current = idler(c) => s5.runq[c].nr = 0))))))

--------------------------------------------------------------------------------
(* The processors and their threads.                                       *)

VARIABLES
    runq,
    thread,
    highest_round,
    step,           \* where each balancer thread is
    sound,          \* no assertion failed
    lowered         \* history: the current thread lost priority since it runs

svars == <<runq, thread, highest_round, step, sound, lowered>>

System == {balancer(c) : c \in CPU} \cup {idler(c) : c \in CPU}

Others(c) == CPU \ {c}

(* thread_init() for a thread of the given scheduling data. *)
New(data, state, c) ==
    [state |-> state, runq |-> c, in_runq |-> FALSE, yield |-> FALSE,
     user |-> data, real |-> data, boosted |-> FALSE, fs_runq |-> None, round |-> 0,
     weight |-> IF data.policy = "fs" THEN thread_sched_fs_prio2weight(data.prio)
                ELSE 0,
     work |-> 0]

(* The copy of the highest round, the run queue that was chosen, and those *)
(* to try.                                                                 *)
Asleep == [at |-> "sleep", highest |-> None, remote |-> None, todo |-> {}]

Init ==
    /\ runq = [c \in CPU |-> EmptyRunq(c)]
    /\ thread = [t \in Thread \cup System |->
                    IF t \in Thread THEN New(Initial[t], "sleeping", None)
                    ELSE IF t[1] = "idler"
                    THEN New([policy |-> "idle", prio |-> 0], "running", t[2])
                    ELSE New([policy |-> "fifo", prio |-> 0], "sleeping", t[2])]
    /\ highest_round = InitRound
    /\ step = [c \in CPU |-> Asleep]
    /\ sound = TRUE
    /\ lowered = [c \in CPU |-> FALSE]

State == [runq |-> runq, thread |-> thread, highest |-> highest_round, ok |-> sound]

Becomes(expression) ==
    \E s \in {expression} : /\ runq' = s.runq
                           /\ thread' = s.thread
                           /\ highest_round' = s.highest
                           /\ sound' = s.ok

Current(c) == runq[c].current

--------------------------------------------------------------------------------
(* The balancer thread sleeps, its run queue locked, and another one runs. *)
BalancerSleeps(s, c) ==
    Then([s EXCEPT !.thread[balancer(c)].state = "sleeping"],
         LAMBDA s1 : thread_runq_schedule(s1, c))

NextRound(s, c) ==
    IF s.runq[c].fs.active.threads = <<>> THEN thread_sched_fs_start_next_round(s, c)
    ELSE s

(* thread_sched_fs_balance(), entered when the balancer is switched to.    *)
NoMigration(s, c) ==
    /\ s.runq[c].round /= s.highest
    /\ s.runq[c].fs.expired.threads /= <<>>

(* The processor c calls the scheduler; a balancer that it switches to and *)
(* that was asleep starts balancing before it unlocks the run queue.       *)
Schedule(s, c) ==
    \E s1 \in {thread_runq_schedule(s, c)} :
       LET begins == s1.runq[c].current = balancer(c) /\ step[c].at = "sleep"
       IN /\ lowered' = [lowered EXCEPT ![c] = FALSE]
          /\ IF begins /\ NoMigration(s1, c)
             THEN Becomes(BalancerSleeps(NextRound(s1, c), c)) ELSE Becomes(s1)
          /\ step' = IF begins /\ ~NoMigration(s1, c)
                     THEN [step EXCEPT ![c] = [at |-> "scan", highest |-> s1.highest,
                                               remote |-> None, todo |-> Others(c)]]
                     ELSE step

(* thread_schedule(), and thread_yield() of a thread that calls it. *)
Yield(c) ==
    /\ thread[Current(c)].yield \/ Current(c) \in Thread
    /\ \E s \in {State} : Schedule(s, c)

thread_sleep_common(c) ==
    /\ Current(c) \in Sleeper
    /\ \E s \in {[State EXCEPT !.thread[Current(c)].state = "sleeping"]} : Schedule(s, c)

--------------------------------------------------------------------------------
(* thread_wakeup_common(), up to the unlocking of the run queue. *)
thread_wakeup_common(t) ==
    /\ thread[t].state = "sleeping"
    /\ thread' = [thread EXCEPT ![t].state = "running"]
    /\ UNCHANGED <<runq, highest_round, step, sound, lowered>>

thread_sched_rt_select_runq == Min(CPU)

(* The better of two run queues for a fair-share thread. *)
Better(c, best) ==
    LET delta == Later(runq[c].round, runq[best].round)
    IN /\ fs_weight(runq[c]) /= 0
       /\ \/ delta
          \/ /\ runq[c].round = runq[best].round
             /\ fs_weight(runq[c]) < fs_weight(runq[best])

thread_sched_fs_select_runq ==
    LET idle == {c \in CPU : Current(c) = idler(c)}
    IN IF idle /= {} THEN idle
       ELSE {FoldLeft(LAMBDA best, c : IF Better(c, best) THEN c ELSE best,
                      Min(CPU), SetToSortSeq(CPU, <))}

(* The rest of the wake-up: thread_runq_wakeup() on the run queue selected. *)
thread_runq_wakeup(t) ==
    /\ thread[t].state = "running" /\ ~thread[t].in_runq
    /\ \E c \in IF Class(State, t) = 0 THEN {thread_sched_rt_select_runq}
                ELSE thread_sched_fs_select_runq :
           Becomes(thread_runq_add(State, c, t))
    /\ UNCHANGED <<step, lowered>>

(* thread_report_periodic_event(): the idle time before a balance, and the *)
(* slice of a round-robin thread, may or may not end with this tick.       *)
thread_report_periodic_event(c) ==
    /\ highest_round /= LastRound
    /\ Class(State, Current(c)) = 1 /\ thread[Current(c)].yield =>
           thread[Current(c)].work < thread[Current(c)].weight + Late
    /\ \E due, expires \in BOOLEAN :
       \E s \in {IF due /\ runq[c].nr = 0
                THEN thread_runq_wakeup_balancer(State, c) ELSE State} :
           Becomes(IF Class(s, Current(c)) = 1
                   THEN thread_sched_fs_tick(s, c, Current(c))
                   ELSE FlagIf(s, expires /\ thread[Current(c)].real.policy = "rr",
                               Current(c)))
    /\ UNCHANGED <<step, lowered>>

--------------------------------------------------------------------------------
thread_sched_fs_balance_eligible(q, highest) ==
    LET threads == Len(q.fs.active.threads) + Len(q.fs.expired.threads)
    IN /\ q.round \in {highest, (highest - 1) % RoundRange}
       /\ threads > IF Class(State, q.current) = 1 THEN 1 ELSE 0

(* The heaviest of the run queues that are eligible, the first of equals.  *)
thread_sched_fs_balance_scan(c, highest) ==
    LET eligible == {r \in Others(c) :
                        thread_sched_fs_balance_eligible(runq[r], highest)}
        heaviest == {r \in eligible : \A o \in eligible :
                        fs_weight(runq[o]) <= fs_weight(runq[r])}
    IN IF eligible = {} THEN None ELSE Min(heaviest)

(* One thread of the remote queue r: taken unless it runs or, when some    *)
(* were taken already, it would unbalance the run queues.                  *)
Pull(a, t, c, r) ==
    LET s == a.s
        w == s.thread[t].weight
        stops == a.stop \/ a.nr = MaxMigrations
        heavy == a.nr /= 0 /\ fs_weight(s.runq[c]) + w > fs_weight(s.runq[r]) - w
    IN IF stops \/ t = s.runq[r].current THEN a
       ELSE IF heavy THEN [a EXCEPT !.stop = TRUE]
       ELSE Then(thread_runq_remove(s, r, t), LAMBDA s1 :
            Then([s1 EXCEPT !.thread[t].round = s.runq[c].round], LAMBDA s2 :
            [s |-> thread_runq_add(s2, c, t), nr |-> a.nr + 1, stop |-> FALSE]))

thread_sched_fs_balance_pull(a, c, r, i) ==
    FoldLeft(LAMBDA b, t : Then(b, LAMBDA x : Pull(x, t, c, r)),
             [a EXCEPT !.stop = FALSE], a.s.runq[r].fs[i].threads)

(* The active queue, then the expired one of a run queue that is behind. *)
thread_sched_fs_balance_migrate(c, r, highest) ==
    LET none == [s |-> State, nr |-> 0, stop |-> FALSE]
    IN IF ~thread_sched_fs_balance_eligible(runq[r], highest) THEN none
       ELSE Then(thread_sched_fs_balance_pull(none, c, r, "active"), LAMBDA a :
            IF a.nr = MaxMigrations \/ a.s.runq[r].round = highest THEN a
            ELSE thread_sched_fs_balance_pull(a, c, r, "expired"))

BalancerAt(c, at) == Current(c) = balancer(c) /\ step[c].at = at

Balanced(c, s) ==
    /\ Becomes(BalancerSleeps(s, c))
    /\ step' = [step EXCEPT ![c] = Asleep]
    /\ lowered' = [lowered EXCEPT ![c] = FALSE]

Scan(c) ==
    /\ BalancerAt(c, "scan")
    /\ \E r \in {thread_sched_fs_balance_scan(c, step[c].highest)} :
           step' = [step EXCEPT ![c].at = IF r = None THEN "all" ELSE "migrate",
                                ![c].remote = r]
    /\ UNCHANGED <<runq, thread, highest_round, sound, lowered>>

(* Both run queues are locked, the one that was chosen. *)
Migrate(c) ==
    /\ BalancerAt(c, "migrate")
    /\ \E a \in {thread_sched_fs_balance_migrate(c, step[c].remote,
                                                 step[c].highest)} :
          IF a.nr /= 0 THEN Balanced(c, a.s)
          ELSE /\ step' = [step EXCEPT ![c].at = "all"]
               /\ UNCHANGED <<runq, thread, highest_round, sound, lowered>>

(* Then any other one in turn, until threads are pulled. *)
MigrateAny(c) ==
    /\ BalancerAt(c, "all") /\ step[c].todo /= {}
    /\ \E r \in {Min(step[c].todo)} :
       \E a \in {thread_sched_fs_balance_migrate(c, r, step[c].highest)} :
          IF a.nr /= 0 THEN Balanced(c, a.s)
          ELSE /\ step' = [step EXCEPT ![c].todo = @ \ {r}]
               /\ UNCHANGED <<runq, thread, highest_round, sound, lowered>>

(* Nothing was pulled: the next round, unless threads were added since.    *)
Fallback(c) ==
    /\ BalancerAt(c, "all") /\ step[c].todo = {}
    /\ Balanced(c, NextRound(State, c))

--------------------------------------------------------------------------------
(* The scheduling data of a thread change while it is off its run queue.   *)
SetReal(s, t, data) ==
    LET d == s.thread[t]
        w == thread_sched_fs_prio2weight(data.prio)
        updated == IF data.policy /= "fs" THEN d
                   ELSE IF d.real.policy = "fs"
                   THEN [d EXCEPT !.weight = w, !.work = IF @ >= w THEN w ELSE @]
                   ELSE [d EXCEPT !.fs_runq = None, !.round = 0, !.weight = w,
                                  !.work = 0]
    IN [s EXCEPT !.thread[t] = [updated EXCEPT !.real = data]]

thread_reset_real_priority(s, t) ==
    LET d == s.thread[t]
        reset == IF d.user.policy /= "fs" THEN d
                 ELSE [d EXCEPT !.fs_runq = None, !.round = 0, !.work = 0,
                                !.weight = thread_sched_fs_prio2weight(d.user.prio)]
    IN [s EXCEPT !.thread[t] = [reset EXCEPT !.real = d.user, !.boosted = FALSE]]

(* thread_setscheduler() on the data of the thread. *)
SetUser(s, t, data) ==
    LET s1 == [s EXCEPT !.thread[t].user = data]
        d == s1.thread[t]
    IN IF ~d.boosted THEN SetReal(s1, t, data)
       ELSE IF get_global_priority(d.user) >= get_global_priority(d.real)
       THEN thread_reset_real_priority(s1, t) ELSE s1

(* thread_pi_setscheduler() on the data of the thread. *)
SetBoost(s, t, data) ==
    IF get_global_priority(data) <= get_global_priority(s.thread[t].user)
    THEN thread_reset_real_priority(s, t)
    ELSE [SetReal(s, t, data) EXCEPT !.thread[t].boosted = TRUE]

Requeue(t, Change(_)) ==
    LET c == thread[t].runq
        current == t = Current(c)
    IN IF ~thread[t].in_runq THEN Change(State)
       ELSE Then(IF current THEN thread_runq_put_prev(State, c, t) ELSE State,
                 LAMBDA s1 :
            Then(thread_runq_remove(s1, c, t), LAMBDA s2 :
            Then(Change(s2), LAMBDA s3 :
            Then(thread_runq_add(s3, c, t), LAMBDA s4 :
            IF current THEN thread_runq_set_next(s4, c, t) ELSE s4))))

Lowers(t) ==
    /\ thread[t].in_runq /\ t = Current(thread[t].runq)
    /\ get_global_priority(thread'[t].real) < get_global_priority(thread[t].real)

Remember(t) ==
    lowered' = [c \in CPU |-> lowered[c] \/ (c = thread[t].runq /\ Lowers(t))]

thread_setscheduler(t, data) ==
    /\ thread[t].runq /= None
    /\ thread[t].user /= data
    /\ Becomes(Requeue(t, LAMBDA s : SetUser(s, t, data)))
    /\ Remember(t)
    /\ UNCHANGED step

(* Priority inheritance: a boost to the priority of a waiter, then back.   *)
thread_pi_setscheduler(t, data) ==
    /\ thread[t].runq /= None
    /\ thread[t].real /= data
    /\ Becomes(Requeue(t, LAMBDA s : SetBoost(s, t, data)))
    /\ Remember(t)
    /\ UNCHANGED step

Balance(c) == Scan(c) \/ Migrate(c) \/ MigrateAny(c) \/ Fallback(c)

Next ==
    \/ \E c \in CPU : \/ Yield(c) \/ thread_sleep_common(c) \/ Balance(c)
                      \/ thread_report_periodic_event(c)
    \/ \E t \in Thread : \/ thread_wakeup_common(t) \/ thread_runq_wakeup(t)
                         \/ \E data \in Settings[t] : \/ thread_setscheduler(t, data)
                                                   \/ thread_pi_setscheduler(t, data)

(* What fairness is about: a processor reaches the points where a thread    *)
(* that is to yield does, and otherwise gets its ticks.                    *)
Yields(c) == thread[Current(c)].yield /\ Yield(c)

Ticks(c) ==
    /\ ~thread[Current(c)].yield /\ Current(c) \in Thread
    /\ thread_report_periodic_event(c)

Spec == Init /\ [][Next]_svars

--------------------------------------------------------------------------------
Policies == {[policy |-> p, prio |-> n] : p \in {"fifo", "rr"}, n \in RtPrio}
            \cup {[policy |-> "fs", prio |-> n] : n \in FsPrio}
            \cup {[policy |-> "idle", prio |-> 0]}

TypeOK ==
    /\ highest_round \in 0..(RoundRange - 1)
    /\ sound \in BOOLEAN
    /\ lowered \in [CPU -> BOOLEAN]
    /\ \A t \in DOMAIN thread :
          /\ thread[t].state \in {"running", "sleeping"}
          /\ thread[t].runq \in CPU \cup {None}
          /\ {thread[t].in_runq, thread[t].yield, thread[t].boosted} \subseteq BOOLEAN
          /\ {thread[t].user, thread[t].real} \subseteq Policies
          /\ thread[t].round \in 0..(RoundRange - 1)
          /\ thread[t].work \in Nat
    /\ \A c \in CPU :
          /\ runq[c].round \in 0..(RoundRange - 1)
          /\ runq[c].current \in DOMAIN thread
          /\ step[c].todo \subseteq CPU

(* No assertion of the run queue code fails. *)
AssertsHold == sound

Queued(c, i) == {t \in Thread : thread[t].fs_runq = <<c, i>>}

(* The groups of a fair-share queue are those of the threads queued in it, *)
(* by decreasing weight, with their weights and work and, but for the      *)
(* thread that runs, the threads themselves.                               *)
FairShareSound ==
    \A c \in CPU, i \in {"active", "expired"} :
       LET q == runq[c].fs[i]
           Members(p) == {t \in Queued(c, i) : Prio(State, t) = p}
           SumOf(f(_), S) == FoldFunction(LAMBDA x, y : x + y, 0, [t \in S |-> f(t)])
       IN /\ ToSet(q.threads) = Queued(c, i)
          /\ Len(q.threads) = Cardinality(Queued(c, i))
          /\ ToSet(q.groups) = {p \in FsPrio : Members(p) /= {}}
          /\ \A j \in 2..Len(q.groups) :
                q.weight[q.groups[j - 1]] >= q.weight[q.groups[j]]
          /\ \A p \in FsPrio :
                /\ ToSet(q.members[p]) = Members(p) \ {Current(c)}
                /\ q.weight[p] = SumOf(LAMBDA t : thread[t].weight, Members(p))
                /\ q.work[p] = SumOf(LAMBDA t : thread[t].work, Members(p))

(* A thread is in the queue of its class and priority of one run queue,    *)
(* or it sleeps or is being woken up, in none; its run queue counts it.    *)
QueuedOnce ==
    /\ \A c \in CPU :
          runq[c].nr = Cardinality({t \in DOMAIN thread :
                                       thread[t].in_runq /\ thread[t].runq = c})
    /\ \A t \in DOMAIN thread \ {idler(c) : c \in CPU} :
          LET In(c, p) == Contains(runq[c].rt[p], t)
              runs == t = Current(thread[t].runq)
          IN /\ thread[t].state = "sleeping" => ~thread[t].in_runq
             /\ \A c \in CPU, p \in RtPrio :
                   In(c, p) <=> /\ thread[t].in_runq /\ ~runs /\ c = thread[t].runq
                                /\ Class(State, t) = 0 /\ p = Prio(State, t)
             /\ thread[t].in_runq /\ Class(State, t) = 1 <=>
                   \E i \in {"active", "expired"} :
                      thread[t].fs_runq = <<thread[t].runq, i>>
             /\ \A c \in CPU : t = Current(c) => thread[t].in_runq
                                                 /\ c = thread[t].runq

(* A thread that is ready while one of lower priority runs: the latter is  *)
(* to yield, except when it is its own priority that was lowered.          *)
Preempts ==
    \A c \in CPU, t \in DOMAIN thread :
       /\ thread[t].in_runq /\ thread[t].runq = c
       /\ get_global_priority(thread[t].real)
             > get_global_priority(thread[Current(c)].real)
       => thread[Current(c)].yield \/ lowered[c]

(* Threads of the next round are waited for by a balancer that is awake.   *)
NobodyStranded ==
    \A c \in CPU :
       runq[c].fs.active.threads = <<>> /\ runq[c].fs.expired.threads /= <<>>
       => thread[balancer(c)].state = "running"

SchedulerSound ==
    AssertsHold /\ FairShareSound /\ QueuedOnce /\ Preempts /\ NobodyStranded

(* A fair-share thread that is ready eventually runs.                      *)
Owed(t) == thread[t].in_runq
Given(t) == \E c \in CPU : Current(c) = t
================================================================================
