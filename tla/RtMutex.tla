--------------------------------- MODULE RtMutex ---------------------------------
(***************************************************************************)
(* kern/rtmutex.c over kern/turnstile.c: mutexes with priority inheritance *)
(* and the threads that lock several of them, so that waiters and owners   *)
(* form chains.                                                            *)
(*                                                                         *)
(* A step is what is done under one lock, a bucket's or a thread data's,   *)
(* or one atomic operation outside of them.  A thread that takes a thread  *)
(* data lock and releases it in the same step only needs it to be free.    *)
(* Every thread has a processor, and every mutex a bucket, of its own.     *)
(***************************************************************************)
EXTENDS Naturals, Sequences, SequencesExt, FiniteSets, SleepQueue

CONSTANTS
    Nobody,         \* no thread
    Thread,
    Mutex,
    Prio,           \* the user priority of each thread
    Path,           \* the mutexes each thread locks, in order
    Impatient       \* the threads whose calls have a time boundary

ASSUME NobodyAssumption == Nobody \notin Thread \cup Mutex
ASSUME PrioAssumption == Prio \in [Thread -> Nat \ {0}]
(* No thread locks a mutex it owns, as turnstile_wait_common() asserts.    *)
ASSUME PathAssumption ==
    Path \in [Thread -> Seq(Mutex)] /\ \A t \in Thread : IsInjective(Path[t])

--------------------------------------------------------------------------------
(* The priority ordered queues of kern/turnstile.c and the priorities that *)
(* owners inherit from them, as a value.  There is one turnstile per mutex *)
(* in use; the record td has                                               *)
(*                                                                         *)
(*   waiters    per mutex, its waiters, the top one last;                  *)
(*   prio       per thread, the priority of its waiter structure;          *)
(*   owner      per mutex, the owner of its turnstile, or Nobody;          *)
(*   owned      per thread, the turnstiles it owns, the top one last;      *)
(*   node       per mutex, the priority of its turnstile in that list;     *)
(*   top        per thread, top_global_priority of its thread data;        *)
(*   top_real   per thread, the priority top_priority and the policy say.  *)
(*                                                                         *)
(* The argument real gives the real priority of each thread.               *)

NoTurnstile ==
    [waiters |-> [m \in Mutex |-> <<>>], prio |-> [t \in Thread |-> 0],
     owner |-> [m \in Mutex |-> Nobody], owned |-> [t \in Thread |-> <<>>],
     node |-> [m \in Mutex |-> 0], top |-> [t \in Thread |-> 0],
     top_real |-> [t \in Thread |-> 0]]

(* Broken: the head of the list is the top. *)
AddFirst(s, prio, x) == <<x>> \o s

(* A node goes after those of the same priority. *)
plist_add(s, prio, x) ==
    InsertAt(s, Cardinality({i \in DOMAIN s : prio[s[i]] <= prio[x]}) + 1, x)

plist_remove(s, x) ==
    IF x \in ToSet(s)
    THEN LET p == CHOOSE i \in DOMAIN s : s[i] = x
         IN  [i \in 1..(Len(s) - 1) |-> IF i < p THEN s[i] ELSE s[i + 1]]
    ELSE s

turnstile_empty(td, m) == td.waiters[m] = <<>>

top_waiter(td, m) == Last(td.waiters[m])

IsWaiting(td, t) == \E m \in DOMAIN td.waiters : t \in ToSet(td.waiters[m])

(* The turnstile a thread waits in. *)
WaitsIn(td, t) == CHOOSE m \in DOMAIN td.waiters : t \in ToSet(td.waiters[m])

turnstile_add_waiter(td, m, t, p) ==
    LET prio == [td.prio EXCEPT ![t] = p]
    IN  [td EXCEPT !.prio = prio, !.waiters[m] = plist_add(@, prio, t)]

turnstile_remove_waiter(td, m, t) ==
    [td EXCEPT !.prio[t] = 0, !.waiters[m] = plist_remove(@, t)]

turnstile_requeue_waiter(td, m, t, p) ==
    turnstile_add_waiter(turnstile_remove_waiter(td, m, t), m, t, p)

--------------------------------------------------------------------------------
(* The thread data of an owner.                                            *)

turnstile_td_update_top_priority(td, u, real) ==
    LET m == Last(td.owned[u]) IN
    IF td.owned[u] = <<>> \/ turnstile_empty(td, m)
    THEN [td EXCEPT !.top[u] = 0, !.top_real[u] = 0]
    ELSE [td EXCEPT !.top[u] = td.prio[top_waiter(td, m)],
                    !.top_real[u] = real[top_waiter(td, m)]]

turnstile_td_own(td, u, m, real) ==
    LET node == [td.node EXCEPT ![m] = real[top_waiter(td, m)]]
    IN  turnstile_td_update_top_priority(
            [td EXCEPT !.node = node, !.owner[m] = u,
                       !.owned[u] = plist_add(@, node, m)], u, real)

Unlinked(td, u, m) ==
    [td EXCEPT !.node[m] = 0, !.owner[m] = Nobody, !.owned[u] = plist_remove(@, m)]

(* Broken: the priorities of the owner are left alone. *)
DisownQuietly(td, u, m, real) == Unlinked(td, u, m)

turnstile_td_disown(td, u, m, real) ==
    turnstile_td_update_top_priority(Unlinked(td, u, m), u, real)

turnstile_td_reown(td, u, m, real) ==
    turnstile_td_own(Unlinked(td, u, m), u, m, real)

(* Broken: an empty turnstile keeps its owner. *)
OwnerKept(td, u, m, real) ==
    IF turnstile_empty(td, m) THEN td
    ELSE IF td.owner[m] = Nobody THEN turnstile_td_own(td, u, m, real)
                                 ELSE turnstile_td_reown(td, u, m, real)

(* turnstile_update_owner(), what it changes before it propagates. *)
OwnerUpdated(td, u, m, real) ==
    IF turnstile_empty(td, m)
    THEN IF td.owner[m] = Nobody THEN td ELSE turnstile_td_disown(td, u, m, real)
    ELSE IF td.owner[m] = Nobody THEN turnstile_td_own(td, u, m, real)
                                 ELSE turnstile_td_reown(td, u, m, real)

--------------------------------------------------------------------------------
(* turnstile_td_propagate_priority_loop(), for one thread u whose own      *)
(* priority is user.                                                       *)

TopPriority(td, u, user) == IF td.top[u] > user THEN td.top[u] ELSE user

(* The real priority it is given, from the policy and priority that were   *)
(* noted along with the top priority. *)
Inherited(td, u, user, real) ==
    IF TopPriority(td, u, user) = real[u] THEN real[u]
    ELSE IF td.top[u] > user /\ td.top_real[u] > user THEN td.top_real[u]
    ELSE user

--------------------------------------------------------------------------------
(* The mutexes and their threads.                                          *)

VARIABLES
    word,       \* per mutex, its owner and its two flags
    bucket,     \* per mutex, the thread that locked its bucket, or Nobody
    lent,       \* per mutex, the threads that have lent a turnstile to it
    td,         \* the turnstiles and thread data, see above
    td_lock,    \* per thread, the thread that locked its data, or Nobody
    awaken,     \* the waiters with awaken set
    real,       \* per thread, its real priority
    th,         \* the threads, see SleepQueue
    at,         \* per thread, the mutex of its current call, or Nobody
    failed,     \* the threads whose wait timed out
    prop,       \* per thread, the one it propagates priorities to, or Nobody
    pc          \* where each thread is

vars == <<word, bucket, lent, td, td_lock, awaken, real, th, at, failed, prop, pc>>

Init ==
    /\ word = [m \in Mutex |->
                [owner |-> Nobody, contended |-> FALSE, force_wait |-> FALSE]]
    /\ bucket = [m \in Mutex |-> Nobody]
    /\ lent = [m \in Mutex |-> {}]
    /\ td = NoTurnstile
    /\ td_lock = [t \in Thread |-> Nobody]
    /\ awaken = {}
    /\ real = Prio
    /\ th = AllRunning
    /\ at = [t \in Thread |-> Nobody]
    /\ failed = {}
    /\ prop = [t \in Thread |-> Nobody]
    /\ pc = [t \in Thread |-> "run"]

Goto(t, from, to) == pc[t] = from /\ pc' = [pc EXCEPT ![t] = to]

Unlocked == [owner |-> Nobody, contended |-> FALSE, force_wait |-> FALSE]
LockedBy(t) == [Unlocked EXCEPT !.owner = t]

(* Broken: a swap, as in the plain mutex. *)
AttemptSwap(w, bits, t) == [w EXCEPT !.owner = t]

(* The compare and swap of the slow path, with the bits it expects. *)
Attempt(w, bits, t) == IF w = bits THEN [w EXCEPT !.owner = t] ELSE w

Contended == [Unlocked EXCEPT !.contended = TRUE]
Passed == [Contended EXCEPT !.force_wait = TRUE]

Held(t) == {m \in Mutex : word[m].owner = t}

--------------------------------------------------------------------------------
(* Locking.                                                                *)

(* A thread locks the next mutex on its path. *)
NextOnPath(t, m) ==
    \E i \in DOMAIN Path[t] :
        m = Path[t][i] /\ Held(t) = {Path[t][j] : j \in 1..(i - 1)}

LockFast(t, m) ==
    /\ pc[t] = "run"
    /\ NextOnPath(t, m)
    /\ word[m] = Unlocked
    /\ word' = [word EXCEPT ![m] = LockedBy(t)]
    /\ UNCHANGED <<bucket, lent, td, td_lock, awaken, real, th, at, failed, prop,
                   pc>>

LockSlow(t, m) ==
    /\ Goto(t, "run", "lend")
    /\ NextOnPath(t, m)
    /\ word[m] /= Unlocked
    /\ at' = [at EXCEPT ![t] = m]
    /\ UNCHANGED <<word, bucket, lent, td, td_lock, awaken, real, th, failed, prop>>

(* turnstile_lend(), rtmutex_set_contended() and the first attempt: once   *)
(* the word is marked, it only changes under the bucket's lock.            *)
Lend(t) ==
    LET m == at[t]
        w == [word[m] EXCEPT !.contended = TRUE]
    IN  /\ Goto(t, "lend", IF w = Contended THEN "won" ELSE "add")
        /\ bucket[m] = Nobody
        /\ td_lock[t] = Nobody
        /\ bucket' = [bucket EXCEPT ![m] = t]
        /\ lent' = [lent EXCEPT ![m] = @ \cup {t}]
        /\ word' = [word EXCEPT ![m] = Attempt(w, Contended, t)]
        /\ UNCHANGED <<td, td_lock, awaken, real, th, at, failed, prop>>

--------------------------------------------------------------------------------
(* turnstile_wait_common().                                                *)

(* Broken: who finds no owner sleeps like the others. *)
AddWaiterSleeps(t) ==
    /\ Goto(t, "add", IF word[at[t]].owner = Nobody THEN "loop" ELSE "own")
    /\ td_lock[t] = Nobody
    /\ td' = turnstile_add_waiter(td, at[t], t, real[t])
    /\ UNCHANGED <<word, bucket, lent, td_lock, awaken, real, th, at, failed, prop>>

(* Without an owner to wait for, a top waiter has nothing to wait for. *)
AddWaiter(t) ==
    LET m == at[t]
        added == turnstile_add_waiter(td, m, t, real[t])
        free == word[m].owner = Nobody
    IN  /\ Goto(t, "add", IF free THEN "loop" ELSE "own")
        /\ td_lock[t] = Nobody
        /\ td' = added
        /\ awaken' = IF free /\ top_waiter(added, m) = t
                     THEN awaken \cup {t} ELSE awaken \ {t}
        /\ UNCHANGED <<word, bucket, lent, td_lock, real, th, at, failed, prop>>

(* turnstile_update_owner(), on the way in with the owner of the mutex, on *)
(* the way out of a failed wait with the owner of the turnstile.  The      *)
(* bucket is unlocked for the propagation.                                 *)
UpdateOwner(t) ==
    LET m == at[t]
        u == IF t \in failed THEN td.owner[m] ELSE word[m].owner
    IN  /\ Goto(t, "own", "prop")
        /\ td_lock[u] = Nobody
        /\ td' = OwnerUpdated(td, u, m, real)
        /\ td_lock' = [td_lock EXCEPT ![u] = t]
        /\ prop' = [prop EXCEPT ![t] = u]
        /\ bucket' = [bucket EXCEPT ![m] = Nobody]
        /\ UNCHANGED <<word, lent, awaken, real, th, at, failed>>

Timeout(t) ==
    /\ t \in th.armed
    /\ th' = thread_timeout(th, t)
    /\ UNCHANGED <<word, bucket, lent, td, td_lock, awaken, real, at, failed, prop,
                   pc>>

(* One turn of the loop, from its top, or after a sleep. *)
Turn(t) ==
    LET m == at[t]
        top == top_waiter(td, m)
        woken == thread_resume(th, t)
    IN  /\ pc[t] \in {"loop", "asleep"}
        /\ t \notin th.asleep
        /\ bucket[m] \in {t, Nobody}
        /\ \/ /\ IF t \in awaken THEN top = t ELSE t \in th.timedout
              /\ pc' = [pc EXCEPT ![t] = "leave"]
              /\ bucket' = [bucket EXCEPT ![m] = t]
              /\ failed' = IF t \in awaken THEN failed ELSE failed \cup {t}
              /\ th' = woken
              /\ UNCHANGED awaken
           \/ /\ t \in awaken /\ top /= t
              /\ awaken' = (awaken \cup {top}) \ {t}
              /\ th' = thread_sleep(IF top \in awaken THEN woken
                                    ELSE thread_wakeup(woken, top),
                                    t, t \in Impatient)
              /\ pc' = [pc EXCEPT ![t] = "asleep"]
              /\ bucket' = [bucket EXCEPT ![m] = Nobody]
              /\ UNCHANGED failed
           \/ /\ t \notin awaken \cup th.timedout
              /\ th' = thread_sleep(woken, t, t \in Impatient)
              /\ pc' = [pc EXCEPT ![t] = "asleep"]
              /\ bucket' = [bucket EXCEPT ![m] = Nobody]
              /\ UNCHANGED <<awaken, failed>>
        /\ UNCHANGED <<word, lent, td, td_lock, real, at, prop>>

(* The end of the wait, and another attempt at the mutex. *)
Leave(t) ==
    LET m == at[t]
    IN  /\ Goto(t, "leave", IF t \in failed
                            THEN IF td.owner[m] = Nobody THEN "failed" ELSE "own"
                            ELSE IF word[m] = Passed THEN "won" ELSE "add")
        /\ td_lock[t] = Nobody
        /\ td' = turnstile_remove_waiter(td, m, t)
        /\ awaken' = awaken \ {t}
        /\ word' = IF t \in failed THEN word
                   ELSE [word EXCEPT ![m] = Attempt(@, Passed, t)]
        /\ UNCHANGED <<bucket, lent, td_lock, real, th, at, failed, prop>>

--------------------------------------------------------------------------------
(* The end of the slow path.                                               *)

(* Broken: the turnstile is not given back. *)
ReturnNothing(t) ==
    /\ td_lock[t] = Nobody
    /\ bucket' = [bucket EXCEPT ![at[t]] = Nobody]
    /\ at' = [at EXCEPT ![t] = Nobody]
    /\ UNCHANGED lent

Return(t) ==
    /\ td_lock[t] = Nobody
    /\ bucket' = [bucket EXCEPT ![at[t]] = Nobody]
    /\ lent' = [lent EXCEPT ![at[t]] = @ \ {t}]
    /\ at' = [at EXCEPT ![t] = Nobody]

(* turnstile_own(), and the downgrade if nobody else waits. *)
Won(t) ==
    LET m == at[t] IN
    /\ Goto(t, "won", "run")
    /\ IF turnstile_empty(td, m)
       THEN word' = [word EXCEPT ![m] = LockedBy(t)] /\ UNCHANGED td
       ELSE td' = turnstile_td_own(td, t, m, real) /\ UNCHANGED word
    /\ Return(t)
    /\ UNCHANGED <<td_lock, awaken, real, th, failed, prop>>

(* Broken: a failed call leaves the flags alone. *)
FailedKeepsFlags(t) ==
    /\ Goto(t, "failed", "run")
    /\ bucket[at[t]] \in {t, Nobody}
    /\ failed' = failed \ {t}
    /\ Return(t)
    /\ UNCHANGED <<word, td, td_lock, awaken, real, th, prop>>

(* The first of those that timed out clears the flags for the owner. *)
Failed(t) ==
    LET m == at[t] IN
    /\ Goto(t, "failed", "run")
    /\ bucket[m] \in {t, Nobody}
    /\ word' = IF turnstile_empty(td, m) /\ word[m].contended
               THEN [word EXCEPT ![m] = [Unlocked EXCEPT !.owner = word[m].owner]]
               ELSE word
    /\ failed' = failed \ {t}
    /\ Return(t)
    /\ UNCHANGED <<td, td_lock, awaken, real, th, prop>>

--------------------------------------------------------------------------------
(* Priority propagation.                                                   *)

(* Where a thread goes on after a propagation. *)
After(t) == IF at[t] = Nobody THEN "run"
            ELSE IF t \in failed THEN "failed" ELSE "loop"

Done(t) == /\ pc' = [pc EXCEPT ![t] = After(t)]
           /\ prop' = [prop EXCEPT ![t] = Nobody]

(* One turn of turnstile_td_propagate_priority_loop(), with the data of    *)
(* the thread u locked: the thread gets its priority, then its waiter.     *)
Propagate(t) ==
    LET u == prop[t]
        m == WaitsIn(td, u)
        new == [real EXCEPT ![u] = Inherited(td, u, Prio[u], real)]
        placed == \/ ~IsWaiting(td, u)
                  \/ TopPriority(td, u, Prio[u]) = td.prio[u]
    IN  /\ pc[t] = "prop"
        /\ real' = new
        /\ td_lock' = [td_lock EXCEPT ![u] = Nobody]
        /\ \/ placed /\ Done(t) /\ UNCHANGED <<td, bucket>>
           \/ /\ ~placed /\ bucket[m] /= Nobody
              /\ pc' = [pc EXCEPT ![t] = "retry"]
              /\ UNCHANGED <<td, bucket, prop>>
           \/ /\ ~placed /\ bucket[m] = Nobody
              /\ td' = turnstile_requeue_waiter(td, m, u, new[u])
              /\ IF td.owner[m] = Nobody
                 THEN Done(t) /\ UNCHANGED bucket
                 ELSE /\ bucket' = [bucket EXCEPT ![m] = t]
                      /\ pc' = [pc EXCEPT ![t] = "next"]
                      /\ UNCHANGED prop
        /\ UNCHANGED <<word, lent, awaken, th, at, failed>>

(* The bucket was busy: the data are unlocked and locked again. *)
Retry(t) ==
    /\ Goto(t, "retry", "prop")
    /\ td_lock[prop[t]] = Nobody
    /\ td_lock' = [td_lock EXCEPT ![prop[t]] = t]
    /\ UNCHANGED <<word, bucket, lent, td, awaken, real, th, at, failed, prop>>

(* On to the owner of the turnstile, the bucket of which is locked. *)
NextOwner(t) ==
    LET m == CHOOSE m \in Mutex : bucket[m] = t
        u == td.owner[m]
    IN  /\ Goto(t, "next", "prop")
        /\ td_lock[u] = Nobody
        /\ td' = turnstile_td_reown(td, u, m, real)
        /\ td_lock' = [td_lock EXCEPT ![u] = t]
        /\ prop' = [prop EXCEPT ![t] = u]
        /\ bucket' = [bucket EXCEPT ![m] = Nobody]
        /\ UNCHANGED <<word, lent, awaken, real, th, at, failed>>

--------------------------------------------------------------------------------
(* Unlocking.                                                              *)

Unlock(t, m) ==
    /\ word[m].owner = t
    /\ IF word[m] = LockedBy(t)
       THEN /\ pc[t] = "run"
            /\ word' = [word EXCEPT ![m] = Unlocked]
            /\ UNCHANGED <<at, pc>>
       ELSE /\ Goto(t, "run", "unlock")
            /\ at' = [at EXCEPT ![t] = m]
            /\ UNCHANGED word
    /\ UNCHANGED <<bucket, lent, td, td_lock, awaken, real, th, failed, prop>>

(* rtmutex_unlock_slow(): with no turnstile to signal, the fast path again *)
(* until it succeeds; else the mutex is passed on to the waiters. *)
UnlockSlow(t) ==
    LET m == at[t]
        top == top_waiter(td, m)
    IN  /\ Goto(t, "unlock", "self")
        /\ bucket[m] = Nobody
        /\ at' = [at EXCEPT ![t] = Nobody]
        /\ IF lent[m] = {}
           THEN /\ word[m] = LockedBy(t)
                /\ word' = [word EXCEPT ![m] = Unlocked]
                /\ UNCHANGED <<td, awaken, th>>
           ELSE /\ td_lock[t] = Nobody
                /\ word' = [word EXCEPT ![m] = Passed]
                /\ td' = IF td.owner[m] = Nobody THEN td
                         ELSE turnstile_td_disown(td, t, m, real)
                /\ IF turnstile_empty(td, m) \/ top \in awaken
                   THEN UNCHANGED <<awaken, th>>
                   ELSE /\ awaken' = awaken \cup {top}
                        /\ th' = thread_wakeup(th, top)
        /\ UNCHANGED <<bucket, lent, td_lock, real, failed, prop>>

(* thread_propagate_priority(), at the end of a slow unlock. *)
PropagateSelf(t) ==
    /\ Goto(t, "self", "prop")
    /\ td_lock[t] = Nobody
    /\ td_lock' = [td_lock EXCEPT ![t] = t]
    /\ prop' = [prop EXCEPT ![t] = t]
    /\ UNCHANGED <<word, bucket, lent, td, awaken, real, th, at, failed>>

--------------------------------------------------------------------------------

Progress(t) ==
    \/ Lend(t) \/ AddWaiter(t) \/ UpdateOwner(t) \/ Turn(t) \/ Leave(t)
    \/ Won(t) \/ Failed(t) \/ Propagate(t) \/ Retry(t) \/ NextOwner(t)
    \/ UnlockSlow(t) \/ PropagateSelf(t)

Next ==
    \E t \in Thread :
        \/ \E m \in Mutex : LockFast(t, m) \/ LockSlow(t, m) \/ Unlock(t, m)
        \/ Timeout(t) \/ Progress(t)

Spec == Init /\ [][Next]_vars

(* Spin locks are queued, time passes, a thread in a call goes on. *)
FairSpec == Spec /\ \A t \in Thread : SF_vars(Progress(t)) /\ WF_vars(Timeout(t))

--------------------------------------------------------------------------------
(* Properties.                                                             *)

Places == {"run", "lend", "add", "own", "loop", "asleep", "leave", "won", "failed",
           "prop", "retry", "next", "unlock", "self"}

(* Every variable has a value of its kind; a bucket, a thread data lock    *)
(* and a lent turnstile are held where rtmutex.c and turnstile.c hold them. *)
TypeOK ==
    /\ word \in [Mutex -> [owner : Thread \cup {Nobody},
                           contended : BOOLEAN, force_wait : BOOLEAN]]
    /\ awaken \subseteq Thread /\ failed \subseteq Thread
    /\ th \in Threads(Thread)
    /\ real \in [Thread -> Nat \ {0}]
    /\ pc \in [Thread -> Places]
    /\ \A m \in Mutex :
         /\ bucket[m] /= Nobody => at[bucket[m]] = m \/ pc[bucket[m]] = "next"
         /\ lent[m] = {t \in Thread : at[t] = m /\ pc[t] \notin {"lend", "unlock"}}
    /\ \A t \in Thread :
         /\ pc[t] \in {"add", "own", "leave", "won"} => bucket[at[t]] = t
         /\ {u \in Thread : td_lock[u] = t} = IF pc[t] = "prop" THEN {prop[t]} ELSE {}

(* Each mutex of a chain is a mutex, as kern/mutex.h promises: one owner,  *)
(* only calls with a time boundary fail, whatever the fast paths, the      *)
(* hand-over under force_wait and the clearing of the flags by late        *)
(* threads do to its word. *)
CallsFor(m) == {t \in Thread : at[t] = m /\ word[m].owner /= t}
Abs(m) == INSTANCE AbstractMutex
    WITH owner <- word[m].owner, waiting <- CallsFor(m),
         patient <- CallsFor(m) \ Impatient
ImplementsMutex ==
    /\ \A m \in Mutex : Abs(m)!MInit
    /\ [][\A m \in Mutex : [Abs(m)!MNext]_(Abs(m)!mvars)]_vars

(* The flags are set while the slow path counts on them, as its assertion  *)
(* on the bits says, and clear once nobody has lent a turnstile: then      *)
(* rtmutex_unlock_slow() finds none and tries the fast path for ever if    *)
(* the last of the threads that won or timed out forgot them. *)
FlagsSound ==
    /\ \A m \in Mutex :
         /\ lent[m] = {} => ~word[m].contended /\ ~word[m].force_wait
         /\ ~turnstile_empty(td, m) => word[m].contended
    /\ \A t \in Thread :
         pc[t] = "leave" /\ t \notin failed => word[at[t]].force_wait

(* turnstile_update_owner(), turnstile_own() and turnstile_td_own() assert *)
(* that a turnstile has no owner or the owner of the mutex, and one with   *)
(* waiters: while timeouts empty turnstiles and owners unlock, its owner   *)
(* and the list of the owner agree, and only an owner has a turnstile.     *)
TurnstileOwned ==
    \A m \in Mutex :
        /\ td.owner[m] \in {Nobody, word[m].owner}
        /\ \A u \in Thread : m \in ToSet(td.owned[u]) <=> td.owner[m] = u
        /\ \A t \in Thread : pc[t] = "own" /\ t \notin failed /\ at[t] = m =>
              word[m].owner \notin {Nobody, t}

(* A thread that released all of its locks, and is done with the           *)
(* propagation that follows, has its user priority again. *)
Deboosted ==
    \A t \in Thread :
        pc[t] = "run" /\ Held(t) = {} /\ (\A s \in Thread : prop[s] /= t)
            => real[t] = Prio[t]

(* Once no propagation is in progress, the owner of a mutex runs at the    *)
(* priority of its top waiter at least, through chains of owners too. *)
Quiet == \A t \in Thread : pc[t] \in {"run", "asleep"}
NoInversion ==
    Quiet => \A m \in Mutex :
        word[m].owner /= Nobody =>
            \A t \in ToSet(td.waiters[m]) : real[word[m].owner] >= real[t]

(* A free mutex that threads wait for is locked, unless they give up. *)
NotLeftFree ==
    \A m \in Mutex :
        word[m].owner = Nobody /\ ~turnstile_empty(td, m) ~>
            word[m].owner /= Nobody \/ turnstile_empty(td, m)

(* turnstile.c:823: a thread that gets a mutex, being the top waiter, has  *)
(* the priority of those that still wait. *)
TopWaiterOwns ==
    \A t \in Thread : pc[t] = "won" /\ ~turnstile_empty(td, at[t]) =>
        real[t] >= td.prio[top_waiter(td, at[t])]
=================================================================================
