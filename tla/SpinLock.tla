-------------------------------- MODULE SpinLock --------------------------------
(***************************************************************************)
(* kern/spinlock.c: a queued spin lock derived from MCS locks.  The lock   *)
(* value is a lock bit and, when contended, the last waiter; the owner is  *)
(* never in the queue, so an execution context (a processor, in thread or  *)
(* interrupt context) has one qnode, whatever the number of locks it       *)
(* holds.  Contexts nest the locks in the order of LockOrder.              *)
(***************************************************************************)
EXTENDS Naturals, Sequences

CONSTANTS
    Context,
    None,       \* no context, a null pointer
    LockOrder   \* the locks, a sequence without repetition

Lock == {LockOrder[i] : i \in DOMAIN LockOrder}

VARIABLES
    bit,        \* SPINLOCK_LOCKED, for each lock
    last,       \* the last waiter if SPINLOCK_CONTENDED, or None
    next,       \* qnode->next of each context
    locked,     \* qnode->locked of each context
    pc,         \* where each context is
    held,       \* the locks each context holds
    wanted,     \* the lock each context is locking
    prev,       \* the last waiter each context found when it queued
    line        \* history: the contexts in the order they queued, per lock

vars == <<bit, last, next, locked, pc, held, wanted, prev, line>>
node == <<next, locked>>

Labels == {"run", "slow", "enqueue", "link", "spin", "wait", "downgrade",
           "setbit", "next", "handoff"}

TypeOK ==
    /\ bit \in [Lock -> BOOLEAN]
    /\ last \in [Lock -> Context \cup {None}]
    /\ next \in [Context -> Context \cup {None}]
    /\ locked \in [Context -> BOOLEAN]
    /\ pc \in [Context -> Labels]
    /\ held \in [Context -> SUBSET Lock]
    /\ \A c \in Context : IF pc[c] = "run" THEN wanted[c] = None
                                           ELSE wanted[c] \in Lock \ held[c]
    /\ prev \in [Context -> Context \cup {None}]
    /\ line \in [Lock -> Seq(Context)]

Init ==
    /\ bit = [l \in Lock |-> FALSE]
    /\ last = [l \in Lock |-> None]
    /\ next = [c \in Context |-> None]
    /\ locked = [c \in Context |-> FALSE]
    /\ pc = [c \in Context |-> "run"]
    /\ held = [c \in Context |-> {}]
    /\ wanted = [c \in Context |-> None]
    /\ prev = [c \in Context |-> None]
    /\ line = [l \in Lock |-> <<>>]

Goto(c, from, to) == pc[c] = from /\ pc' = [pc EXCEPT ![c] = to]

Owns(c, l) ==
    \/ l \in held[c]
    \/ wanted[c] = l /\ pc[c] \in {"downgrade", "setbit", "next", "handoff"}

(* Locks are taken in order, and no lock twice. *)
MayLock(c, l) ==
    \E i \in DOMAIN LockOrder :
        /\ LockOrder[i] = l
        /\ \A j \in i..Len(LockOrder) : LockOrder[j] \notin held[c]

spinlock_lock_fast(c, l) ==
    /\ pc[c] = "run"
    /\ MayLock(c, l)
    /\ ~bit[l] /\ last[l] = None
    /\ bit' = [bit EXCEPT ![l] = TRUE]
    /\ held' = [held EXCEPT ![c] = @ \cup {l}]
    /\ UNCHANGED <<last, node, pc, wanted, prev, line>>

(* The fast path has failed: the qnode is prepared. *)
LockSlow(c, l) ==
    /\ Goto(c, "run", "enqueue")
    /\ MayLock(c, l)
    /\ bit[l] \/ last[l] /= None
    /\ wanted' = [wanted EXCEPT ![c] = l]
    /\ next' = [next EXCEPT ![c] = None]
    /\ UNCHANGED <<bit, last, locked, held, prev, line>>

(* The loop ends with a compare-and-swap that finds the value it read. *)
spinlock_enqueue(c) ==
    LET l == wanted[c] IN
    /\ Goto(c, "enqueue", IF last[l] = None THEN "wait" ELSE "link")
    /\ prev' = [prev EXCEPT ![c] = last[l]]
    /\ last' = [last EXCEPT ![l] = c]
    /\ line' = [line EXCEPT ![l] = Append(@, c)]
    /\ UNCHANGED <<bit, node, held, wanted>>

(* The locked flag is set before the predecessor can see the qnode. *)
Link(c) ==
    /\ Goto(c, "link", "spin")
    /\ locked' = [locked EXCEPT ![c] = TRUE]
    /\ next' = [next EXCEPT ![prev[c]] = c]
    /\ prev' = [prev EXCEPT ![c] = None]
    /\ UNCHANGED <<bit, last, held, wanted, line>>

spinlock_qnode_wait_locked(c) ==
    /\ Goto(c, "spin", "wait")
    /\ ~locked[c]
    /\ UNCHANGED <<bit, last, node, held, wanted, prev, line>>

(* The first waiter sees the lock bit clear: the lock is its own. *)
spinlock_wait_locked(c) ==
    /\ Goto(c, "wait", "downgrade")
    /\ ~bit[wanted[c]]
    /\ line' = [line EXCEPT ![wanted[c]] = Tail(@)]
    /\ UNCHANGED <<bit, last, node, held, wanted, prev>>

Return(c, from) ==
    /\ Goto(c, from, "run")
    /\ held' = [held EXCEPT ![c] = @ \cup {wanted[c]}]
    /\ wanted' = [wanted EXCEPT ![c] = None]

(* Broken: the queue is emptied without looking at who is last. *)
DowngradeAlways(c) ==
    LET l == wanted[c] IN
    /\ Return(c, "downgrade")
    /\ last' = [last EXCEPT ![l] = None]
    /\ bit' = [bit EXCEPT ![l] = TRUE]
    /\ UNCHANGED <<node, prev, line>>

(* The compare-and-swap succeeds when nobody queued behind. *)
spinlock_downgrade(c) ==
    LET l == wanted[c] IN
    /\ pc[c] = "downgrade"
    /\ IF last[l] = c /\ ~bit[l]
       THEN /\ Return(c, "downgrade")
            /\ last' = [last EXCEPT ![l] = None]
            /\ bit' = [bit EXCEPT ![l] = TRUE]
       ELSE Goto(c, "downgrade", "setbit") /\ UNCHANGED <<bit, last, held, wanted>>
    /\ UNCHANGED <<node, prev, line>>

spinlock_set_locked(c) ==
    /\ Goto(c, "setbit", "next")
    /\ bit' = [bit EXCEPT ![wanted[c]] = TRUE]
    /\ UNCHANGED <<last, node, held, wanted, prev, line>>

(* The successor may have queued without having linked itself yet. *)
spinlock_qnode_wait_next(c) ==
    /\ Goto(c, "next", "handoff")
    /\ next[c] /= None
    /\ UNCHANGED <<bit, last, node, held, wanted, prev, line>>

spinlock_qnode_clear_locked(c) ==
    /\ Return(c, "handoff")
    /\ locked' = [locked EXCEPT ![next[c]] = FALSE]
    /\ UNCHANGED <<bit, last, next, prev, line>>

spinlock_unlock(c, l) ==
    /\ pc[c] = "run"
    /\ l \in held[c]
    /\ held' = [held EXCEPT ![c] = @ \ {l}]
    /\ bit' = [bit EXCEPT ![l] = FALSE]
    /\ UNCHANGED <<last, node, pc, wanted, prev, line>>

Progress(c) ==
    \/ spinlock_enqueue(c) \/ Link(c) \/ spinlock_qnode_wait_locked(c)
    \/ spinlock_wait_locked(c) \/ spinlock_downgrade(c)
    \/ spinlock_set_locked(c) \/ spinlock_qnode_wait_next(c)
    \/ spinlock_qnode_clear_locked(c)

Next ==
    \E c \in Context :
    \/ Progress(c)
    \/ \E l \in Lock :
       spinlock_lock_fast(c, l) \/ LockSlow(c, l) \/ spinlock_unlock(c, l)

Spec == Init /\ [][Next]_vars

--------------------------------------------------------------------------------

(* spinlock_downgrade() asserts that a lock is still contended when its    *)
(* first waiter takes it, and the checks of spinlock_own() that it has no  *)
(* owner then.                                                             *)
AssertsHold ==
    \A c \in Context : pc[c] = "downgrade" =>
        /\ last[wanted[c]] /= None
        /\ \A d \in Context \ {c} : ~Owns(d, wanted[c])

Holder(l) ==
    IF \E c \in Context : Owns(c, l)
    THEN CHOOSE c \in Context : Owns(c, l)
    ELSE None

Abs(l) == INSTANCE FifoLock WITH holder <- Holder(l), line <- line[l]

(* Each lock has one holder and serves its waiters in the order in which   *)
(* they queued, though the queue is built after its end is published, and  *)
(* a qnode goes from one lock to another while its old neighbours run.     *)
LocksInit == \A l \in Lock : Abs(l)!LInit
LocksStep == \A l \in Lock : [Abs(l)!LNext]_(Abs(l)!lvars)

(* A processor that queues for a lock gets it, as those before it unlock.  *)
Owed(c) == pc[c] = "enqueue"
Given(c) == pc[c] = "run"
================================================================================
