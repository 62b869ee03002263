-------------------------------- MODULE FifoLock --------------------------------
(***************************************************************************)
(* What the users of kern/spinlock.h rely on: one holder, and waiters that *)
(* get the lock in the order in which they queued for it.  Nobody passes a *)
(* waiter, not even a caller that finds the lock free.                     *)
(***************************************************************************)
EXTENDS Sequences

CONSTANTS
    Context,    \* the execution contexts that use the lock
    None        \* no context

VARIABLES
    holder,     \* the context that holds the lock, or None
    line        \* the waiting contexts, first come first

lvars == <<holder, line>>

LInit == holder = None /\ line = <<>>

TakeFree(c) ==
    /\ holder = None
    /\ line = <<>>
    /\ holder' = c
    /\ UNCHANGED line

Queue(c) ==
    /\ holder /= c
    /\ line' = Append(line, c)
    /\ UNCHANGED holder

TakeFirst ==
    /\ holder = None
    /\ line /= <<>>
    /\ holder' = Head(line)
    /\ line' = Tail(line)

Drop(c) ==
    /\ holder = c
    /\ holder' = None
    /\ UNCHANGED line

LNext == TakeFirst \/ \E c \in Context : TakeFree(c) \/ Queue(c) \/ Drop(c)
================================================================================
